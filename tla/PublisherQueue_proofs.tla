------------------------ MODULE PublisherQueue_proofs ------------------------
(***************************************************************************)
(* Safety of the packet queue for every value of its constants: types, no   *)
(* lost wakeup, and GOPs without holes.  The lemmas of this module state    *)
(* for each operation that it preserves the inductive invariant, whoever    *)
(* calls it: the proofs about PublisherEndpoint use them.                   *)
(***************************************************************************)
EXTENDS PublisherQueue, TLAPS

(***************************************************************************)
(* The inductive invariant.  The queue and the packet handed out last are   *)
(* one unbroken run of frames that ends with the last frame offered, unless *)
(* the queue waits for a key frame.                                         *)
(***************************************************************************)
Begun == epoch = generation /\ popped # 0

ItemsInOrder ==
    /\ \A i \in 1..Len(items) :
          LET p == items[i].packet
          IN  /\ p.frame >= 1 /\ popped <= p.frame /\ p.frame <= frames
              /\ p.video => p.pts = p.frame
    /\ \A i, j \in 1..Len(items) :
          i <= j => items[i].packet.frame <= items[j].packet.frame
    /\ \A i \in 1..(Len(items) - 1) :
          Follows(items[i].packet.frame, items[i + 1].packet)

HeadInOrder ==
    items # <<>> =>
        IF Begun THEN Follows(popped, items[1].packet)
                 ELSE items[1].packet.video /\ items[1].packet.key

LastInOrder ==
    /\ items # <<>> => items[Len(items)].packet.frame = frames
    /\ items = <<>> /\ ~waitingKey /\ ~stopped => Begun /\ popped = frames

QueueInv ==
    /\ TypeOK
    /\ epoch <= generation /\ popped <= frames
    /\ NoLostWakeup
    /\ waitingKey => items = <<>> /\ ~Begun
    /\ stopped => items = <<>>
    /\ ItemsInOrder
    /\ HeadInOrder
    /\ LastInOrder

\* A packet that a capture thread may offer next.
Offerable(p) ==
    /\ p \in Packet /\ p.size # 0
    /\ p.frame = IF p.video THEN frames + 1 ELSE frames
    /\ p.video => p.pts = p.frame

-----------------------------------------------------------------------------
LEMMA NoPacketType == NoPacket \in Packet
  BY DEF NoPacket, Packet

\* What an item of a well-typed queue holds.
LEMMA ItemType ==
    ASSUME TypeOK, NEW i \in 1..Len(items)
    PROVE  /\ items[i] \in Item /\ items[i].packet \in Packet
           /\ items[i].packet.frame \in Nat /\ items[i].packet.size \in Nat
           /\ items[i].packet.video \in BOOLEAN /\ items[i].age \in Nat
  <1>1. items[i] \in Item
    BY DEF TypeOK
  <1>2. items[i].packet \in Packet /\ items[i].age \in Nat
    BY <1>1, QueueAssumption DEF Item
  <1>3. QED
    BY <1>1, <1>2 DEF Packet

LEMMA InitInv == Init => QueueInv
  <1> SUFFICES ASSUME Init PROVE QueueInv
    OBVIOUS
  <1>1. TypeOK
    <2>1. /\ items \in Seq(Item) /\ bytes \in Int /\ generation \in Nat
          /\ epoch \in Nat /\ popped \in Nat /\ frames \in Nat
      BY DEF Init
    <2>2. waitingKey \in BOOLEAN /\ stopped \in BOOLEAN /\ sleeping \in BOOLEAN
      BY DEF Init
    <2>3. packet \in Packet
      BY NoPacketType DEF Init
    <2>4. QED
      BY <2>1, <2>2, <2>3 DEF TypeOK
  <1>2. NoLostWakeup /\ ItemsInOrder /\ HeadInOrder /\ LastInOrder /\ ~Begun
    BY DEF Init, NoLostWakeup, ItemsInOrder, HeadInOrder, LastInOrder, Begun
  <1>3. QED
    BY <1>1, <1>2 DEF QueueInv, Init

(***************************************************************************)
(* Dropping the backlog, by whatever operation: reset(), a refused push, an *)
(* expired pop().                                                           *)
(***************************************************************************)
LEMMA ResetInv ==
    ASSUME QueueInv, ResetLocked, UNCHANGED <<stopped, epoch, popped>>,
           sleeping' \in BOOLEAN, sleeping' => ~stopped,
           packet' \in Packet, frames' \in Nat, frames' >= frames
    PROVE  QueueInv'
  BY QueueAssumption
  DEF QueueInv, TypeOK, ResetLocked, NoLostWakeup, ItemsInOrder,
      HeadInOrder, LastInOrder, Begun

LEMMA StopInv == ASSUME QueueInv, Stop PROVE QueueInv'
  <1>1. /\ stopped' = TRUE /\ items' = <<>> /\ bytes' = 0 /\ sleeping' = FALSE
        /\ waitingKey' = waitingKey /\ generation' = generation
        /\ frames' = frames /\ packet' = packet /\ epoch' = epoch
        /\ popped' = popped
    BY DEF Stop, Notify, popVars
  <1>2. TypeOK'
    <2>1. /\ items' \in Seq(Item) /\ bytes' \in Int /\ generation' \in Nat
          /\ epoch' \in Nat /\ popped' \in Nat /\ frames' \in Nat
      BY <1>1 DEF QueueInv, TypeOK
    <2>2. waitingKey' \in BOOLEAN /\ stopped' \in BOOLEAN /\ sleeping' \in BOOLEAN
      BY <1>1 DEF QueueInv, TypeOK
    <2>3. packet' \in Packet
      BY <1>1 DEF QueueInv, TypeOK
    <2>4. QED
      BY <2>1, <2>2, <2>3 DEF TypeOK
  <1>3. QED
    BY <1>1, <1>2
    DEF QueueInv, TypeOK, NoLostWakeup, ItemsInOrder, HeadInOrder, LastInOrder, Begun

LEMMA StoreInv ==
    ASSUME QueueInv, NEW p, Offerable(p), ~Refused(p), ~NeedsKey(p),
           Store(p), Notify, frames' = p.frame, UNCHANGED <<stopped, popVars>>
    PROVE  QueueInv'
  <1>a. p \in Packet /\ p.frame \in Nat /\ p.size \in Nat /\ p.video \in BOOLEAN
    BY DEF Offerable, Packet
  <1>b. ~stopped /\ stopped' = stopped /\ popped' = popped /\ epoch' = epoch
        /\ packet' = packet
    BY DEF Refused, popVars
  <1>new. [packet |-> p, age |-> 0] \in Item
    BY <1>a, QueueAssumption DEF Item
  <1>1. CASE Overflow(p)
    <2>1. items' = <<[packet |-> p, age |-> 0]>> /\ p.video /\ p.key
      BY <1>1, <1>new DEF Store, NeedsKey
    <2>2. generation' = generation + 1 /\ p.frame = frames + 1
      BY <1>1, <2>1 DEF Store, Offerable
    <2>3. /\ items' \in Seq(Item) /\ Len(items') = 1 /\ items' # <<>>
          /\ items'[1].packet = p
      BY <1>new, <2>1
    <2>4. /\ bytes' = 0 + p.size /\ waitingKey' = FALSE /\ sleeping' = FALSE
          /\ frames' = p.frame /\ p.pts = p.frame
      <3>1. bytes' = 0 + p.size
        BY <1>1 DEF Store
      <3>2. waitingKey' = FALSE /\ sleeping' = FALSE
        BY DEF Store, Notify
      <3>3. frames' = p.frame /\ p.pts = p.frame
        BY <2>1 DEF Offerable
      <3>4. QED
        BY <3>1, <3>2, <3>3
    <2>5. TypeOK'
      <3>1. /\ bytes' \in Int /\ generation' \in Nat
            /\ epoch' \in Nat /\ popped' \in Nat /\ frames' \in Nat
        BY <1>a, <1>b, <2>2, <2>4 DEF QueueInv, TypeOK
      <3>2. waitingKey' \in BOOLEAN /\ stopped' \in BOOLEAN /\ sleeping' \in BOOLEAN
        BY <1>b, <2>4 DEF QueueInv, TypeOK
      <3>3. packet' \in Packet
        BY <1>b DEF QueueInv, TypeOK
      <3>4. QED
        BY <2>3, <3>1, <3>2, <3>3 DEF TypeOK
    <2>6. ~Begun'
      BY <1>b, <2>2 DEF Begun, QueueInv, TypeOK
    <2>7. ItemsInOrder'
      BY <1>a, <1>b, <2>2, <2>3, <2>4 DEF ItemsInOrder, QueueInv, TypeOK
    <2>8. HeadInOrder' /\ LastInOrder' /\ NoLostWakeup'
      BY <2>1, <2>3, <2>4, <2>6 DEF HeadInOrder, LastInOrder, NoLostWakeup
    <2>9. QED
      BY <1>a, <1>b, <2>2, <2>4, <2>5, <2>6, <2>7, <2>8 DEF QueueInv, TypeOK
  <1>2. CASE ~Overflow(p)
    <2> DEFINE n == Len(items)
    <2>1. /\ items \in Seq(Item) /\ n \in Nat
          /\ items' = Append(items, [packet |-> p, age |-> 0])
      BY <1>2 DEF Store, QueueInv, TypeOK
    <2>2. /\ items' \in Seq(Item) /\ Len(items') = n + 1
          /\ \A i \in 1..n : items'[i] = items[i]
          /\ items'[n + 1].packet = p
      BY <2>1, <1>new
    <2>3. /\ generation' = generation /\ waitingKey' = FALSE
          /\ bytes' = bytes + p.size
      BY <1>2 DEF Store
    <2>4. frames' >= frames /\ frames' = p.frame /\ frames' \in Nat
      BY <1>a DEF Offerable, QueueInv, TypeOK
    <2>5. TypeOK' /\ NoLostWakeup'
      <3>1. /\ bytes' \in Int /\ generation' \in Nat
            /\ epoch' \in Nat /\ popped' \in Nat /\ frames' \in Nat
        BY <1>a, <1>b, <2>3, <2>4 DEF QueueInv, TypeOK
      <3>2. waitingKey' \in BOOLEAN /\ stopped' \in BOOLEAN /\ sleeping' = FALSE
        BY <1>b, <2>3 DEF QueueInv, TypeOK, Notify
      <3>3. packet' \in Packet
        BY <1>b DEF QueueInv, TypeOK
      <3>4. QED
        BY <2>2, <3>1, <3>2, <3>3 DEF TypeOK, NoLostWakeup
    <2>6. items = <<>> => n = 0
      OBVIOUS
    <2>7. items # <<>> => n >= 1
      BY <2>1
    <2>8. p.frame >= 1
      BY <1>a, <1>b, <1>2, <2>1, <2>7
      DEF Offerable, NeedsKey, QueueInv, TypeOK, ItemsInOrder, LastInOrder, Begun
    <2>9. ItemsInOrder'
      <3>1. ASSUME NEW i \in 1..(n + 1)
            PROVE  LET q == items'[i].packet
                   IN  /\ q.frame >= 1 /\ popped <= q.frame
                       /\ q.frame <= p.frame
                       /\ q.video => q.pts = q.frame
        <4>1. CASE i = n + 1
          BY <4>1, <1>a, <2>2, <2>4, <2>8 DEF Offerable, QueueInv, TypeOK
        <4>2. CASE i \in 1..n
          <5>1. items[i].packet.frame \in Nat
            BY <4>2, ItemType DEF QueueInv
          <5>2. QED
            BY <4>2, <5>1, <2>2, <2>4, <1>a DEF QueueInv, TypeOK, ItemsInOrder
        <4>3. QED
          BY <4>1, <4>2, <2>1
      <3>2. ASSUME NEW i \in 1..n
            PROVE  Follows(items'[i].packet.frame, items'[i + 1].packet)
        <4>1. CASE i = n
          BY <4>1, <2>1, <2>2, <2>6 DEF QueueInv, LastInOrder, Offerable, Follows
        <4>2. CASE i \in 1..(n - 1)
          BY <4>2, <2>1, <2>2 DEF QueueInv, ItemsInOrder, Follows
        <4>3. QED
          BY <4>1, <4>2, <2>1
      <3>3. ASSUME NEW i \in 1..(n + 1), NEW j \in 1..(n + 1), i <= j
            PROVE  items'[i].packet.frame <= items'[j].packet.frame
        <4>1. CASE j = n + 1
          <5>1. items'[i].packet.frame <= p.frame
            BY <3>1
          <5>2. QED
            BY <4>1, <5>1, <2>2
        <4>2. CASE i \in 1..n /\ j \in 1..n
          BY <4>2, <3>3, <2>2 DEF QueueInv, ItemsInOrder
        <4>3. QED
          BY <4>1, <4>2, <3>3, <2>1
      <3>4. QED
        BY <3>1, <3>2, <3>3, <2>1, <2>2, <2>4, <1>b DEF ItemsInOrder
    <2>10. HeadInOrder'
      <3>1. Begun' <=> Begun
        BY <1>b, <2>3 DEF Begun
      <3>2. CASE items = <<>>
        <4>1. items'[1].packet = p
          BY <3>2, <2>2, <2>6
        <4>2. CASE waitingKey
          <5>1. p.video /\ p.key /\ p.frame = frames + 1
            BY <4>2 DEF NeedsKey, Offerable
          <5>2. QED
            BY <4>1, <4>2, <5>1, <3>1 DEF HeadInOrder, QueueInv
        <4>3. CASE ~waitingKey
          <5>1. Begun /\ popped = frames
            BY <3>2, <4>3, <1>b DEF QueueInv, LastInOrder
          <5>2. Follows(popped, p)
            BY <5>1 DEF Offerable, Follows
          <5>3. QED
            BY <3>1, <4>1, <5>1, <5>2, <1>b DEF HeadInOrder, Follows
        <4>4. QED
          BY <4>2, <4>3 DEF QueueInv, TypeOK
      <3>3. CASE items # <<>>
        <4>1. items'[1] = items[1]
          BY <3>3, <2>1, <2>2, <2>7
        <4>2. QED
          BY <3>1, <3>3, <4>1, <1>b DEF QueueInv, HeadInOrder, Follows
      <3>4. QED
        BY <3>2, <3>3
    <2>11. LastInOrder' /\ (waitingKey' => items' = <<>>)
      BY <2>1, <2>2, <2>3, <2>4 DEF LastInOrder
    <2>12. QED
      BY <2>3, <2>4, <2>5, <2>9, <2>10, <2>11, <1>a, <1>b DEF QueueInv, TypeOK
  <1>3. QED
    BY <1>1, <1>2

\* Nothing the invariant speaks of changes but the consumer's own copy of
\* the packet, and `frames' when the queue takes no notice of a frame.
LEMMA IdleInv ==
    ASSUME QueueInv,
           UNCHANGED <<items, bytes, waitingKey, stopped, generation, sleeping,
                       epoch, popped>>,
           packet' \in Packet,
           frames' = frames \/ ((waitingKey \/ stopped) /\ frames' = frames + 1)
    PROVE  QueueInv'
  <1>1. frames' \in Nat /\ frames' >= frames
    BY DEF QueueInv, TypeOK
  <1>2. TypeOK'
    <2>1. /\ items' \in Seq(Item) /\ bytes' \in Int /\ generation' \in Nat
          /\ epoch' \in Nat /\ popped' \in Nat
      BY DEF QueueInv, TypeOK
    <2>2. waitingKey' \in BOOLEAN /\ stopped' \in BOOLEAN /\ sleeping' \in BOOLEAN
      BY DEF QueueInv, TypeOK
    <2>3. QED
      BY <1>1, <2>1, <2>2 DEF TypeOK
  <1>3. ItemsInOrder' /\ popped' <= frames'
    <2>1. \A i \in 1..Len(items) : items[i].packet.frame \in Nat
      BY ItemType DEF QueueInv
    <2>2. \A i \in 1..Len(items) : items[i].packet.frame <= frames'
      BY <1>1, <2>1 DEF QueueInv, TypeOK, ItemsInOrder
    <2>3. popped' <= frames'
      BY <1>1 DEF QueueInv, TypeOK
    <2>4. QED
      BY <2>2, <2>3 DEF QueueInv, ItemsInOrder, Follows
  <1>4. HeadInOrder' /\ (waitingKey' => items' = <<>> /\ ~Begun')
    BY DEF QueueInv, HeadInOrder, Begun, Follows
  <1>5. LastInOrder'
    BY <1>1 DEF QueueInv, LastInOrder, Begun
  <1>6. QED
    BY <1>2, <1>3, <1>4, <1>5 DEF QueueInv, NoLostWakeup

LEMMA PushInv ==
    ASSUME QueueInv, NEW p, Offerable(p), Push(p)
    PROVE  QueueInv'
  <1>a. frames' = p.frame /\ UNCHANGED <<stopped, popVars>>
    BY DEF Push
  <1>b. frames' \in Nat /\ frames' >= frames /\ frames' \in {frames, frames + 1}
    BY <1>a DEF Offerable, QueueInv, TypeOK, Packet
  <1>c. UNCHANGED <<epoch, popped, packet, stopped>>
    BY <1>a DEF popVars
  <1>d. packet' \in Packet /\ sleeping \in BOOLEAN
    BY <1>c DEF QueueInv, TypeOK
  <1>1. CASE Refused(p) /\ UNCHANGED <<storeVars, sleeping>>
    <2>1. stopped /\ UNCHANGED <<items, bytes, waitingKey, generation, sleeping>>
      BY <1>1 DEF Refused, Offerable, storeVars
    <2>2. QED
      BY <2>1, <1>b, <1>c, <1>d, IdleInv
  <1>2. CASE ~Refused(p) /\ ResetLocked /\ UNCHANGED sleeping
    <2>1. ~stopped
      BY <1>2 DEF Refused
    <2>2. QED
      BY <2>1, <1>2, <1>b, <1>c, <1>d, ResetInv
  <1>3. CASE NeedsKey(p) /\ ~Overflow(p) /\ UNCHANGED <<storeVars, sleeping>>
    <2>1. waitingKey /\ UNCHANGED <<items, bytes, waitingKey, generation, sleeping>>
      BY <1>3 DEF NeedsKey, storeVars
    <2>2. QED
      BY <2>1, <1>b, <1>c, <1>d, IdleInv
  <1>4. CASE ~Refused(p) /\ ~NeedsKey(p) /\ Store(p) /\ Notify
    BY <1>4, <1>a, StoreInv
  <1>5. QED
    BY <1>1, <1>2, <1>3, <1>4 DEF Push, DropIfOverflow

LEMMA PushThrowsInv ==
    ASSUME QueueInv, NEW p, PushThrows(p)
    PROVE  QueueInv'
  <1>a. UNCHANGED <<stopped, sleeping, frames, packet, epoch, popped>> /\ ~stopped
    BY DEF PushThrows, popVars, Refused
  <1>b. packet' \in Packet /\ sleeping' \in BOOLEAN /\ frames' \in Nat
        /\ frames' >= frames
    BY <1>a DEF QueueInv, TypeOK
  <1>1. CASE ResetLocked
    BY <1>1, <1>a, <1>b, ResetInv
  <1>2. CASE UNCHANGED storeVars
    <2>1. UNCHANGED <<items, bytes, waitingKey, generation>>
      BY <1>2 DEF storeVars
    <2>2. QED
      BY <2>1, <1>a, <1>b, IdleInv
  <1>3. QED
    BY <1>1, <1>2 DEF PushThrows, DropIfOverflow

LEMMA PopWaitInv ==
    ASSUME QueueInv, PopWait
    PROVE  QueueInv'
  <1>a. /\ ~stopped /\ sleeping' = TRUE
        /\ UNCHANGED <<stopped, frames, packet, epoch, popped>>
    BY DEF PopWait, popVars
  <1>b. packet' \in Packet /\ frames' \in Nat /\ frames' >= frames
    BY <1>a DEF QueueInv, TypeOK
  <1>1. CASE ResetLocked
    BY <1>1, <1>a, <1>b, ResetInv
  <1>2. CASE items = <<>> /\ UNCHANGED storeVars
    <2>1. UNCHANGED <<items, bytes, waitingKey, generation>>
      BY <1>2 DEF storeVars
    <2>2. TypeOK'
      <3>1. /\ items' \in Seq(Item) /\ bytes' \in Int /\ generation' \in Nat
            /\ epoch' \in Nat /\ popped' \in Nat /\ frames' \in Nat
        BY <1>a, <2>1 DEF QueueInv, TypeOK
      <3>2. waitingKey' \in BOOLEAN /\ stopped' \in BOOLEAN /\ sleeping' \in BOOLEAN
        BY <1>a, <2>1 DEF QueueInv, TypeOK
      <3>3. QED
        BY <1>b, <3>1, <3>2 DEF TypeOK
    <2>3. QED
      BY <1>2, <1>a, <2>1, <2>2
      DEF QueueInv, NoLostWakeup, ItemsInOrder, HeadInOrder, LastInOrder, Begun
  <1>3. QED
    BY <1>1, <1>2 DEF PopWait

(***************************************************************************)
(* Taking the head: what is left continues the packet taken.                *)
(***************************************************************************)
LEMMA PopTakeInv ==
    ASSUME QueueInv, PopTake
    PROVE  /\ QueueInv'
           /\ packet' = items[1].packet /\ popped' = packet'.frame
           /\ popped' # 0 /\ popped' >= popped /\ epoch' = generation
           /\ packet'.video => packet'.pts = packet'.frame
           /\ IF Begun THEN Follows(popped, packet')
                       ELSE packet'.video /\ packet'.key
  <1>0. PICK n \in Nat : n = Len(items)
    BY DEF QueueInv, TypeOK
  <1>1. /\ items \in Seq(Item) /\ items # <<>> /\ n = Len(items) /\ n >= 1
        /\ ~stopped /\ ~sleeping /\ ~waitingKey
    BY <1>0 DEF PopTake, QueueInv, TypeOK
  <1>n. n = 1 \/ n > 1
    BY <1>1
  <1>2. /\ packet' = items[1].packet /\ popped' = items[1].packet.frame
        /\ bytes' = bytes - items[1].packet.size
        /\ items' = Tail(items) /\ epoch' = generation
        /\ UNCHANGED <<waitingKey, stopped, generation, sleeping, frames>>
    BY <1>1 DEF PopTake
  <1>3. /\ items' \in Seq(Item) /\ Len(items') = n - 1
        /\ \A i \in 1..(n - 1) : items'[i] = items[i + 1]
    BY <1>1, <1>2
  <1>4. \A i \in 1..n : items[i].packet.frame \in Nat /\ items[i].packet.video \in BOOLEAN
    BY <1>0, ItemType DEF QueueInv
  <1>5. items[1].packet \in Packet /\ items[1].packet.size \in Nat
    BY <1>1, ItemType DEF QueueInv
  <1>6. popped' # 0 /\ popped' \in Nat /\ popped' <= frames
    BY <1>1, <1>2, <1>4 DEF QueueInv, ItemsInOrder
  <1>7. TypeOK'
    <2>1. /\ bytes' \in Int /\ generation' \in Nat
          /\ epoch' \in Nat /\ frames' \in Nat
      BY <1>2, <1>5 DEF QueueInv, TypeOK
    <2>2. waitingKey' \in BOOLEAN /\ stopped' \in BOOLEAN /\ sleeping' \in BOOLEAN
      BY <1>2 DEF QueueInv, TypeOK
    <2>3. QED
      BY <1>2, <1>3, <1>5, <1>6, <2>1, <2>2 DEF TypeOK
  <1>8. Begun' /\ ~waitingKey' /\ ~stopped' /\ ~sleeping'
    BY <1>1, <1>2, <1>6 DEF Begun
  <1>9. ItemsInOrder'
    <2>1. ASSUME NEW i \in 1..(n - 1)
          PROVE  LET p == items[i + 1].packet
                 IN  /\ p.frame >= 1 /\ popped' <= p.frame /\ p.frame <= frames
                     /\ p.video => p.pts = p.frame
      BY <1>1, <1>2 DEF QueueInv, ItemsInOrder
    <2>2. ASSUME NEW i \in 1..(n - 1), NEW j \in 1..(n - 1), i <= j
          PROVE  items[i + 1].packet.frame <= items[j + 1].packet.frame
      BY <1>1, <2>2 DEF QueueInv, ItemsInOrder
    <2>3. ASSUME NEW i \in 1..(n - 2)
          PROVE  Follows(items[i + 1].packet.frame, items[i + 2].packet)
      <3>1. i + 1 \in 1..(n - 1) /\ i + 2 = (i + 1) + 1
        BY <1>1
      <3>2. QED
        BY <3>1, <1>1 DEF QueueInv, ItemsInOrder, Follows
    <2>4. \A i \in 1..(n - 2) : items'[i + 1] = items[i + 2]
      BY <1>1, <1>3
    <2>5. QED
      BY <1>1, <1>2, <1>3, <2>1, <2>2, <2>3, <2>4 DEF ItemsInOrder, Follows
  <1>10. HeadInOrder'
    <2>1. CASE n = 1
      BY <2>1, <1>3 DEF HeadInOrder
    <2>2. CASE n > 1
      <3>1. items'[1] = items[2] /\ Follows(items[1].packet.frame, items[2].packet)
        BY <2>2, <1>1, <1>3 DEF QueueInv, ItemsInOrder
      <3>2. QED
        <4>1. Follows(popped', items'[1].packet)
          BY <3>1, <1>2 DEF Follows
        <4>2. QED
          BY <4>1, <1>8 DEF HeadInOrder, Follows
    <2>3. QED
      BY <1>n, <2>1, <2>2
  <1>11. LastInOrder'
    <2>1. CASE n = 1
      <3>1. items' = <<>> /\ popped' = frames
        BY <2>1, <1>1, <1>2, <1>3 DEF QueueInv, LastInOrder
      <3>2. QED
        BY <3>1, <1>2, <1>8 DEF LastInOrder
    <2>2. CASE n > 1
      <3>1. items'[n - 1] = items[n] /\ items' # <<>>
        BY <2>2, <1>1, <1>3
      <3>2. items[n].packet.frame = frames
        BY <1>1 DEF QueueInv, LastInOrder
      <3>3. items'[Len(items')].packet.frame = frames'
        BY <3>1, <3>2, <1>2, <1>3
      <3>4. QED
        BY <3>1, <3>3 DEF LastInOrder
    <2>3. QED
      BY <1>n, <2>1, <2>2
  <1>12. QueueInv'
    BY <1>2, <1>6, <1>7, <1>8, <1>9, <1>10, <1>11
    DEF QueueInv, TypeOK, NoLostWakeup
  <1>13. packet'.video => packet'.pts = packet'.frame
    BY <1>1, <1>2 DEF QueueInv, ItemsInOrder
  <1>14. IF Begun THEN Follows(popped, packet') ELSE packet'.video /\ packet'.key
    BY <1>1, <1>2 DEF QueueInv, HeadInOrder, Follows
  <1>15. popped' >= popped
    BY <1>1, <1>2 DEF QueueInv, TypeOK, ItemsInOrder
  <1>16. QED
    BY <1>2, <1>6, <1>12, <1>13, <1>14, <1>15

\* Growing older changes neither the packets nor their order.
LEMMA TickInv ==
    ASSUME QueueInv, Tick
    PROVE  QueueInv'
  <1>0. PICK n \in Nat : n = Len(items)
    BY DEF QueueInv, TypeOK
  <1>1. UNCHANGED <<bytes, waitingKey, stopped, generation, sleeping, frames,
                    packet, epoch, popped>>
    BY DEF Tick, popVars
  <1>2. /\ items \in Seq(Item) /\ DOMAIN items = 1..n
        /\ items' = [i \in 1..n |->
                       [items[i] EXCEPT !.age =
                           IF items[i].age > MaxAge THEN items[i].age
                                                    ELSE items[i].age + 1]]
    BY <1>0 DEF Tick, QueueInv, TypeOK
  <1>3. ASSUME NEW i \in 1..n
        PROVE  items'[i] \in Item /\ items'[i].packet = items[i].packet
    <2>1. items[i] \in Item
      BY <1>2, <1>0
    <2>2. items[i].age \in 0..(MaxAge + 1) /\ items[i].packet \in Packet
          /\ items[i] = [packet |-> items[i].packet, age |-> items[i].age]
      BY <2>1 DEF Item
    <2> DEFINE a == IF items[i].age > MaxAge THEN items[i].age
                                             ELSE items[i].age + 1
    <2>3. a \in 0..(MaxAge + 1)
      BY <2>2, QueueAssumption
    <2>4. items'[i] = [items[i] EXCEPT !.age = a]
      BY <1>2
    <2> HIDE DEF a
    <2>5. items'[i] = [packet |-> items[i].packet, age |-> a]
      BY <2>2, <2>4
    <2>6. QED
      BY <2>2, <2>3, <2>5 DEF Item
  <1>4. items' \in Seq(Item) /\ Len(items') = n /\ (items' = <<>> <=> items = <<>>)
    BY <1>0, <1>2, <1>3
  <1>5. TypeOK'
    <2>1. /\ bytes' \in Int /\ generation' \in Nat /\ epoch' \in Nat
          /\ popped' \in Nat /\ frames' \in Nat
      BY <1>1 DEF QueueInv, TypeOK
    <2>2. waitingKey' \in BOOLEAN /\ stopped' \in BOOLEAN /\ sleeping' \in BOOLEAN
      BY <1>1 DEF QueueInv, TypeOK
    <2>3. packet' \in Packet
      BY <1>1 DEF QueueInv, TypeOK
    <2>4. QED
      BY <1>4, <2>1, <2>2, <2>3 DEF TypeOK
  <1>6. ItemsInOrder'
    <2>1. Len(items) = n /\ Len(items') = n /\ popped' = popped /\ frames' = frames
      BY <1>0, <1>1, <1>4
    <2>2. \A i \in 1..n : items'[i].packet = items[i].packet
      BY <1>3
    <2>3. \A i \in 1..(n - 1) : i \in 1..n /\ i + 1 \in 1..n
      OBVIOUS
    <2>4. ItemsInOrder
      BY DEF QueueInv
    <2>5. \A i \in 1..n :
            LET p == items'[i].packet
            IN  /\ p.frame >= 1 /\ popped' <= p.frame /\ p.frame <= frames'
                /\ p.video => p.pts = p.frame
      BY <2>1, <2>2, <2>4, Zenon DEF ItemsInOrder
    <2>6. \A i, j \in 1..n :
            i <= j => items'[i].packet.frame <= items'[j].packet.frame
      BY <2>1, <2>2, <2>4, Zenon DEF ItemsInOrder
    <2>7. \A i \in 1..(n - 1) :
            Follows(items'[i].packet.frame, items'[i + 1].packet)
      BY <2>1, <2>2, <2>3, <2>4, Zenon DEF ItemsInOrder
    <2>8. QED
      BY <2>1, <2>5, <2>6, <2>7 DEF ItemsInOrder
  <1>7. HeadInOrder'
    <2>1. Begun' <=> Begun
      BY <1>1 DEF Begun
    <2>2. items # <<>> => items'[1].packet = items[1].packet
      BY <1>0, <1>2, <1>3
    <2>3. QED
      BY <1>1, <1>4, <2>1, <2>2 DEF QueueInv, HeadInOrder, Follows
  <1>8. LastInOrder'
    <2>1. items # <<>> => items'[n].packet = items[n].packet
      BY <1>0, <1>2, <1>3
    <2>2. QED
      BY <1>0, <1>1, <1>4, <2>1 DEF QueueInv, LastInOrder, Begun
  <1>9. QED
    BY <1>1, <1>4, <1>5, <1>6, <1>7, <1>8 DEF QueueInv, NoLostWakeup, Begun

-----------------------------------------------------------------------------
(***************************************************************************)
(* The accounts.  Running totals of the sizes never decrease, which is what *)
(* keeps the totals of the tail at or above zero when the head is taken.    *)
(***************************************************************************)
Account(total) ==
    /\ total \in [0..Len(items) -> 0..bytes]
    /\ RunningTotal(total)
    /\ total[Len(items)] = bytes
    /\ \A i, j \in 0..Len(items) : i <= j => total[i] <= total[j]

BacklogInv ==
    /\ bytes \in 0..MaxBytes
    /\ Len(items) <= MaxPackets
    /\ \E total : Account(total)

LEMMA BacklogBoundedByInv == BacklogInv => BacklogBounded
  BY DEF BacklogInv, Account, BacklogBounded

LEMMA InitBacklog == Init => BacklogInv
  <1>1. SUFFICES ASSUME Init PROVE BacklogInv
    OBVIOUS
  <1> DEFINE total == [i \in 0..0 |-> 0]
  <1>2. Account(total)
    BY <1>1 DEF Init, Account, RunningTotal
  <1>3. QED
    BY <1>1, <1>2, QueueAssumption DEF Init, BacklogInv

LEMMA EmptyBacklog ==
    ASSUME items' = <<>>, bytes' = 0
    PROVE  BacklogInv'
  <1> DEFINE total == [i \in 0..0 |-> 0]
  <1>1. Len(items') = 0
    OBVIOUS
  <1>2. Account(total)'
    BY <1>1 DEF Account, RunningTotal
  <1>3. QED
    BY <1>1, <1>2, QueueAssumption DEF BacklogInv

\* Neither the packets nor their number change.
LEMMA SameBacklog ==
    ASSUME BacklogInv, TypeOK, bytes' = bytes, Len(items') = Len(items),
           \A i \in 1..Len(items) : items'[i].packet = items[i].packet
    PROVE  BacklogInv'
  <1>1. PICK total : Account(total)
    BY DEF BacklogInv
  <1>2. Account(total)'
    BY <1>1 DEF Account, RunningTotal
  <1>3. QED
    BY <1>2 DEF BacklogInv

LEMMA StoreBacklog ==
    ASSUME BacklogInv, TypeOK, NEW p \in Packet, ~TooLarge(p), Store(p)
    PROVE  BacklogInv'
  <1> DEFINE item == [packet |-> p, age |-> 0]
  <1>a. p.size \in Nat /\ p.size <= MaxBytes /\ 1 <= MaxPackets
    BY QueueAssumption DEF Packet, TooLarge
  <1>b. item \in Item
    BY QueueAssumption DEF Item
  <1>1. CASE Overflow(p)
    <2>1. items' = <<item>> /\ bytes' = p.size
      BY <1>1, <1>a DEF Store
    <2>2. Len(items') = 1 /\ items'[1].packet = p
      BY <2>1
    <2> DEFINE total == [i \in 0..1 |-> IF i = 0 THEN 0 ELSE p.size]
    <2>3. Account(total)'
      BY <1>a, <2>1, <2>2 DEF Account, RunningTotal
    <2>4. QED
      BY <1>a, <2>1, <2>2, <2>3 DEF BacklogInv
  <1>2. CASE ~Overflow(p)
    <2>0. PICK n \in Nat : n = Len(items)
      BY DEF TypeOK
    <2>1. items \in Seq(Item) /\ items' = Append(items, item) /\ bytes' = bytes + p.size
      BY <1>2 DEF Store, TypeOK
    <2>2. /\ Len(items') = n + 1 /\ items'[n + 1].packet = p
          /\ \A i \in 1..n : items'[i] = items[i]
      BY <1>b, <2>0, <2>1
    <2>3. bytes + p.size <= MaxBytes /\ n + 1 <= MaxPackets /\ bytes \in 0..MaxBytes
      <3>1. bytes \in 0..MaxBytes
        BY DEF BacklogInv
      <3>2. ~(bytes + p.size > MaxBytes) /\ ~(Len(items) >= MaxPackets)
        BY <1>2 DEF Overflow
      <3>3. QED
        BY <1>a, <2>0, <3>1, <3>2, QueueAssumption
    <2>4. PICK old : Account(old)
      BY DEF BacklogInv
    <2>t. PICK total : total = [i \in 0..(n + 1) |-> IF i = n + 1 THEN bytes + p.size ELSE old[i]]
      OBVIOUS
    <2>5. /\ old \in [0..n -> 0..bytes] /\ old[0] = 0 /\ old[n] = bytes
          /\ \A i \in 1..n : old[i] = old[i - 1] + items[i].packet.size
          /\ \A i, j \in 0..n : i <= j => old[i] <= old[j]
      BY <2>0, <2>4 DEF Account, RunningTotal
    <2>6. total \in [0..(n + 1) -> 0..(bytes + p.size)]
      BY <1>a, <2>3, <2>5, <2>t
    <2>7. total[0] = 0 /\ total[n + 1] = bytes + p.size
      BY <2>5, <2>t
    <2>8. ASSUME NEW i \in 1..(n + 1)
          PROVE  total[i] = total[i - 1] + items'[i].packet.size
      <3>1. CASE i = n + 1
        BY <3>1, <2>2, <2>5, <2>t
      <3>2. CASE i \in 1..n
        <4>1. total[i] = old[i] /\ total[i - 1] = old[i - 1]
          BY <3>2, <2>t
        <4>2. QED
          BY <3>2, <4>1, <2>2, <2>5
      <3>3. QED
        BY <3>1, <3>2
    <2>9. \A i, j \in 0..(n + 1) : i <= j => total[i] <= total[j]
      BY <1>a, <2>3, <2>5, <2>t
    <2>10. Account(total)'
      <3>1. total \in [0..Len(items') -> 0..bytes'] /\ total[Len(items')] = bytes'
        BY <2>1, <2>2, <2>6, <2>7
      <3>2. RunningTotal(total)'
        BY <2>2, <2>7, <2>8 DEF RunningTotal
      <3>3. QED
        BY <2>2, <2>9, <3>1, <3>2 DEF Account
    <2>11. QED
      BY <1>a, <2>1, <2>2, <2>3, <2>10 DEF BacklogInv
  <1>3. QED
    BY <1>1, <1>2

\* The totals of what is left are those from the second packet on, less the head.
LEMMA TakeBacklog ==
    ASSUME BacklogInv, TypeOK, PopTake
    PROVE  BacklogInv'
  <1>0. PICK n \in Nat : n = Len(items)
    BY DEF TypeOK
  <1> DEFINE head == items[1].packet.size
  <1>1. /\ items \in Seq(Item) /\ items # <<>> /\ n >= 1
        /\ items' = Tail(items) /\ bytes' = bytes - head
    BY <1>0 DEF PopTake, TypeOK
  <1>2. Len(items') = n - 1 /\ \A i \in 1..(n - 1) : items'[i] = items[i + 1]
    BY <1>0, <1>1
  <1>3. head \in Nat /\ bytes \in 0..MaxBytes /\ n <= MaxPackets
    BY <1>0, <1>1, ItemType DEF BacklogInv
  <1>4. PICK old : Account(old)
    BY DEF BacklogInv
  <1> HIDE DEF head
  <1>5. /\ old \in [0..n -> 0..bytes] /\ old[n] = bytes /\ old[1] = head
        /\ \A i \in 1..n : old[i] = old[i - 1] + items[i].packet.size
        /\ \A i, j \in 0..n : i <= j => old[i] <= old[j]
    BY <1>0, <1>1, <1>3, <1>4 DEF Account, RunningTotal, head
  <1>6. \A i \in 0..(n - 1) : old[i + 1] >= head /\ old[i + 1] <= bytes /\ old[i + 1] \in Nat
    BY <1>1, <1>3, <1>5
  <1>t. PICK total : total = [i \in 0..(n - 1) |-> old[i + 1] - head]
    OBVIOUS
  <1>7. total \in [0..(n - 1) -> 0..(bytes - head)] /\ bytes - head \in 0..MaxBytes
    <2>1. head <= bytes /\ bytes - head \in 0..MaxBytes
      <3>1. 0 \in 0..(n - 1)
        BY <1>1
      <3>2. head <= bytes
        BY <3>1, <1>1, <1>5, <1>6
      <3>3. QED
        BY <3>2, <1>3, QueueAssumption
    <2>2. \A i \in 0..(n - 1) : old[i + 1] - head \in 0..(bytes - head)
      BY <1>3, <1>6, <2>1
    <2>3. QED
      BY <2>1, <2>2, <1>t
  <1>8. total[0] = 0 /\ total[n - 1] = bytes - head
    BY <1>1, <1>3, <1>5, <1>t
  <1>9. ASSUME NEW i \in 1..(n - 1)
        PROVE  total[i] = total[i - 1] + items'[i].packet.size
    <2>1. i + 1 \in 1..n /\ i \in 0..n /\ (i + 1) - 1 = i /\ i - 1 \in 0..(n - 1)
      BY <1>1
    <2>2. old[i + 1] = old[i] + items[i + 1].packet.size
      BY <1>5, <2>1
    <2>3. old[i] \in Nat /\ items[i + 1].packet.size \in Nat
      <3>1. old[i] \in 0..bytes
        BY <1>5, <2>1
      <3>2. items[i + 1].packet.size \in Nat
        BY <1>0, <2>1, ItemType
      <3>3. QED
        BY <1>3, <3>1, <3>2
    <2>4. total[i] = old[i + 1] - head /\ total[i - 1] = old[i] - head
      <3>1. i \in 0..(n - 1) /\ (i - 1) + 1 = i
        BY <1>1
      <3>2. \A j \in 0..(n - 1) : total[j] = old[j + 1] - head
        BY <1>t
      <3>3. total[i] = old[i + 1] - head
        BY <3>1, <3>2
      <3>4. total[i - 1] = old[(i - 1) + 1] - head
        BY <2>1, <3>2
      <3>5. QED
        BY <3>1, <3>3, <3>4
    <2>5. items'[i].packet.size = items[i + 1].packet.size
      BY <1>2
    <2>6. \A x, y \in Nat : (x + y) - head = (x - head) + y
      BY <1>3
    <2>7. total[i] = (old[i] + items[i + 1].packet.size) - head
      BY <2>2, <2>4, Zenon
    <2>8. total[i] = (old[i] - head) + items[i + 1].packet.size
      BY <2>3, <2>6, <2>7, Zenon
    <2>9. QED
      BY <2>4, <2>5, <2>8, Zenon
  <1>10. ASSUME NEW i \in 0..(n - 1), NEW j \in 0..(n - 1), i <= j
         PROVE  total[i] <= total[j]
    <2>1. i + 1 \in 0..n /\ j + 1 \in 0..n /\ i + 1 <= j + 1
      BY <1>1, <1>10
    <2>2. old[i + 1] <= old[j + 1]
      BY <1>5, <2>1
    <2>3. old[i + 1] - head <= old[j + 1] - head
      BY <1>3, <1>6, <2>2
    <2>4. total[i] = old[i + 1] - head /\ total[j] = old[j + 1] - head
      BY <1>t
    <2>5. QED
      BY <2>3, <2>4, Zenon
  <1>11. Account(total)'
    <2>1. total \in [0..Len(items') -> 0..bytes'] /\ total[Len(items')] = bytes'
      BY <1>1, <1>2, <1>7, <1>8
    <2>2. RunningTotal(total)'
      BY <1>2, <1>8, <1>9 DEF RunningTotal
    <2>3. QED
      BY <1>2, <1>10, <2>1, <2>2 DEF Account
  <1>12. QED
    BY <1>1, <1>2, <1>3, <1>7, <1>11, QueueAssumption DEF BacklogInv

\* Growing older changes neither the number of packets nor any of them.
LEMMA TickKeepsPackets ==
    ASSUME TypeOK, Tick
    PROVE  /\ Len(items') = Len(items)
           /\ \A i \in 1..Len(items) : items'[i].packet = items[i].packet
  <1>0. PICK n \in Nat : n = Len(items)
    BY DEF TypeOK
  <1>1. /\ items \in Seq(Item) /\ DOMAIN items = 1..n
        /\ items' = [i \in 1..n |->
                       [items[i] EXCEPT !.age =
                           IF items[i].age > MaxAge THEN items[i].age
                                                    ELSE items[i].age + 1]]
    BY <1>0 DEF Tick, TypeOK
  <1>2. \A i \in 1..n : items[i] \in Item
    BY <1>0, <1>1
  <1>3. \A i \in 1..n : items'[i].packet = items[i].packet
    BY <1>1, <1>2 DEF Item
  <1>4. items' \in Seq({items'[i] : i \in 1..n}) /\ Len(items') = n
    BY <1>1
  <1>5. QED
    BY <1>0, <1>3, <1>4

LEMMA TickBacklog ==
    ASSUME BacklogInv, TypeOK, Tick
    PROVE  BacklogInv'
  BY TickKeepsPackets, SameBacklog DEF Tick

LEMMA PushBacklog ==
    ASSUME BacklogInv, TypeOK, NEW p \in Packet, Push(p)
    PROVE  BacklogInv'
  <1>1. CASE UNCHANGED storeVars
    BY <1>1, SameBacklog DEF storeVars
  <1>2. CASE ResetLocked
    BY <1>2, EmptyBacklog DEF ResetLocked
  <1>3. CASE ~TooLarge(p) /\ Store(p)
    BY <1>3, StoreBacklog
  <1>4. QED
    BY <1>1, <1>2, <1>3 DEF Push, DropIfOverflow

-----------------------------------------------------------------------------
(* The queue on its own.                                                    *)

LEMMA VideoOfferable ==
    ASSUME frames \in Nat, NEW key \in BOOLEAN, NEW sets \in BOOLEAN,
           NEW ex \in BOOLEAN, NEW size \in Sizes
    PROVE  Offerable(VideoPacket(key, sets, ex, size))
  BY QueueAssumption DEF Offerable, VideoPacket, Packet

LEMMA AudioOfferable ==
    ASSUME frames \in Nat, NEW lag \in Lags, lag <= frames, NEW size \in Sizes
    PROVE  Offerable(AudioPacket(lag, size))
  BY QueueAssumption DEF Offerable, AudioPacket, Packet

LEMMA NextInv == QueueInv /\ [Next]_queueVars => QueueInv'
  <1> SUFFICES ASSUME QueueInv, [Next]_queueVars PROVE QueueInv'
    OBVIOUS
  <1>a. frames \in Nat /\ sleeping \in BOOLEAN /\ packet \in Packet
    BY DEF QueueInv, TypeOK
  <1>1. CASE PushVideo
    BY <1>1, <1>a, VideoOfferable, PushInv DEF PushVideo
  <1>2. CASE PushAudio
    BY <1>2, <1>a, AudioOfferable, PushInv DEF PushAudio
  <1>3. CASE Discard
    <2>1. /\ ResetLocked /\ UNCHANGED <<stopped, sleeping, packet, epoch, popped>>
          /\ frames' = frames + 1
      BY <1>3 DEF Discard, Reset, popVars
    <2>2. sleeping' => ~stopped
      BY <2>1 DEF QueueInv, NoLostWakeup
    <2>3. /\ frames' \in Nat /\ frames' >= frames
          /\ sleeping' \in BOOLEAN /\ packet' \in Packet
      BY <1>a, <2>1
    <2>4. QED
      BY <2>1, <2>2, <2>3, ResetInv
  <1>4. CASE Stop
    BY <1>4, StopInv
  <1>5. CASE PopWait
    BY <1>5, PopWaitInv
  <1>6. CASE PopTake
    BY <1>6, PopTakeInv
  <1>7. CASE Tick
    BY <1>7, TickInv
  <1>8. CASE UNCHANGED queueVars
    <2>1. UNCHANGED <<items, bytes, waitingKey, stopped, generation, sleeping,
                      packet, epoch, popped, frames>>
      BY <1>8 DEF queueVars
    <2>2. QED
      BY <2>1, <1>a, IdleInv
  <1>9. QED
    BY <1>1, <1>2, <1>3, <1>4, <1>5, <1>6, <1>7, <1>8 DEF Next

THEOREM Invariance == Spec => []QueueInv
  BY InitInv, NextInv, PTL DEF Spec

(***************************************************************************)
(* The queue keeps its types, for every limit and every sequence of calls.  *)
(***************************************************************************)
THEOREM TypeCorrect == Spec => []TypeOK
  <1>1. QueueInv => TypeOK
    BY DEF QueueInv
  <1>2. QED
    BY <1>1, Invariance, PTL

(***************************************************************************)
(* pop() never sleeps on a packet nor through stop().                       *)
(***************************************************************************)
THEOREM WakeupsNotLost == Spec => []NoLostWakeup
  <1>1. QueueInv => NoLostWakeup
    BY DEF QueueInv
  <1>2. QED
    BY <1>1, Invariance, PTL

(***************************************************************************)
(* Within one generation the sending thread receives a GOP without holes,   *)
(* whatever the capture threads, the limits and the clock do.               *)
(***************************************************************************)
THEOREM HandsOutWholeGops == Spec => GopWithoutHoles
  <1> DEFINE Step == epoch' # epoch \/ popped' # popped =>
                       IF epoch' = epoch /\ popped # 0
                       THEN Follows(popped, packet')
                       ELSE packet'.video /\ packet'.key
  <1>1. QueueInv /\ [Next]_queueVars => [Step]_queueVars
    <2> SUFFICES ASSUME QueueInv, Next PROVE Step
      OBVIOUS
    <2>1. CASE PopTake
      <3>1. /\ epoch' = generation
            /\ IF Begun THEN Follows(popped, packet')
                        ELSE packet'.video /\ packet'.key
        BY <2>1, PopTakeInv
      <3>2. QED
        BY <3>1 DEF Begun
    <2>2. CASE ~PopTake
      <3>1. epoch' = epoch /\ popped' = popped
        BY <2>2 DEF Next, PushVideo, PushAudio, Push, Discard, Stop, PopWait,
                    Tick, popVars
      <3>2. QED
        BY <3>1
    <2>3. QED
      BY <2>1, <2>2
  <1>2. QED
    BY <1>1, Invariance, PTL DEF Spec, GopWithoutHoles
(***************************************************************************)
(* The accounts of the backlog are exact and its limits hold, after any      *)
(* sequence of pushes, drops and pops (BacklogInv: running totals that never *)
(* decrease).                                                                *)
(***************************************************************************)
LEMMA NextBacklog == TypeOK /\ BacklogInv /\ [Next]_queueVars => BacklogInv'
  <1> SUFFICES ASSUME TypeOK, BacklogInv, [Next]_queueVars PROVE BacklogInv'
    OBVIOUS
  <1>1. CASE PushVideo
    <2>1. PICK key \in BOOLEAN, size \in Sizes : Push(VideoPacket(key, key, TRUE, size))
      BY <1>1 DEF PushVideo
    <2>2. VideoPacket(key, key, TRUE, size) \in Packet
      BY QueueAssumption DEF VideoPacket, Packet, TypeOK
    <2>3. QED
      BY <2>1, <2>2, PushBacklog
  <1>2. CASE PushAudio
    <2>1. PICK lag \in Lags, size \in Sizes : lag <= frames /\ Push(AudioPacket(lag, size))
      BY <1>2 DEF PushAudio
    <2>2. AudioPacket(lag, size) \in Packet
      BY <2>1, QueueAssumption DEF AudioPacket, Packet, TypeOK
    <2>3. QED
      BY <2>1, <2>2, PushBacklog
  <1>3. CASE Discard \/ Stop
    BY <1>3, EmptyBacklog DEF Discard, Reset, ResetLocked, Stop
  <1>4. CASE PopWait
    <2>1. CASE ResetLocked
      BY <2>1, EmptyBacklog DEF ResetLocked
    <2>2. CASE UNCHANGED storeVars
      BY <2>2, SameBacklog DEF storeVars
    <2>3. QED
      BY <1>4, <2>1, <2>2 DEF PopWait
  <1>5. CASE PopTake
    BY <1>5, TakeBacklog
  <1>6. CASE Tick
    BY <1>6, TickBacklog
  <1>7. CASE UNCHANGED queueVars
    BY <1>7, SameBacklog DEF queueVars
  <1>8. QED
    BY <1>1, <1>2, <1>3, <1>4, <1>5, <1>6, <1>7 DEF Next

THEOREM LimitsHold == Spec => []BacklogBounded
  BY InitBacklog, NextBacklog, TypeCorrect, BacklogBoundedByInv, PTL DEF Spec
=============================================================================
