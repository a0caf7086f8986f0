---------------------------- MODULE Capture_proofs ----------------------------
(***************************************************************************)
(* Proofs about Capture: for any number of encoders, any limit of the result *)
(* list and any number of results, frames are lent safely and the list is    *)
(* handled safely although its size is read without the lock.               *)
(***************************************************************************)
EXTENDS Capture, TLAPS

(***************************************************************************)
(* The list holds reported results only.  It reaches its limit only inside   *)
(* the callback, and between the callback's look at the size and its drop    *)
(* the results that are gone were taken by the overlay thread.              *)
(***************************************************************************)
ListInv ==
    /\ results \in Nat /\ results <= MaxResults
    /\ list \in Seq(1..results)
    /\ callback \in {"idle", "size", "drop"}
    /\ pops \in Nat /\ pops <= ListMax
    /\ osd \in {"size", "pop", "done"}
    /\ latest \in 0..results
    /\ callback = "idle" => Len(list) < ListMax
    /\ callback # "idle" => Len(list) <= ListMax
    /\ callback = "drop" => Len(list) + pops >= ListMax
    /\ callback = "size" /\ osd = "pop" => list # <<>>
    /\ PopFinds

\* One frame at a time: the application owns it from the moment it got it to
\* the end of the wait.
FrameInv ==
    /\ input \in {"get", "push", "wait", "done"}
    /\ frame \in {"vi", "app"}
    /\ inflight \in BOOLEAN
    /\ signal \in 0..1
    /\ input \in {"push", "wait"} => frame = "app"
    /\ FrameLentSafely

\* The main thread and the ages of the channels.
HealthInv ==
    /\ main \in {"loop", "joining", "down"}
    /\ age \in [Channels -> 0..StallAge]
    /\ late \in BOOLEAN

CaptureInv == ListInv /\ FrameInv /\ HealthInv

-----------------------------------------------------------------------------
(* The list.                                                                *)

\* A sequence of small numbers is one of larger ones.
LEMMA SeqWider ==
    ASSUME NEW n \in Nat, NEW m \in Nat, n <= m, NEW s \in Seq(1..n)
    PROVE  s \in Seq(1..m)
<1>1. \A i \in 1..Len(s) : s[i] \in 1..m
  OBVIOUS
<1> QED BY <1>1

\* What is in the list stays a result when another one is reported.
LEMMA ReportKeepsList ==
    ASSUME NEW n \in Nat, NEW s \in Seq(1..n)
    PROVE  /\ <<n + 1>> \o s \in Seq(1..n + 1)
           /\ Len(<<n + 1>> \o s) = Len(s) + 1
           /\ <<n + 1>> \o s # <<>>
<1>1. s \in Seq(1..n + 1)
  BY SeqWider
<1>2. <<n + 1>> \in Seq(1..n + 1)
  OBVIOUS
<1> QED BY <1>1, <1>2

\* Taking the first result shortens the list by one.
LEMMA TailShrinks ==
    ASSUME NEW n \in Nat, NEW s \in Seq(1..n), s # <<>>
    PROVE  /\ Tail(s) \in Seq(1..n)
           /\ Len(s) \in Nat \ {0}
           /\ Len(Tail(s)) = Len(s) - 1
           /\ Head(s) \in 1..n
           /\ Tail(s) = <<>> => Len(s) = 1
<1>1. /\ Tail(s) \in Seq(1..n)
      /\ Len(s) \in Nat \ {0}
      /\ Len(Tail(s)) = Len(s) - 1
      /\ Head(s) \in 1..n
  OBVIOUS
<1>2. Len(<<>>) = 0
  OBVIOUS
<1>3. Tail(s) = <<>> => Len(Tail(s)) = 0
  BY <1>2, Zenon
<1>4. Len(Tail(s)) = 0 => Len(s) = 1
  <2>1. \A k \in Nat : k - 1 = 0 => k = 1
    OBVIOUS
  <2> QED BY <1>1, <2>1
<1> QED BY <1>1, <1>3, <1>4, Zenon

\* Every step keeps the list's invariant.
LEMMA ListKept == ListInv /\ [CaptureNext]_captureVars => ListInv'
<1> SUFFICES ASSUME ListInv, [CaptureNext]_captureVars PROVE ListInv'
  OBVIOUS
<1> USE CaptureAssumption DEF ListInv, PopFinds
<1>0. ListMax \in Nat /\ ListMax >= 2 /\ MaxResults \in Nat /\ Len(list) \in Nat
  OBVIOUS
<1>1. CASE Report
  <2>1. /\ list' \in Seq(1..results')
        /\ Len(list') = Len(list) + 1
        /\ list' # <<>>
    BY <1>1, ReportKeepsList DEF Report
  <2>2. results' \in Nat /\ results' <= MaxResults /\ latest' \in 0..results'
    BY <1>0, <1>1 DEF Report
  <2>3. callback' = "size" /\ Len(list) < ListMax
    BY <1>1 DEF Report
  <2> QED
    BY <1>0, <1>1, <2>1, <2>2, <2>3 DEF Report
<1>2. CASE MeasureList
  BY <1>0, <1>2 DEF MeasureList, Full
<1>3. CASE DropResult
  <2>1. CASE list = <<>>
    BY <1>0, <1>3, <2>1 DEF DropResult
  <2>2. CASE list # <<>>
    <3>1. /\ Tail(list) \in Seq(1..results)
          /\ Len(list) # 0 /\ Len(Tail(list)) = Len(list) - 1
      BY <2>2, TailShrinks
    <3>2. list' = Tail(list) /\ callback' = "idle"
      BY <1>3, <2>2 DEF DropResult
    <3>3. list' = <<>> => pops >= ListMax - 1
      <4>1. Len(list) + pops >= ListMax
        BY <1>3 DEF DropResult
      <4>2. list' = <<>> => Len(list) = 1
        BY <2>2, <3>2, TailShrinks
      <4>3. Len(list) = 1 => pops >= ListMax - 1
        BY <1>0, <4>1
      <4> QED BY <4>2, <4>3, Zenon
    <3> QED
      BY <1>0, <1>3, <3>1, <3>2, <3>3 DEF DropResult
  <2> QED BY <2>1, <2>2
<1>4. CASE Pop
  <2>1. /\ pops' \in Nat /\ pops' <= ListMax
        /\ pops' = ListMax \/ pops' = pops + 1
    BY <1>0, <1>4 DEF Pop
  <2>2. CASE list = <<>>
    BY <1>0, <1>4, <2>1, <2>2 DEF Pop
  <2>3. CASE list # <<>>
    <3>1. /\ Tail(list) \in Seq(1..results)
          /\ Len(list) # 0 /\ Len(Tail(list)) = Len(list) - 1
          /\ Head(list) \in 1..results
      BY <2>3, TailShrinks
    <3>2. list' = Tail(list) /\ latest' = Head(list) /\ osd' = "size"
      BY <1>4, <2>3 DEF Pop
    <3>3. callback = "drop" => Len(list') + pops' >= ListMax
      BY <1>0, <2>1, <3>1, <3>2
    <3> QED
      BY <1>0, <1>4, <2>1, <3>1, <3>2, <3>3 DEF Pop
  <2> QED BY <2>2, <2>3
<1>5. CASE ReadSize
  BY <1>0, <1>5 DEF ReadSize
<1>6. ASSUME NEW c \in Encoders, Encode(c) PROVE ListInv'
  BY <1>6 DEF Encode
<1>7. CASE Elapse \/ LeaveLoop \/ OnSignal \/ Join
  BY <1>7 DEF Elapse, LeaveLoop, OnSignal, Join
<1>8. CASE Input
  BY <1>8 DEF Input, GetFrame, PushFrame, PushFrameFails, WaitFrame
<1>9. CASE ReleaseFrame \/ GrowOld
  BY <1>9 DEF ReleaseFrame, GrowOld
<1>10. CASE UNCHANGED captureVars
  BY <1>10 DEF captureVars
<1> QED
  BY <1>1, <1>2, <1>3, <1>4, <1>5, <1>6, <1>7, <1>8, <1>9, <1>10 DEF CaptureNext, Overlay

-----------------------------------------------------------------------------
(* The frame.                                                               *)

\* Every step keeps the frame's invariant.
LEMMA FrameKept == FrameInv /\ [CaptureNext]_captureVars => FrameInv'
<1> SUFFICES ASSUME FrameInv, [CaptureNext]_captureVars PROVE FrameInv'
  OBVIOUS
<1> USE DEF FrameInv, FrameLentSafely
<1>1. CASE GetFrame
  BY <1>1 DEF GetFrame
<1>2. CASE PushFrame
  BY <1>2 DEF PushFrame
<1>3. CASE PushFrameFails
  BY <1>3 DEF PushFrameFails
<1>4. CASE WaitFrame
  BY <1>4 DEF WaitFrame
<1>5. CASE ReleaseFrame
  <2>1. /\ inflight' \in BOOLEAN /\ ~inflight' /\ signal' = 1
        /\ UNCHANGED <<input, frame>>
    BY <1>5 DEF ReleaseFrame
  <2>2. input = "wait"
    BY <1>5 DEF ReleaseFrame
  <2> QED BY <2>1, <2>2
<1>6. CASE UNCHANGED <<input, frame, inflight, signal>>
  BY <1>6
<1>7. ASSUME NEW c \in Encoders, Encode(c) PROVE FrameInv'
  BY <1>6, <1>7 DEF Encode
<1>8. CASE Elapse \/ LeaveLoop \/ OnSignal \/ Join
  BY <1>6, <1>8 DEF Elapse, LeaveLoop, OnSignal, Join
<1>9. CASE Overlay \/ Report \/ MeasureList \/ DropResult \/ GrowOld
  BY <1>6, <1>9 DEF Overlay, ReadSize, Pop, Report, MeasureList, DropResult, GrowOld
<1>10. CASE UNCHANGED captureVars
  BY <1>6, <1>10 DEF captureVars
<1> QED
  BY <1>1, <1>2, <1>3, <1>4, <1>5, <1>7, <1>8, <1>9, <1>10 DEF CaptureNext, Input

-----------------------------------------------------------------------------
(* The rest.                                                                *)

\* Every step keeps the types of the main thread's variables.
LEMMA HealthKept == HealthInv /\ [CaptureNext]_captureVars => HealthInv'
<1> SUFFICES ASSUME HealthInv, [CaptureNext]_captureVars PROVE HealthInv'
  OBVIOUS
<1> USE CaptureAssumption DEF HealthInv
<1>1. ASSUME NEW c \in Encoders, Encode(c) PROVE HealthInv'
  <2>1. 0 \in 0..StallAge /\ age' = [age EXCEPT ![c] = 0]
    BY <1>1 DEF Encode, Record
  <2>2. age' \in [Channels -> 0..StallAge]
    BY <2>1 DEF HealthInv
  <2> QED BY <1>1, <2>2 DEF Encode
<1>2. CASE Elapse
  <2>1. age' \in [Channels -> 0..StallAge]
    BY <1>2 DEF Elapse
  <2> QED BY <1>2, <2>1 DEF Elapse
<1>3. CASE LeaveLoop \/ OnSignal \/ Join
  BY <1>3 DEF LeaveLoop, OnSignal, Join
<1>4. CASE Input
  BY <1>4 DEF Input, GetFrame, PushFrame, PushFrameFails, WaitFrame, Record, RefusedFrame
<1>5. CASE Overlay
  <2>1. UNCHANGED <<main, age>>
    BY <1>5 DEF Overlay, ReadSize, Pop
  <2>2. late' = late \/ late' = FALSE
    BY <1>5 DEF Overlay, ReadSize, Pop
  <2> QED BY <2>1, <2>2
<1>6. CASE ReleaseFrame \/ Report \/ MeasureList \/ DropResult \/ GrowOld
  BY <1>6 DEF ReleaseFrame, Report, MeasureList, DropResult, GrowOld
<1>7. CASE UNCHANGED captureVars
  BY <1>7 DEF captureVars
<1> QED
  BY <1>1, <1>2, <1>3, <1>4, <1>5, <1>6, <1>7 DEF CaptureNext

\* The pipeline starts with an empty list and without a frame.
LEMMA CaptureStarts == CaptureInit => CaptureInv
<1> SUFFICES ASSUME CaptureInit PROVE CaptureInv
  OBVIOUS
<1> USE CaptureAssumption DEF CaptureInit, CaptureInitWith
<1>1. ListInv
  BY DEF ListInv, PopFinds
<1>2. FrameInv
  <2>1. /\ input = "get" /\ frame = "vi" /\ signal = 0
        /\ ~inflight /\ inflight \in BOOLEAN
    OBVIOUS
  <2> QED BY <2>1 DEF FrameInv, FrameLentSafely
<1>3. HealthInv
  <2>1. age \in [Channels -> 0..StallAge]
    OBVIOUS
  <2>2. main = "loop" /\ late \in BOOLEAN
    OBVIOUS
  <2> QED BY <2>1, <2>2 DEF HealthInv
<1> QED BY <1>1, <1>2, <1>3 DEF CaptureInv

\* CaptureInv is inductive: every step of the capture, overlay, encoder and main
\* threads and of RockIVA's callbacks keeps it (rockiva.c, video.cpp).
THEOREM CaptureInvariant == CaptureSpec => []CaptureInv
<1>1. CaptureInv /\ [CaptureNext]_captureVars => CaptureInv'
  BY ListKept, FrameKept, HealthKept DEF CaptureInv
<1> QED BY <1>1, CaptureStarts, PTL DEF CaptureSpec

\* The variables of rockiva.c's result list and of video.cpp's threads keep their types.
THEOREM CaptureTypeCorrect == CaptureSpec => []CaptureTypeOK
<1>1. CaptureInv => CaptureTypeOK
  <2> SUFFICES ASSUME CaptureInv PROVE CaptureTypeOK
    OBVIOUS
  <2>1. list \in Seq(1..results) /\ results \in Nat /\ results <= MaxResults
    BY DEF CaptureInv, ListInv
  <2>2. list \in Seq(1..MaxResults)
    BY <2>1, SeqWider, CaptureAssumption
  <2>3. /\ callback \in {"idle", "size", "drop"} /\ pops \in 0..ListMax
        /\ osd \in {"size", "pop", "done"}
        /\ results \in 0..MaxResults /\ latest \in 0..results
    BY CaptureAssumption DEF CaptureInv, ListInv
  <2>4. /\ input \in {"get", "push", "wait", "done"} /\ frame \in {"vi", "app"}
        /\ inflight \in BOOLEAN /\ signal \in 0..1
    BY DEF CaptureInv, FrameInv
  <2>5. /\ main \in {"loop", "joining", "down"}
        /\ age \in [Channels -> 0..StallAge] /\ late \in BOOLEAN
    BY DEF CaptureInv, HealthInv
  <2> QED
    BY <2>2, <2>3, <2>4, <2>5 DEF CaptureTypeOK
<1> QED BY <1>1, CaptureInvariant, PTL

\* The VI buffer is never given back while RockIVA reads it, for any delay of
\* RockIVA and any number of time-outs of the wait.
THEOREM LendsFramesSafely == CaptureSpec => []FrameLentSafely
<1>1. CaptureInv => FrameLentSafely
  BY DEF CaptureInv, FrameInv
<1> QED BY <1>1, CaptureInvariant, PTL

\* A pop misses only if the overlay thread ran ListMax - 1 rounds between two
\* statements of the callback, for every limit of at least two.
THEOREM PopsFind == CaptureSpec => []PopFinds
<1>1. CaptureInv => PopFinds
  BY DEF CaptureInv, ListInv
<1> QED BY <1>1, CaptureInvariant, PTL

\* The result list never exceeds its limit, although its size is read without
\* the lock of its push (rockiva.c:84-127).
THEOREM ListStaysBounded == CaptureSpec => []ListBounded
<1>1. CaptureInv => ListBounded
  <2> SUFFICES ASSUME CaptureInv PROVE Len(list) <= ListMax
    BY DEF ListBounded
  <2>1. Len(list) \in Nat /\ ListMax \in Nat
    BY CaptureAssumption DEF CaptureInv, ListInv
  <2> QED BY <2>1 DEF CaptureInv, ListInv
<1> QED BY <1>1, CaptureInvariant, PTL

\* Together, for every limit: the size that the overlay thread reads without the
\* lock is good enough for the pop, and the list stays within its limit.
THEOREM ResultsStayInReach == CaptureSpec => []ResultsInReach
BY CaptureTypeCorrect, ListStaysBounded, PopsFind, PTL DEF ResultsInReach
=============================================================================
