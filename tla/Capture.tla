-------------------------------- MODULE Capture --------------------------------
(***************************************************************************)
(* The running media threads: encoder threads that record progress, the      *)
(* thread that lends frames to RockIVA (video.cpp, rockiva.c), RockIVA's     *)
(* callbacks, the overlay thread that shows the results, MediaHealth, and    *)
(* the main thread that watches it and joins everything.                    *)
(***************************************************************************)
EXTENDS Naturals, Sequences

CONSTANTS
    Encoders,   \* channels of MediaHealth other than the inference
    ListMax,    \* MAX_RKNN_LIST_NUM
    StallAge,   \* periods without progress that count as a stall (60 s)
    MaxResults  \* bound on the detection results of a behaviour

ASSUME CaptureAssumption ==
    /\ "iva" \notin Encoders
    /\ ListMax \in Nat \ {0, 1}
    /\ StallAge \in Nat \ {0}
    /\ MaxResults \in Nat

VARIABLES
    main,      \* "loop", "joining", "down"
    age,       \* per channel, periods since record()
    input,     \* submit_frames_to_rockiva: "get", "push", "wait", "done"
    frame,     \* owner of the VI buffer: "vi" or "app"
    inflight,  \* RockIVA reads the buffer
    signal,    \* rockiva_signal
    osd,       \* refresh_detection_overlay: "size", "pop", "done"
    list,      \* rknn_list_, newest first; results are numbered
    results,   \* results reported so far
    callback,  \* rkba_callback: "idle", "size" or "drop" of the list
    pops,      \* results taken since rkba_callback read the size, up to ListMax
    latest,    \* the result whose boxes are shown, 0 for none
    late       \* it is older than 300 ms

captureVars == <<main, age, input, frame, inflight, signal, osd, list, results, callback, pops, latest, late>>

Channels == Encoders \cup {"iva"}

CaptureTypeOK ==
    /\ main \in {"loop", "joining", "down"}
    /\ age \in [Channels -> 0..StallAge]
    /\ input \in {"get", "push", "wait", "done"}
    /\ frame \in {"vi", "app"}
    /\ inflight \in BOOLEAN
    /\ signal \in 0..1
    /\ osd \in {"size", "pop", "done"}
    /\ results \in 0..MaxResults
    /\ list \in Seq(1..MaxResults)
    /\ callback \in {"idle", "size", "drop"} /\ pops \in 0..ListMax
    /\ latest \in 0..results
    /\ late \in BOOLEAN

CaptureInitWith(loop) ==
    /\ main = loop
    /\ age = [c \in Channels |-> 0]
    /\ input = "get" /\ frame = "vi" /\ inflight = FALSE /\ signal = 0
    /\ osd = "size" /\ list = <<>> /\ results = 0 /\ callback = "idle" /\ pops = 0
    /\ latest = 0 /\ late = FALSE
CaptureInit == CaptureInitWith("loop")

running == main = "loop"

-----------------------------------------------------------------------------
(* MediaHealth and the main thread *)

Record(c) == age' = [age EXCEPT ![c] = 0]

\* A frame leaves VENC0, VENC1 or AENC0.
Encode(c) ==
    /\ running
    /\ Record(c)
    /\ UNCHANGED <<main, input, frame, inflight, signal, osd, list, results, callback, pops, latest, late>>

Elapse ==
    /\ \E c \in Channels : age[c] < StallAge
    /\ age' = [c \in Channels |-> IF age[c] < StallAge THEN age[c] + 1 ELSE age[c]]
    /\ UNCHANGED <<main, input, frame, inflight, signal, osd, list, results, callback, pops, latest, late>>

stalled == \E c \in Channels : age[c] >= StallAge

LeaveLoop ==
    /\ main = "loop"
    /\ stalled
    /\ main' = "joining"
    /\ UNCHANGED <<age, input, frame, inflight, signal, osd, list, results, callback, pops, latest, late>>

OnSignal ==
    /\ main = "loop"
    /\ main' = "joining"
    /\ UNCHANGED <<age, input, frame, inflight, signal, osd, list, results, callback, pops, latest, late>>

\* Both threads are joined; RockIVA is released after them.
Join ==
    /\ main = "joining" /\ input = "done" /\ osd = "done"
    /\ main' = "down"
    /\ UNCHANGED <<age, input, frame, inflight, signal, osd, list, results, callback, pops, latest, late>>

-----------------------------------------------------------------------------
(* The thread that submits frames *)

\* Mutant: the loop does not look at running_.
GetFrameOn ==
    /\ input = "get"
    /\ input' = "push" /\ frame' = "app"
    /\ UNCHANGED <<main, age, inflight, signal, osd, list, results, callback, pops, latest, late>>

GetFrame ==
    /\ input = "get"
    /\ IF running THEN input' = "push" /\ frame' = "app"
                  ELSE input' = "done" /\ UNCHANGED frame
    /\ UNCHANGED <<main, age, inflight, signal, osd, list, results, callback, pops, latest, late>>

PushFrame ==
    /\ input = "push"
    /\ input' = "wait" /\ inflight' = TRUE
    /\ UNCHANGED <<main, age, frame, signal, osd, list, results, callback, pops, latest, late>>

\* Mutant: a refused frame counts as progress.
RefusedRecorded == Record("iva")
\* RockIVA refuses the frame: it goes back without a wait and without progress.
RefusedFrame == UNCHANGED age

PushFrameFails ==
    /\ input = "push"
    /\ input' = "get" /\ frame' = "vi"
    /\ RefusedFrame
    /\ UNCHANGED <<main, inflight, signal, osd, list, results, callback, pops, latest, late>>

\* Mutant: a time-out ends the wait.
WaitOnce ==
    /\ input = "wait"
    /\ signal' = 0
    /\ input' = "get" /\ frame' = "vi"
    /\ Record("iva")
    /\ UNCHANGED <<main, inflight, osd, list, results, callback, pops, latest, late>>

\* rkipc_wait_frame_release: a timeout starts the wait again.
WaitFrame ==
    /\ input = "wait"
    /\ signal = 1 /\ signal' = 0
    /\ input' = "get" /\ frame' = "vi"
    /\ Record("iva")
    /\ UNCHANGED <<main, inflight, osd, list, results, callback, pops, latest, late>>

-----------------------------------------------------------------------------
(* RockIVA's callbacks *)

\* rk_signal_give, and the end of RockIVA's use of the buffer before it.
ReleaseFrame ==
    /\ inflight
    /\ inflight' = FALSE
    /\ signal' = 1
    /\ UNCHANGED <<main, age, input, frame, osd, list, results, callback, pops, latest, late>>

\* rkba_callback with objects: push, size and drop are steps of their own.
Report ==
    /\ main # "down" /\ callback = "idle" /\ results < MaxResults
    /\ results' = results + 1
    /\ list' = <<results + 1>> \o list
    /\ callback' = "size"
    /\ UNCHANGED <<main, age, input, frame, inflight, signal, osd, pops, latest, late>>

\* Mutant: nothing is ever dropped.
FullNever == FALSE
Full == Len(list) >= ListMax

MeasureList ==
    /\ callback = "size"
    /\ callback' = IF Full THEN "drop" ELSE "idle"
    /\ pops' = 0
    /\ UNCHANGED <<main, age, input, frame, inflight, signal, osd, list, results, latest, late>>

DropResult ==
    /\ callback = "drop"
    /\ callback' = "idle"
    /\ list' = IF list = <<>> THEN list ELSE Tail(list)
    /\ UNCHANGED <<main, age, input, frame, inflight, signal, osd, results, pops, latest, late>>

-----------------------------------------------------------------------------
(* The overlay thread *)

\* rkipc_rknn_object_get reads the size without the lock.
ReadSize ==
    /\ osd = "size"
    /\ \/ ~running /\ osd' = "done" /\ UNCHANGED latest
       \/ running /\ list # <<>> /\ osd' = "pop" /\ UNCHANGED latest
       \/ running /\ list = <<>> /\ late /\ latest # 0 /\ latest' = 0 /\ UNCHANGED osd
    /\ UNCHANGED <<main, age, input, frame, inflight, signal, list, results, callback, pops, late>>

\* Mutant: the boxes do not go by themselves.
PopStays ==
    /\ osd = "pop"
    /\ osd' = "size"
    /\ latest' = IF list = <<>> THEN 0 ELSE Head(list)
    /\ pops' = IF pops < ListMax THEN pops + 1 ELSE pops
    /\ late' = FALSE
    /\ UNCHANGED <<main, age, input, frame, inflight, signal, list, results, callback>>

\* A result that is not there leaves a zeroed one: no boxes.
Pop ==
    /\ osd = "pop"
    /\ osd' = "size"
    /\ latest' = IF list = <<>> THEN 0 ELSE Head(list)
    /\ list' = IF list = <<>> THEN list ELSE Tail(list)
    /\ pops' = IF pops < ListMax THEN pops + 1 ELSE pops
    /\ late' = FALSE
    /\ UNCHANGED <<main, age, input, frame, inflight, signal, results, callback>>

GrowOld ==
    /\ latest # 0 /\ ~late
    /\ late' = TRUE
    /\ UNCHANGED <<main, age, input, frame, inflight, signal, osd, list, results, callback, pops, latest>>

-----------------------------------------------------------------------------
Input == GetFrame \/ PushFrame \/ PushFrameFails \/ WaitFrame
Overlay == ReadSize \/ Pop

CaptureNext ==
    \/ \E c \in Encoders : Encode(c)
    \/ Elapse \/ LeaveLoop \/ OnSignal \/ Join
    \/ Input \/ Overlay
    \/ ReleaseFrame \/ Report \/ MeasureList \/ DropResult \/ GrowOld

CaptureSpec == CaptureInit /\ [][CaptureNext]_captureVars

\* Threads run and the clock advances.  Frames need not come, and RockIVA need
\* not accept, detect or give back anything.
CaptureFairness ==
    /\ WF_captureVars(Elapse) /\ WF_captureVars(LeaveLoop) /\ WF_captureVars(Join)
    /\ WF_captureVars(input # "get" /\ Input) /\ WF_captureVars(~running /\ Input)
    /\ WF_captureVars(Overlay) /\ WF_captureVars(GrowOld)
    /\ WF_captureVars(MeasureList \/ DropResult)

-----------------------------------------------------------------------------
(* Properties *)

\* The VI buffer is not given back, and no second one lent, while RockIVA
\* reads it, however long it takes: a time-out transfers nothing
\* (frame_wait.h:5-12, video.cpp:491-494).  A notification is pending only
\* between the release of that frame and the end of the wait for it.
FrameLentSafely ==
    /\ inflight => frame = "app" /\ input = "wait" /\ signal = 0
    /\ signal = 1 => input = "wait"

\* rockiva.c:107: the size is read without the lock, and yet the pop that
\* follows finds a result.  The boxes vanish for a round (an empty result is
\* shown) only if the overlay takes ListMax - 1 results, one in 40 ms, between
\* two statements of the callback (rockiva.c:126-128).
PopFinds == osd = "pop" /\ list = <<>> => pops >= ListMax - 1

\* rockiva.h:14: the list is bounded, whoever is slow.
ListBounded == Len(list) <= ListMax

\* The result list between the callback and the overlay thread, of whose four
\* calls each locks for itself (rockiva.c:61-127).
ResultsInReach == CaptureTypeOK /\ ListBounded /\ PopFinds

\* video.cpp:549: no box stays on the picture for ever; it is replaced or,
\* 300 ms after the last result, cleared.
BoxesCleared == \A r \in 1..MaxResults : latest = r /\ running ~> latest # r \/ ~running

\* media_health.hpp:40, main.cpp:149: the main loop runs on for ever only
\* while the inference and every encoder go on making progress.
ProgressOrExit ==
    \/ <>~running
    \/ /\ []<><<ReleaseFrame>>_captureVars
       /\ \A c \in Encoders : []<><<Encode(c)>>_captureVars

\* video.cpp:596-614: once the loop is left both threads end and are joined,
\* also from the middle of a wait for RockIVA, if it gives the frame back.
ShutdownCompletes == WF_captureVars(ReleaseFrame) => (main = "joining" ~> main = "down")
=============================================================================
