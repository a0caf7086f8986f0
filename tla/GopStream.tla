------------------------------ MODULE GopStream ------------------------------
(***************************************************************************)
(* What an endpoint promises to the receiver of one URL: a succession of    *)
(* streams, each of which begins with a key frame and goes on frame by      *)
(* frame, without a hole, until it ends.  (The description at the head of   *)
(* src/publisher/ffmpeg_publisher.cpp: only a complete GOP is ever sent.)   *)
(***************************************************************************)
EXTENDS Naturals

VARIABLES stage,  \* "closed", "header" (connected, no frame yet), "playing"
          last,   \* number of the last frame of this stream, 0 before the first
          key     \* whether that frame is a key frame

gopVars == <<stage, last, key>>

GopInit == stage = "closed" /\ last = 0 /\ key = FALSE

Connect ==
    /\ stage = "closed"
    /\ stage' = "header" /\ last' = 0 /\ key' = FALSE

FirstFrame ==
    /\ stage = "header"
    /\ stage' = "playing" /\ last' \in Nat \ {0} /\ key' = TRUE

NextFrame ==
    /\ stage = "playing"
    /\ stage' = "playing" /\ last' = last + 1 /\ key' \in BOOLEAN

Disconnect ==
    /\ stage # "closed"
    /\ stage' = "closed" /\ last' = 0 /\ key' = FALSE

GopNext == Connect \/ FirstFrame \/ NextFrame \/ Disconnect

GopSpec == GopInit /\ [][GopNext]_gopVars
=============================================================================
