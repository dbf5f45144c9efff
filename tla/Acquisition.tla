----------------------------- MODULE Acquisition -----------------------------
(***************************************************************************)
(* What a queueing frame grabber promises to the users of the two virtual  *)
(* functions of XVVideo (src/Devices/XVVideo.h:109-115): the first         *)
(* schedules an acquisition, the second waits for its completion.  The     *)
(* scheduled acquisitions complete one at a time, in the order they were   *)
(* scheduled, each once, each with a frame captured after the one before;  *)
(* no other image changes.                                                 *)
(***************************************************************************)
EXTENDS Naturals, Sequences

CONSTANT Buffers

VARIABLES pending,   \* scheduled buffers, oldest first
          images,    \* per buffer: the number of the frame it holds
          captured   \* frames acquired so far

avars == <<pending, images, captured>>

Init == pending = <<>> /\ images = [b \in Buffers |-> 0] /\ captured = 0

Schedule(b) ==
    /\ \A i \in DOMAIN pending : pending[i] # b
    /\ pending' = Append(pending, b)
    /\ UNCHANGED <<images, captured>>

Complete ==
    /\ pending # <<>>
    /\ captured' = captured + 1
    /\ images' = [images EXCEPT ![Head(pending)] = captured + 1]
    /\ pending' = Tail(pending)

Next == Complete \/ \E b \in Buffers : Schedule(b)

Spec == Init /\ [][Next]_avars
=============================================================================
