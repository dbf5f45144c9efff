---------------------------- MODULE FrameMailbox -----------------------------
(***************************************************************************)
(* What a frame grabber that captures by itself promises a client that     *)
(* asks now and then: a mailbox of one place.  A frame that is delivered   *)
(* replaces the one that waits; the client takes what waits, once, and     *)
(* every frame it takes was captured after all it took before.  Nothing    *)
(* says that a captured frame is delivered: the grabber may drop any.      *)
(***************************************************************************)
EXTENDS Naturals

CONSTANT MaxShots   \* frame numbers are counted up to here

VARIABLES waiting,  \* the number of the frame that waits, 0 if none does
          taken     \* the number of the frame taken last

mailbox == <<waiting, taken>>

(* the last number stands for all later frames *)
Later(m, n) == n > m \/ n = MaxShots

Init == waiting = 0 /\ taken = 0

Deliver ==
    /\ waiting' \in 1..MaxShots
    /\ Later(waiting, waiting') /\ Later(taken, waiting')
    /\ UNCHANGED taken

Take ==
    /\ waiting # 0
    /\ taken' = waiting
    /\ waiting' = 0

Next == Deliver \/ Take

Spec == Init /\ [][Next]_mailbox
=============================================================================
