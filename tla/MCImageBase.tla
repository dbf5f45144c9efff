---------------------------- MODULE MCImageBase -----------------------------
(* ImageBase with few objects, which are interchangeable.  Sides of one and *)
(* two pixels are enough for a window that does not fit, is not at the      *)
(* origin, or is in a pixmap that is not a square; at offset one, a window  *)
(* may also lie outside.                                                    *)
EXTENDS ImageBase, TLC

Symmetry == Permutations(Images) \cup Permutations(Pixmaps) \cup Permutations(Heap)

SmallSizes == {size \in [w : 1..2, h : 1..2] : size.w * size.h <= 2}

(* Bound: iterators and locks, which read neither positions nor sizes, are *)
(* followed while all images are whole pixmaps of one row, and windows     *)
(* anywhere while there are no iterators and no locks.                     *)
Locking == \/ writers # <<>> \/ misused
           \/ \E p \in Pixmaps : pixmap[p].master # None
Whole(i) ==
    /\ image[i].x = 0 /\ image[i].y = 0 /\ image[i].win = 0
    /\ image[i].pix # None => Size(i) = [w |-> image[i].w, h |-> 1]
Followed == Locking => \A i \in Images : Whole(i)
=============================================================================
