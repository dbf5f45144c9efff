------------------------------ MODULE ImageBase ------------------------------
(***************************************************************************)
(* XVImageBase and XVPixmap (src/Images): images are windows into pixmaps  *)
(* that they share.  Assignment and the copy constructor swing the pointer *)
(* to the pixmap; the last image that leaves a pixmap deletes it; resize   *)
(* and remap give an image a pixmap of its own when they must; one image   *)
(* at a time may lock a pixmap, which write iterators do on construction.  *)
(*                                                                         *)
(* Every member function is one step: an image is used by one thread.  It  *)
(* is the default build, in which ASSERT expands to nothing                *)
(* (DEBUG_LEVEL = 0) and SLOW_COPY is not defined.                         *)
(***************************************************************************)
EXTENDS Integers, Sequences, FiniteSets

CONSTANTS Images,       \* addresses of image objects
          Pixmaps,      \* addresses of pixmap objects
          Heap,         \* memory that new T[] returns
          Driver,       \* buffers of a driver, to remap() to
          None,         \* NULL
          Sizes,        \* bound: the widths and heights of images
          Offsets,      \* bound: the coordinates a window is moved to
          MaxWriters    \* bound: write iterators alive, and locks of a pixmap, at a time

ASSUME ImageAssumption ==
    /\ Sizes \subseteq [w : Nat \ {0}, h : Nat \ {0}]
    /\ Offsets \subseteq Int /\ MaxWriters \in Nat
    /\ None \notin Images \cup Pixmaps \cup Heap \cup Driver
    /\ Heap \cap Driver = {}

VARIABLES image,     \* the members of each image; "gone" before and after its life
          pixmap,    \* the members of each pixmap
          memory,    \* which of Heap is allocated
          writers,   \* write iterators, automatic variables: the last one dies first
          misused    \* history: a lock was dropped or left behind by its owner

vars == <<image, pixmap, memory, writers, misused>>

Gone    == [alive |-> FALSE, pix |-> None, x |-> 0, y |-> 0, w |-> 0, h |-> 0,
            skip |-> 0, win |-> 0]
Deleted == [alive |-> FALSE, w |-> 0, h |-> 0, users |-> {}, count |-> 0,
            locked |-> 0, master |-> None, addr |-> None, own |-> FALSE]

Init ==
    /\ image = [i \in Images |-> Gone]
    /\ pixmap = [p \in Pixmaps |-> Deleted]
    /\ memory = {}
    /\ writers = <<>>
    /\ misused = FALSE
-----------------------------------------------------------------------------
(* Pixmaps and their lists of images *)

(* The constructor does not set master_image: it is what the memory held *)
NewPixmap(size, addr, own, master) ==
    [alive |-> TRUE, w |-> size.w, h |-> size.h, users |-> {}, count |-> 0,
     locked |-> 0, master |-> master, addr |-> addr, own |-> own]

Masters == Images \cup {None}

(* XVList::append, XVList::remove *)
With(p, i) == [p EXCEPT !.users = @ \cup {i}, !.count = @ + 1]
Without(p, i) ==
    IF i \in p.users THEN [p EXCEPT !.users = @ \ {i}, !.count = @ - 1] ELSE p

(* mutation: the image stays on the list *)
KeptRegistered(i) == pixmap

(* The image leaves its pixmap, and deletes it if the list is empty *)
Left(i) ==
    LET p == image[i].pix
        rest == Without(pixmap[p], i)
    IN  IF p = None THEN pixmap
        ELSE [pixmap EXCEPT ![p] = IF rest.count > 0 THEN rest ELSE Deleted]

(* mutation: the memory of a deleted pixmap is kept *)
NotReleased(i) == memory

(* ~XVPixmap *)
Released(i) ==
    LET p == image[i].pix
    IN  IF p # None /\ Without(pixmap[p], i).count = 0 /\ pixmap[p].own
        THEN memory \ {pixmap[p].addr}
        ELSE memory

Size(i) == [w |-> pixmap[image[i].pix].w, h |-> pixmap[image[i].pix].h]
At(x, y, stride) == y * stride + x

(* A lock is left behind when an image with an open write iterator moves   *)
(* to another pixmap                                                       *)
Writing(i) == \E k \in DOMAIN writers : writers[k].img = i /\ writers[k].pix # None
Moves(i)   == misused' = (misused \/ Writing(i))
-----------------------------------------------------------------------------
(* Life of an image *)

(* XVImageBase() *)
ConstructEmpty(i) ==
    /\ ~image[i].alive
    /\ image' = [image EXCEPT ![i] = [Gone EXCEPT !.alive = TRUE]]
    /\ UNCHANGED <<pixmap, memory, writers, misused>>

(* XV_BASE_CONSTRUCT without a pixmap *)
Construct(i) ==
    /\ ~image[i].alive
    /\ \E size \in Sizes, p \in Pixmaps, a \in Heap \ memory, m \in Masters :
         /\ ~pixmap[p].alive
         /\ pixmap' = [pixmap EXCEPT ![p] = With(NewPixmap(size, a, TRUE, m), i)]
         /\ memory' = memory \cup {a}
         /\ image' = [image EXCEPT ![i] = [alive |-> TRUE, pix |-> p, x |-> 0, y |-> 0,
                                           w |-> size.w, h |-> size.h, skip |-> 0, win |-> 0]]
    /\ UNCHANGED <<writers, misused>>

(* XVImageBase(const XVImageBase &) *)
CopyConstruct(i) ==
    /\ ~image[i].alive
    /\ \E k \in Images :
         /\ image[k].alive
         /\ image' = [image EXCEPT ![i] = image[k]]
         /\ pixmap' = IF image[k].pix = None THEN pixmap
                      ELSE [pixmap EXCEPT ![image[k].pix] = With(@, i)]
    /\ UNCHANGED <<memory, writers, misused>>

(* ~XVImageBase; iterators hold a reference and die before *)
Destroy(i) ==
    /\ image[i].alive
    /\ \A k \in DOMAIN writers : writers[k].img # i
    /\ image' = [image EXCEPT ![i] = Gone]
    /\ pixmap' = Left(i) /\ memory' = Released(i)
    /\ UNCHANGED <<writers, misused>>

(* operator=: pointer swinging; the source must have a pixmap *)
Assign(i) ==
    \E k \in Images :
       LET q == image[k].pix IN
       /\ image[i].alive /\ q # None
       /\ image' = [image EXCEPT ![i] = image[k]]
       /\ IF image[i].pix = q
          THEN UNCHANGED <<pixmap, memory, misused>>
          ELSE /\ pixmap' = [Left(i) EXCEPT ![q] = With(@, i)]
               /\ memory' = Released(i)
               /\ Moves(i)
       /\ UNCHANGED writers
-----------------------------------------------------------------------------
(* Windows *)

(* mutation: the line skip is not adjusted *)
OldSkip(i, width) == image[i].skip

LineSkip(i, width) == Size(i).w - width

(* mutation: the rows of the image, not those of the pixmap, are counted *)
ImageRows(i, x, y) == At(x, y, image[i].w)

WindowAt(i, x, y) == At(x, y, Size(i).w)

(* setSubImage: its ASSERT that the region is inside the pixmap is empty *)
SetSubImage(i) ==
    /\ image[i].pix # None
    /\ \E size \in Sizes, x \in Offsets, y \in Offsets :
         image' = [image EXCEPT ![i] =
                        [@ EXCEPT !.x = x, !.y = y, !.w = size.w, !.h = size.h,
                                  !.skip = LineSkip(i, size.w),
                                  !.win = WindowAt(i, x, y)]]
    /\ UNCHANGED <<pixmap, memory, writers, misused>>

(* reposition, which does not ask whether the image fits there *)
Reposition(i) ==
    /\ image[i].pix # None
    /\ \E x \in Offsets, y \in Offsets :
         image' = [image EXCEPT ![i].x = x, ![i].y = y, ![i].win = WindowAt(i, x, y)]
    /\ UNCHANGED <<pixmap, memory, writers, misused>>

FitsAt(i, size) ==
    image[i].x + size.w <= Size(i).w /\ image[i].y + size.h <= Size(i).h

(* resize within the pixmap *)
Shrink(i) ==
    /\ image[i].pix # None
    /\ \E size \in Sizes :
         /\ FitsAt(i, size)
         /\ image' = IF size = [w |-> image[i].w, h |-> image[i].h] THEN image
                     ELSE [image EXCEPT ![i].w = size.w, ![i].h = size.h,
                                        ![i].skip = LineSkip(i, size.w)]
    /\ UNCHANGED <<pixmap, memory, writers, misused>>

(* The address is computed before the position is reset *)
GrownWindow(i, size) == At(image[i].x, image[i].y, size.w)

(* resize to a new pixmap *)
Grow(i) ==
    /\ image[i].alive
    /\ \E size \in Sizes, p \in Pixmaps, a \in Heap \ Released(i), m \in Masters :
         /\ image[i].pix # None =>
               size # [w |-> image[i].w, h |-> image[i].h] /\ ~FitsAt(i, size)
         /\ ~Left(i)[p].alive
         /\ pixmap' = [Left(i) EXCEPT ![p] = With(NewPixmap(size, a, TRUE, m), i)]
         /\ memory' = Released(i) \cup {a}
         /\ image' = [image EXCEPT ![i] =
                        [alive |-> TRUE, pix |-> p, x |-> 0, y |-> 0, w |-> size.w,
                         h |-> size.h, skip |-> 0, win |-> GrownWindow(i, size)]]
    /\ Moves(i)
    /\ UNCHANGED writers

(* The address is computed from the height of the pixmap *)
RemappedWindow(i) == At(image[i].x, image[i].y, Size(i).h)

(* mutation: off by one *)
AloneWithOne(i) == pixmap[image[i].pix].count <= 2

Alone(i) == pixmap[image[i].pix].count = 1

(* remap(addr, false), where the image has its pixmap to itself *)
RemapAlone(i) ==
    /\ image[i].pix # None /\ Alone(i)
    /\ \E a \in Driver :
          pixmap' = [pixmap EXCEPT ![image[i].pix].addr = a, ![image[i].pix].own = FALSE]
    /\ memory' = Released(i)
    /\ image' = [image EXCEPT ![i].win = RemappedWindow(i)]
    /\ UNCHANGED <<writers, misused>>

(* remap(addr, false), where others stay with the old pixmap *)
RemapShared(i) ==
    /\ image[i].pix # None /\ ~Alone(i)
    /\ \E a \in Driver, p \in Pixmaps, m \in Masters :
         /\ ~pixmap[p].alive
         /\ pixmap' = [pixmap EXCEPT ![image[i].pix] = Without(@, i),
                                     ![p] = With(NewPixmap(Size(i), a, FALSE, m), i)]
         /\ image' = [image EXCEPT ![i].pix = p, ![i].win = RemappedWindow(i)]
    /\ Moves(i)
    /\ UNCHANGED <<memory, writers>>
-----------------------------------------------------------------------------
(* Locks and write iterators *)

Lockable(p, i) == pixmap[p].locked = 0 \/ pixmap[p].master = i

(* mutation: whether it is locked is not tested *)
UncheckedUnlock(i) == [pixmap EXCEPT ![image[i].pix].locked = @ - 1]

(* mutation: nested locks are forgotten *)
UnlockedAtOnce(i) ==
    LET p == image[i].pix
    IN  IF pixmap[p].master # i THEN pixmap
        ELSE [pixmap EXCEPT ![p].locked = 0, ![p].master = None]

(* XVPixmap::unlockPixmap *)
Unlocked(i) ==
    LET p == image[i].pix
    IN  IF pixmap[p].locked = 0 \/ pixmap[p].master # i THEN pixmap
        ELSE [pixmap EXCEPT ![p].locked = @ - 1,
                            ![p].master = IF pixmap[p].locked = 1 THEN None ELSE @]

(* XVImageWIterator: its pointers are NULL if the lock was refused *)
OpenWriter(i) ==
    LET p == image[i].pix IN
    /\ p # None /\ Len(writers) < MaxWriters /\ pixmap[p].locked < MaxWriters
    /\ IF Lockable(p, i)
       THEN /\ pixmap' = [pixmap EXCEPT ![p].locked = @ + 1, ![p].master = i]
            /\ writers' = Append(writers, [img |-> i, pix |-> p])
       ELSE /\ writers' = Append(writers, [img |-> i, pix |-> None])
            /\ UNCHANGED pixmap
    /\ UNCHANGED <<image, memory, misused>>

(* The copy constructor takes the pointers over but no lock *)
CopyWriter(k) ==
    /\ Len(writers) < MaxWriters
    /\ writers' = Append(writers, [img |-> writers[k].img, pix |-> None])
    /\ UNCHANGED <<image, pixmap, memory, misused>>

(* An iterator that holds no lock (it was refused, closed or is a copy)    *)
(* unlocks all the same, and undercuts one that does: "All write iterators *)
(* based on an image must be destroyed in order for all locks to release"  *)
(* (XVImageBase.h:318-320) is true only without such an iterator           *)
Undercuts(k) == misused' = (misused \/ (writers[k].pix = None /\ Writing(writers[k].img)))

(* close(), called by name: the destructor will unlock once more *)
CloseWriter(k) ==
    /\ Undercuts(k)
    /\ pixmap' = Unlocked(writers[k].img)
    /\ writers' = [writers EXCEPT ![k].pix = None]
    /\ UNCHANGED <<image, memory>>

(* ~XVImageWIterator *)
DestroyWriter ==
    /\ writers # <<>>
    /\ pixmap' = Unlocked(writers[Len(writers)].img)
    /\ Undercuts(Len(writers))
    /\ writers' = SubSeq(writers, 1, Len(writers) - 1)
    /\ UNCHANGED <<image, memory>>
-----------------------------------------------------------------------------
(* The calls of image i, its locking by an iterator included *)
CallOf(i) ==
    \/ ConstructEmpty(i) \/ Construct(i) \/ CopyConstruct(i) \/ Destroy(i)
    \/ Assign(i) \/ SetSubImage(i) \/ Reposition(i)
    \/ Shrink(i) \/ Grow(i) \/ RemapAlone(i) \/ RemapShared(i)
    \/ OpenWriter(i)

Unlock == DestroyWriter \/ \E k \in DOMAIN writers : CloseWriter(k)

Next ==
    \/ \E i \in Images : CallOf(i)
    \/ \E k \in DOMAIN writers : CopyWriter(k)
    \/ Unlock

Spec == Init /\ [][Next]_vars
-----------------------------------------------------------------------------
(* All variables have their types. *)
TypeOK ==
    /\ image \in [Images -> [alive : BOOLEAN, pix : Pixmaps \cup {None}, x : Int, y : Int,
                             w : Nat, h : Nat, skip : Int, win : Int]]
    /\ pixmap \in [Pixmaps -> [alive : BOOLEAN, w : Nat, h : Nat, users : SUBSET Images,
                               count : Nat, locked : Nat, master : Images \cup {None},
                               addr : Heap \cup Driver \cup {None}, own : BOOLEAN]]
    /\ memory \in SUBSET Heap
    /\ writers \in Seq([img : Images, pix : Pixmaps \cup {None}])
    /\ misused \in BOOLEAN

(* The list of a pixmap (its users and their count) is the images that     *)
(* point to it: whatever is assigned, copied, resized, remapped and        *)
(* destroyed, no image points to a deleted pixmap and no pixmap without    *)
(* images is left alive.                                                   *)
UsersOf(p) == {i \in Images : image[i].pix = p}

Registered ==
    \A p \in Pixmaps :
       /\ pixmap[p].users = UsersOf(p)
       /\ pixmap[p].count = Cardinality(UsersOf(p))
       /\ pixmap[p].alive <=> UsersOf(p) # {}

(* Allocated memory is owned by exactly one pixmap (nothing is freed twice *)
(* or leaked), a pixmap that owns its memory never owns a driver's buffer, *)
(* and none is ever backed by memory that was freed.                       *)
Owned ==
    /\ \A a \in memory : \E p \in Pixmaps :
          pixmap[p].own /\ pixmap[p].addr = a
          /\ \A q \in Pixmaps : pixmap[q].addr = a => q = p
    /\ \A p \in Pixmaps : pixmap[p].alive =>
          IF pixmap[p].own THEN pixmap[p].addr \in memory ELSE pixmap[p].addr \in Driver

(* A row of the window and the skip make a row of the pixmap, so whoever   *)
(* walks the image row by row stays in its columns: after every call, also *)
(* in images that were copied before another one was resized or remapped,  *)
(* and wherever the caller has put the window.                             *)
RowsMatch ==
    \A i \in Images : image[i].pix # None => image[i].w + image[i].skip = Size(i).w

(* As long as no image was moved with an iterator open on it, and no       *)
(* iterator without a lock (refused, closed by name or a copy) released    *)
(* the lock of another one: a pixmap is locked as often as there are write *)
(* iterators that locked it, and these are all on its master.              *)
LocksMatchWriters ==
    ~misused =>
       \A p \in Pixmaps :
          LET open == {k \in DOMAIN writers : writers[k].pix = p}
          IN  /\ pixmap[p].locked = Cardinality(open)
              /\ \A k \in open : pixmap[p].master = writers[k].img /\ image[writers[k].img].pix = p

(* What an image shows changes only in a call on this very image: no call  *)
(* on another one, and no iterator, changes its members or the memory      *)
(* behind it, shared pixmaps included.                                     *)
View(i) == <<image[i], IF image[i].pix = None THEN None ELSE pixmap[image[i].pix].addr>>

Undisturbed ==
    [][\A i \in Images : View(i)' # View(i) =>
          CallOf(i) /\ \A j \in Images \ {i} : View(j)' = View(j)]_vars

(* The cached address of an image is that of its position in its pixmap.   *)
(* No call loses that, on this image or on another one that shares the     *)
(* pixmap, whether or not the window is inside: except for resize() of an  *)
(* image that is not at the origin, remap() of one that is not in the      *)
(* first row (unless the pixmap is a square), and copying an image that    *)
(* has lost it.                                                            *)
Addressed(i) == image[i].pix # None =>
                   image[i].win = At(image[i].x, image[i].y, Size(i).w)

AddressKept ==
    [][\A i \in Images : Addressed(i) /\ ~Addressed(i)' =>
          \/ Grow(i) /\ <<image[i].x, image[i].y>> # <<0, 0>>
          \/ RemapAlone(i) /\ image[i].y # 0 /\ Size(i).w # Size(i).h
          \/ RemapShared(i) /\ image[i].y # 0 /\ Size(i).w # Size(i).h
          \/ \E k \in Images : ~Addressed(k) /\ image'[i] = image[k]]_vars
=============================================================================
