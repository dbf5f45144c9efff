-------------------------- MODULE ImageBase_proofs ---------------------------
(***************************************************************************)
(* Sharing of pixmaps by images (module ImageBase), for any number of      *)
(* images, pixmaps and sizes: lists, memory and line skips always match.   *)
(*                                                                         *)
(* Every operation is a composition of leaving a pixmap, joining one and   *)
(* making one, and Registered, Owned and RowsMatch do not hold between  *)
(* these.  They are therefore stated of any pixmaps pm, memory mem and     *)
(* images im, and each part has a lemma.                                   *)
(***************************************************************************)
EXTENDS ImageBase, FiniteSetTheorems, TLAPS

ImageType ==
    [alive : BOOLEAN, pix : Pixmaps \cup {None}, x : Int, y : Int,
     w : Nat, h : Nat, skip : Int, win : Int]
PixmapType ==
    [alive : BOOLEAN, w : Nat, h : Nat, users : SUBSET Images,
     count : Nat, locked : Nat, master : Images \cup {None},
     addr : Heap \cup Driver \cup {None}, own : BOOLEAN]
WriterType == [img : Images, pix : Pixmaps \cup {None}]

PointTo(im, p) == {j \in Images : im[j].pix = p}

(* Registered, with finite lists *)
RegisteredIn(pm, im) ==
    \A p \in Pixmaps :
       /\ pm[p].users = PointTo(im, p)
       /\ IsFiniteSet(PointTo(im, p))
       /\ pm[p].count = Cardinality(PointTo(im, p))
       /\ pm[p].alive <=> PointTo(im, p) # {}

(* Owned, and nothing is known of a deleted pixmap *)
OwnedIn(pm, mem) ==
    /\ \A a \in mem : \E p \in Pixmaps :
          pm[p].own /\ pm[p].addr = a
          /\ \A q \in Pixmaps : pm[q].addr = a => q = p
    /\ \A p \in Pixmaps :
          IF ~pm[p].alive THEN ~pm[p].own /\ pm[p].addr = None
          ELSE IF pm[p].own THEN pm[p].addr \in mem ELSE pm[p].addr \in Driver

(* RowsMatch, image by image *)
RowsIn(pm, v) ==
    v.pix # None => v.w + v.skip = pm[v.pix].w

PixmapsOK(pm, mem) == pm \in [Pixmaps -> PixmapType] /\ mem \subseteq Heap /\ OwnedIn(pm, mem)

IInv ==
    /\ TypeOK
    /\ RegisteredIn(pixmap, image)
    /\ OwnedIn(pixmap, memory)
    /\ \A i \in Images : RowsIn(pixmap, image[i])
    /\ \A i \in Images : image[i].pix # None => image[i].alive

(* Image v without a pixmap *)
Apart(v) == [v EXCEPT !.pix = None]
-----------------------------------------------------------------------------
(* The parts of TypeOK, named. *)
LEMMA Types ==
    ASSUME IInv
    PROVE  /\ image \in [Images -> ImageType]
           /\ pixmap \in [Pixmaps -> PixmapType]
           /\ memory \subseteq Heap
           /\ writers \in Seq(WriterType)
           /\ misused \in BOOLEAN
  BY DEF IInv, TypeOK, ImageType, PixmapType, WriterType

(* And back. *)
LEMMA TypesBack ==
    ASSUME image \in [Images -> ImageType], pixmap \in [Pixmaps -> PixmapType],
           memory \subseteq Heap, writers \in Seq(WriterType), misused \in BOOLEAN
    PROVE  TypeOK
  BY DEF TypeOK, ImageType, PixmapType, WriterType

(* Only the pointers of the images matter to the lists. *)
LEMMA SamePointers ==
    ASSUME NEW pm, NEW im, NEW other, RegisteredIn(pm, im),
           \A j \in Images : other[j].pix = im[j].pix
    PROVE  RegisteredIn(pm, other)
<1>1. \A p : PointTo(other, p) = PointTo(im, p)
  BY DEF PointTo
<1>2. QED
  BY <1>1 DEF RegisteredIn

(* Pixmaps that differ at most in their lists *)
SameButUsers(new, old) ==
    /\ new.alive = old.alive /\ new.w = old.w /\ new.h = old.h
    /\ new.locked = old.locked /\ new.master = old.master
    /\ new.addr = old.addr /\ new.own = old.own

(* The list of a pixmap without one image: XVList::remove *)
LEMMA LeavesList ==
    ASSUME NEW pm, NEW im, NEW p \in Pixmaps, NEW i \in Images,
           RegisteredIn(pm, im), im[i].pix = p,
           pm \in [Pixmaps -> PixmapType], im \in [Images -> ImageType],
           NEW rest, rest = Without(pm[p], i)
    PROVE  /\ SameButUsers(rest, pm[p])
           /\ rest.users = PointTo(im, p) \ {i}
           /\ IsFiniteSet(rest.users)
           /\ rest.count = Cardinality(rest.users)
           /\ rest.count \in Nat
           /\ rest.count > 0 <=> rest.users # {}
           /\ rest \in PixmapType
<1>1. /\ pm[p].users = PointTo(im, p) /\ IsFiniteSet(PointTo(im, p))
      /\ pm[p].count = Cardinality(PointTo(im, p)) /\ i \in PointTo(im, p)
  BY DEF RegisteredIn, PointTo
<1>2. pm[p] \in PixmapType
  OBVIOUS
<1>3. rest = [pm[p] EXCEPT !.users = @ \ {i}, !.count = @ - 1]
  BY <1>1 DEF Without
<1>4. rest.users = PointTo(im, p) \ {i} /\ rest.count = pm[p].count - 1
  BY <1>1, <1>2, <1>3 DEF PixmapType
<1>5. /\ IsFiniteSet(PointTo(im, p) \ {i})
      /\ Cardinality(PointTo(im, p) \ {i}) = Cardinality(PointTo(im, p)) - 1
  BY <1>1, FS_RemoveElement
<1>6. Cardinality(PointTo(im, p) \ {i}) \in Nat
  BY <1>5, FS_CardinalityType
<1>7. Cardinality(PointTo(im, p) \ {i}) > 0 <=> PointTo(im, p) \ {i} # {}
  BY <1>5, <1>6, FS_EmptySet
<1>8. rest \in PixmapType
  <2>1. pm[p].users \ {i} \in SUBSET Images
    BY <1>2 DEF PixmapType
  <2>2. pm[p].count - 1 \in Nat
    BY <1>1, <1>5, <1>6
  <2>3. QED
    BY <1>2, <1>3, <2>1, <2>2 DEF PixmapType
<1>9. SameButUsers(rest, pm[p])
  BY <1>2, <1>3 DEF PixmapType, SameButUsers
<1>10. QED
  BY <1>1, <1>9, <1>4, <1>5, <1>6, <1>7, <1>8
-----------------------------------------------------------------------------
(* Leaving a pixmap: the destructor, and the first half of operator=,      *)
(* resize and remap                                                        *)

Without_i(i) == [image EXCEPT ![i] = Apart(@)]

(* The pixmaps that an image leaves are those it finds, but for its own.   *)
LEMMA LeftIs ==
    ASSUME IInv, NEW i \in Images, image[i].pix # None,
           NEW rest, rest = Without(pixmap[image[i].pix], i)
    PROVE  /\ image[i].pix \in Pixmaps
           /\ Left(i) = [pixmap EXCEPT ![image[i].pix] =
                            IF PointTo(image, image[i].pix) \ {i} # {} THEN rest ELSE Deleted]
           /\ SameButUsers(rest, pixmap[image[i].pix])
           /\ rest.users = PointTo(image, image[i].pix) \ {i}
           /\ IsFiniteSet(rest.users)
           /\ rest.count = Cardinality(rest.users)
           /\ rest.count = 0 <=> rest.users = {}
           /\ rest \in PixmapType
<1>1. image \in [Images -> ImageType] /\ pixmap \in [Pixmaps -> PixmapType]
  BY Types
<1>2. image[i].pix \in Pixmaps
  BY <1>1 DEF ImageType
<1>3. RegisteredIn(pixmap, image)
  BY DEF IInv
<1>4. /\ SameButUsers(rest, pixmap[image[i].pix])
      /\ rest.users = PointTo(image, image[i].pix) \ {i}
      /\ IsFiniteSet(rest.users)
      /\ rest.count = Cardinality(rest.users)
      /\ rest.count \in Nat
      /\ rest.count > 0 <=> rest.users # {}
      /\ rest \in PixmapType
  <2>1. PICK p \in Pixmaps : p = image[i].pix
    BY <1>2
  <2>2. rest = Without(pixmap[p], i)
    BY <2>1
  <2>3. image[i].pix = p
    BY <2>1
  <2>4. /\ SameButUsers(rest, pixmap[p])
        /\ rest.users = PointTo(image, p) \ {i}
        /\ IsFiniteSet(rest.users)
        /\ rest.count = Cardinality(rest.users)
        /\ rest.count \in Nat
        /\ rest.count > 0 <=> rest.users # {}
        /\ rest \in PixmapType
    BY ONLY <1>1, <1>3, <2>2, <2>3, LeavesList
  <2>5. QED
    BY <2>1, <2>4
<1>5. Left(i) = [pixmap EXCEPT ![image[i].pix] = IF rest.count > 0 THEN rest ELSE Deleted]
  BY DEF Left
<1>6. rest.count = 0 <=> rest.users = {}
  BY <1>4
<1>7. Left(i) = [pixmap EXCEPT ![image[i].pix] =
                    IF PointTo(image, image[i].pix) \ {i} # {} THEN rest ELSE Deleted]
  BY <1>4, <1>5
<1>8. QED
  BY <1>2, <1>4, <1>6, <1>7

(* The pixmaps left behind are well formed. *)
LEMMA LeftType ==
    ASSUME IInv, NEW i \in Images
    PROVE  Left(i) \in [Pixmaps -> PixmapType]
<1>1. pixmap \in [Pixmaps -> PixmapType]
  BY Types
<1>2. Deleted \in PixmapType
  BY DEF Deleted, PixmapType
<1>3. CASE image[i].pix = None
  BY <1>1, <1>3 DEF Left
<1>4. CASE image[i].pix # None
  <2> DEFINE rest == Without(pixmap[image[i].pix], i)
  <2>1. /\ Left(i) = [pixmap EXCEPT ![image[i].pix] =
                          IF PointTo(image, image[i].pix) \ {i} # {} THEN rest ELSE Deleted]
        /\ rest \in PixmapType
    BY <1>4, LeftIs
  <2>2. QED
    BY <1>1, <1>2, <2>1
<1>5. QED
  BY <1>3, <1>4

(* Their lists are those of the images that stay. *)
LEMMA LeftRegistered ==
    ASSUME IInv, NEW i \in Images
    PROVE  RegisteredIn(Left(i), Without_i(i))
<1>1. image \in [Images -> ImageType] /\ pixmap \in [Pixmaps -> PixmapType]
  BY Types
<1>2. RegisteredIn(pixmap, image)
  BY DEF IInv
<1>3. \A j \in Images : Without_i(i)[j].pix = IF j = i THEN None ELSE image[j].pix
  BY <1>1 DEF Without_i, Apart, ImageType
<1>4. \A p \in Pixmaps : PointTo(Without_i(i), p) = PointTo(image, p) \ {i}
  BY <1>3, ImageAssumption DEF PointTo
<1>5. CASE image[i].pix = None
  <2>1. Left(i) = pixmap
    BY <1>5 DEF Left
  <2>2. \A p \in Pixmaps : i \notin PointTo(image, p)
    BY <1>5, ImageAssumption DEF PointTo
  <2>3. QED
    BY <1>2, <1>4, <2>1, <2>2 DEF RegisteredIn
<1>6. CASE image[i].pix # None
  <2> DEFINE old == image[i].pix
             rest == Without(pixmap[old], i)
  <2>1. /\ old \in Pixmaps
        /\ Left(i) = [pixmap EXCEPT ![old] =
                        IF PointTo(image, old) \ {i} # {} THEN rest ELSE Deleted]
        /\ SameButUsers(rest, pixmap[old])
        /\ rest.users = PointTo(image, old) \ {i}
        /\ IsFiniteSet(rest.users)
        /\ rest.count = Cardinality(rest.users)
    BY <1>6, LeftIs
  <2>2. rest.alive = pixmap[old].alive
    BY <2>1 DEF SameButUsers
  <2> HIDE DEF rest, old
  <2>3. i \in PointTo(image, old)
    BY DEF PointTo, old
  <2>4. pixmap[old].alive
    BY <1>2, <2>1, <2>3 DEF RegisteredIn
  <2> SUFFICES ASSUME NEW p \in Pixmaps
               PROVE  /\ Left(i)[p].users = PointTo(image, p) \ {i}
                      /\ IsFiniteSet(PointTo(image, p) \ {i})
                      /\ Left(i)[p].count = Cardinality(PointTo(image, p) \ {i})
                      /\ Left(i)[p].alive <=> PointTo(image, p) \ {i} # {}
    BY <1>4 DEF RegisteredIn
  <2>5. CASE p = old /\ PointTo(image, old) \ {i} # {}
    <3>1. Left(i)[p] = rest
      BY <1>1, <2>1, <2>5
    <3>2. QED
      BY <2>1, <2>2, <2>4, <2>5, <3>1
  <2>6. CASE p = old /\ PointTo(image, old) \ {i} = {}
    <3>1. Left(i)[p] = Deleted
      BY <1>1, <2>1, <2>6
    <3>2. Deleted.users = {} /\ Deleted.count = 0 /\ ~Deleted.alive
      BY DEF Deleted
    <3>3. QED
      BY <2>6, <3>1, <3>2, FS_EmptySet
  <2>7. CASE p # old
    <3>1. Left(i)[p] = pixmap[p]
      BY <1>1, <2>1, <2>7
    <3>2. i \notin PointTo(image, p)
      BY <2>7 DEF PointTo, old
    <3>3. QED
      BY <1>2, <3>1, <3>2 DEF RegisteredIn
  <2>8. QED
    BY <2>5, <2>6, <2>7
<1>7. QED
  BY <1>5, <1>6

(* The memory that stays allocated is the one that is still owned. *)
LEMMA LeftOwned ==
    ASSUME IInv, NEW i \in Images
    PROVE  OwnedIn(Left(i), Released(i)) /\ Released(i) \subseteq memory
<1>1. image \in [Images -> ImageType] /\ pixmap \in [Pixmaps -> PixmapType]
  BY Types
<1>2. OwnedIn(pixmap, memory) /\ RegisteredIn(pixmap, image) /\ memory \subseteq Heap
  BY Types DEF IInv
<1>3. CASE image[i].pix = None
  BY <1>2, <1>3 DEF Left, Released
<1>4. CASE image[i].pix # None
  <2> DEFINE old == image[i].pix
             rest == Without(pixmap[old], i)
  <2>1. /\ old \in Pixmaps
        /\ Left(i) = [pixmap EXCEPT ![old] =
                        IF PointTo(image, old) \ {i} # {} THEN rest ELSE Deleted]
        /\ SameButUsers(rest, pixmap[old])
        /\ rest.users = PointTo(image, old) \ {i}
        /\ rest.count = 0 <=> rest.users = {}
    BY <1>4, LeftIs
  <2>2. rest.alive = pixmap[old].alive /\ rest.own = pixmap[old].own
        /\ rest.addr = pixmap[old].addr
    BY <2>1 DEF SameButUsers
  <2>3. Released(i) = IF rest.count = 0 /\ pixmap[old].own
                      THEN memory \ {pixmap[old].addr} ELSE memory
    BY <1>4 DEF Released
  <2> HIDE DEF rest
  <2>4. pixmap[old].alive
    BY <1>2, <2>1 DEF RegisteredIn, PointTo
  <2>5. CASE PointTo(image, old) \ {i} # {}
    <3>1. \A p \in Pixmaps : /\ Left(i)[p].own = pixmap[p].own
                             /\ Left(i)[p].addr = pixmap[p].addr
                             /\ Left(i)[p].alive = pixmap[p].alive
      BY <1>1, <2>1, <2>2, <2>5
    <3>2. Released(i) = memory
      BY <2>1, <2>3, <2>5
    <3>3. QED
      BY <1>2, <3>1, <3>2 DEF OwnedIn
  <2>6. CASE PointTo(image, old) \ {i} = {}
    <3>1. Left(i)[old] = Deleted /\ \A p \in Pixmaps : p # old => Left(i)[p] = pixmap[p]
      BY <1>1, <2>1, <2>6
    <3>2. Released(i) = IF pixmap[old].own THEN memory \ {pixmap[old].addr} ELSE memory
      BY <2>1, <2>3, <2>6
    <3>3. Deleted.addr = None /\ ~Deleted.own /\ ~Deleted.alive
      BY DEF Deleted
    <3>4. ASSUME NEW a \in Released(i)
          PROVE  \E p \in Pixmaps : /\ Left(i)[p].own /\ Left(i)[p].addr = a
                                    /\ \A q \in Pixmaps : Left(i)[q].addr = a => q = p
      <4>1. a \in memory /\ a # None
        BY <1>2, <3>2, ImageAssumption
      <4>2. PICK p \in Pixmaps : /\ pixmap[p].own /\ pixmap[p].addr = a
                                 /\ \A q \in Pixmaps : pixmap[q].addr = a => q = p
        BY <1>2, <4>1 DEF OwnedIn
      <4>3. p # old
        BY <3>2, <4>2
      <4>4. QED
        BY <3>1, <3>3, <4>1, <4>2, <4>3
    <3>5. ASSUME NEW p \in Pixmaps
          PROVE  IF ~Left(i)[p].alive THEN ~Left(i)[p].own /\ Left(i)[p].addr = None
                 ELSE IF Left(i)[p].own THEN Left(i)[p].addr \in Released(i)
                 ELSE Left(i)[p].addr \in Driver
      <4>1. CASE p = old
        BY <3>1, <3>3, <4>1
      <4>2. CASE p # old /\ pixmap[p].alive /\ pixmap[p].own
        <5>1. pixmap[p].addr \in memory
          BY <1>2, <4>2 DEF OwnedIn
        <5>2. pixmap[old].own => pixmap[p].addr # pixmap[old].addr
          <6>1. pixmap[old].own => pixmap[old].addr \in memory
            BY <1>2, <2>1, <2>4 DEF OwnedIn
          <6>2. QED
            BY <1>2, <2>1, <4>2, <6>1 DEF OwnedIn
        <5>3. QED
          BY <3>1, <3>2, <4>2, <5>1, <5>2
      <4>3. CASE p # old /\ ~(pixmap[p].alive /\ pixmap[p].own)
        BY <1>2, <3>1, <4>3 DEF OwnedIn
      <4>4. QED
        BY <4>1, <4>2, <4>3
    <3>6. QED
      BY <3>2, <3>4, <3>5 DEF OwnedIn
  <2>7. QED
    BY <2>5, <2>6
<1>5. QED
  BY <1>3, <1>4

(* The pixmaps of the other images stay as they are. *)
LEMMA LeftForOthers ==
    ASSUME IInv, NEW i \in Images, NEW j \in Images, j # i, image[j].pix # None
    PROVE  LET q == image[j].pix IN
           /\ q \in Pixmaps /\ Left(i)[q].alive
           /\ Left(i)[q].w = pixmap[q].w /\ Left(i)[q].h = pixmap[q].h
           /\ Left(i)[q].addr = pixmap[q].addr
<1>1. image \in [Images -> ImageType] /\ pixmap \in [Pixmaps -> PixmapType]
  BY Types
<1>2. image[j].pix \in Pixmaps
  BY <1>1 DEF ImageType
<1>3. pixmap[image[j].pix].alive
  BY <1>2 DEF IInv, RegisteredIn, PointTo
<1>4. CASE image[i].pix = None
  BY <1>2, <1>3, <1>4 DEF Left
<1>5. CASE image[i].pix # None
  <2> DEFINE old == image[i].pix
             rest == Without(pixmap[old], i)
  <2>1. /\ old \in Pixmaps
        /\ Left(i) = [pixmap EXCEPT ![old] =
                        IF PointTo(image, old) \ {i} # {} THEN rest ELSE Deleted]
        /\ SameButUsers(rest, pixmap[old])
    BY <1>5, LeftIs
  <2>2. /\ rest.alive = pixmap[old].alive /\ rest.w = pixmap[old].w
        /\ rest.h = pixmap[old].h /\ rest.addr = pixmap[old].addr
    BY <2>1 DEF SameButUsers
  <2> HIDE DEF rest
  <2>3. image[j].pix = old => PointTo(image, old) \ {i} # {}
    BY DEF PointTo
  <2>4. QED
    BY <1>1, <1>2, <1>3, <2>1, <2>2, <2>3
<1>6. QED
  BY <1>4, <1>5
-----------------------------------------------------------------------------
(* Joining a pixmap, and making one *)

(* Joining a live pixmap: XVList::append *)
LEMMA JoinIs ==
    ASSUME NEW old \in PixmapType, NEW i \in Images, NEW new, new = With(old, i)
    PROVE  /\ SameButUsers(new, old)
           /\ new.users = old.users \cup {i} /\ new.count = old.count + 1
           /\ new \in PixmapType
<1>1. new = [old EXCEPT !.users = @ \cup {i}, !.count = @ + 1]
  BY DEF With
<1>2. SameButUsers(new, old) /\ new.users = old.users \cup {i} /\ new.count = old.count + 1
  BY <1>1 DEF PixmapType, SameButUsers
<1>3. old.users \cup {i} \in SUBSET Images /\ old.count + 1 \in Nat
  BY DEF PixmapType
<1>4. new \in PixmapType
  BY <1>1, <1>3 DEF PixmapType
<1>5. QED
  BY <1>2, <1>4

(* The members of a pixmap that is made for image i *)
LEMMA NewPixmapIs ==
    ASSUME NEW size \in [w : Nat, h : Nat], NEW a \in Heap \cup Driver,
           NEW own \in BOOLEAN, NEW m \in Masters, NEW i \in Images,
           NEW np, np = With(NewPixmap(size, a, own, m), i)
    PROVE  /\ np.alive /\ np.w = size.w /\ np.h = size.h
           /\ np.users = {i} /\ np.count = 1
           /\ np.addr = a /\ np.own = own
           /\ np \in PixmapType
<1> DEFINE fresh == NewPixmap(size, a, own, m)
<1>1. fresh = [alive |-> TRUE, w |-> size.w, h |-> size.h, users |-> {}, count |-> 0,
               locked |-> 0, master |-> m, addr |-> a, own |-> own]
  BY DEF NewPixmap
<1>2. fresh \in PixmapType
  BY <1>1 DEF PixmapType, Masters
<1>3. np = With(fresh, i)
  OBVIOUS
<1>4. /\ fresh.alive /\ fresh.w = size.w /\ fresh.h = size.h
      /\ fresh.users = {} /\ fresh.count = 0 /\ fresh.addr = a /\ fresh.own = own
  BY <1>1
<1> HIDE DEF fresh
<1>5. /\ SameButUsers(np, fresh) /\ np.users = fresh.users \cup {i}
      /\ np.count = fresh.count + 1 /\ np \in PixmapType
  BY <1>2, <1>3, JoinIs
<1>6. QED
  BY <1>4, <1>5 DEF SameButUsers

(* One image changes its pointer, one pixmap its members *)
Repointed(new, im, i, p) == \A j \in Images : new[j].pix = IF j = i THEN p ELSE im[j].pix
Replaced(after, pm, p)   == \A q \in Pixmaps : q # p => after[q] = pm[q]
MadeFor(np, i)           == np.alive /\ np.users = {i} /\ np.count = 1

(* The list of a new pixmap is the one image it is made for. *)
LEMMA NewRegistered ==
    ASSUME NEW pm, NEW im, NEW new, NEW after, NEW p \in Pixmaps, NEW i \in Images,
           RegisteredIn(pm, im), im[i].pix = None, ~pm[p].alive,
           Repointed(new, im, i, p), Replaced(after, pm, p),
           MadeFor(after[p], i)
    PROVE  RegisteredIn(after, new)
<1>1. PointTo(im, p) = {}
  BY DEF RegisteredIn
<1>2. PointTo(new, p) = {i}
  BY <1>1 DEF PointTo, Repointed
<1>3. \A q \in Pixmaps : q # p => PointTo(new, q) = PointTo(im, q)
  BY ImageAssumption DEF PointTo, Repointed
<1>4. IsFiniteSet({i}) /\ Cardinality({i}) = 1
  BY FS_Singleton
<1>5. QED
  BY <1>2, <1>3, <1>4 DEF RegisteredIn, Replaced, MadeFor

(* It is the only one with its memory, which was free. *)
LEMMA NewOwned ==
    ASSUME NEW pm \in [Pixmaps -> PixmapType], NEW mem, mem \subseteq Heap, OwnedIn(pm, mem),
           NEW p \in Pixmaps, ~pm[p].alive, NEW a \in Heap \ mem, NEW np,
           np.alive, np.own, np.addr = a
    PROVE  OwnedIn([pm EXCEPT ![p] = np], mem \cup {a})
<1> DEFINE now == [pm EXCEPT ![p] = np]
<1>1. now[p] = np /\ \A q \in Pixmaps : q # p => now[q] = pm[q]
  OBVIOUS
<1>2. \A q \in Pixmaps : pm[q].addr # a
  BY ImageAssumption DEF OwnedIn
<1>3. pm[p].addr = None
  BY DEF OwnedIn
<1> HIDE DEF now
<1>4. ASSUME NEW b \in mem \cup {a}
      PROVE  \E q \in Pixmaps : /\ now[q].own /\ now[q].addr = b
                                /\ \A r \in Pixmaps : now[r].addr = b => r = q
  <2>1. CASE b = a
    BY <1>1, <1>2, <2>1
  <2>2. CASE b # a
    <3>1. b \in mem /\ b # None
      BY <2>2, ImageAssumption
    <3>2. PICK q \in Pixmaps : /\ pm[q].own /\ pm[q].addr = b
                               /\ \A r \in Pixmaps : pm[r].addr = b => r = q
      BY <3>1 DEF OwnedIn
    <3>3. q # p
      BY <1>3, <3>1, <3>2
    <3>4. QED
      BY <1>1, <2>2, <3>2, <3>3
  <2>3. QED
    BY <2>1, <2>2
<1>5. \A q \in Pixmaps : IF ~now[q].alive THEN ~now[q].own /\ now[q].addr = None
                         ELSE IF now[q].own THEN now[q].addr \in mem \cup {a}
                         ELSE now[q].addr \in Driver
  BY <1>1 DEF OwnedIn
<1>6. QED
  BY <1>4, <1>5 DEF OwnedIn, now

(* A pixmap may take a driver's buffer when the memory it had is not its   *)
(* own or has been freed.                                                  *)
LEMMA DriverOwned ==
    ASSUME NEW pm \in [Pixmaps -> PixmapType], NEW mem, mem \subseteq Heap, OwnedIn(pm, mem),
           NEW p \in Pixmaps, NEW a \in Driver, NEW np,
           np.alive, ~np.own, np.addr = a
    PROVE  OwnedIn([pm EXCEPT ![p] = np],
                   IF pm[p].own THEN mem \ {pm[p].addr} ELSE mem)
<1> DEFINE now == [pm EXCEPT ![p] = np]
           rest == IF pm[p].own THEN mem \ {pm[p].addr} ELSE mem
<1>1. now[p] = np /\ \A q \in Pixmaps : q # p => now[q] = pm[q]
  OBVIOUS
<1>2. rest \subseteq mem /\ (pm[p].own => pm[p].addr \notin rest)
  OBVIOUS
<1>3. \A q \in Pixmaps : pm[q].own => pm[q].alive /\ pm[q].addr \in mem
  BY DEF OwnedIn
<1>4. \A b \in mem \ rest : pm[p].own /\ b = pm[p].addr
  OBVIOUS
<1> HIDE DEF now, rest
<1>5. ASSUME NEW b \in rest
      PROVE  \E q \in Pixmaps : /\ now[q].own /\ now[q].addr = b
                                /\ \A r \in Pixmaps : now[r].addr = b => r = q
  <2>1. b \in mem /\ b # a
    BY <1>2, ImageAssumption
  <2>2. PICK q \in Pixmaps : /\ pm[q].own /\ pm[q].addr = b
                             /\ \A r \in Pixmaps : pm[r].addr = b => r = q
    BY <2>1 DEF OwnedIn
  <2>3. q # p
    BY <1>2, <2>2
  <2>4. QED
    BY <1>1, <2>1, <2>2, <2>3
<1>6. ASSUME NEW q \in Pixmaps
      PROVE  IF ~now[q].alive THEN ~now[q].own /\ now[q].addr = None
             ELSE IF now[q].own THEN now[q].addr \in rest ELSE now[q].addr \in Driver
  <2>1. CASE q = p
    BY <1>1, <2>1
  <2>2. CASE q # p /\ pm[q].own
    <3>1. pm[q].alive /\ pm[q].addr \in mem
      BY <1>3, <2>2
    <3>2. pm[p].own => pm[q].addr # pm[p].addr
      <4>1. PICK r \in Pixmaps : \A s \in Pixmaps : pm[s].addr = pm[q].addr => s = r
        BY <3>1 DEF OwnedIn
      <4>2. QED
        BY <2>2, <4>1
    <3>3. pm[q].addr \in rest
      BY <1>4, <3>1, <3>2
    <3>4. QED
      BY <1>1, <2>2, <3>1, <3>3
  <2>3. CASE q # p /\ ~pm[q].own
    BY <1>1, <2>3 DEF OwnedIn
  <2>4. QED
    BY <2>1, <2>2, <2>3
<1>7. QED
  BY <1>5, <1>6 DEF OwnedIn, now, rest

(* Its list gets one longer. *)
LEMMA JoinRegistered ==
    ASSUME NEW pm, NEW im, NEW new, NEW after, NEW q \in Pixmaps, NEW i \in Images,
           RegisteredIn(pm, im), im[i].pix = None, pm[q] \in PixmapType, pm[q].alive,
           Repointed(new, im, i, q), Replaced(after, pm, q), after[q] = With(pm[q], i)
    PROVE  RegisteredIn(after, new)
<1>1. PointTo(new, q) = PointTo(im, q) \cup {i} /\ i \notin PointTo(im, q)
  BY ImageAssumption DEF PointTo, Repointed
<1>2. \A p \in Pixmaps : p # q => PointTo(new, p) = PointTo(im, p)
  BY ImageAssumption DEF PointTo, Repointed
<1>3. /\ IsFiniteSet(PointTo(im, q) \cup {i})
      /\ Cardinality(PointTo(im, q) \cup {i}) = Cardinality(PointTo(im, q)) + 1
  BY <1>1, FS_AddElement DEF RegisteredIn
<1>4. /\ after[q].alive = pm[q].alive
      /\ after[q].users = pm[q].users \cup {i} /\ after[q].count = pm[q].count + 1
  <2>1. PICK old \in PixmapType : old = pm[q]
    OBVIOUS
  <2>2. PICK joined : joined = after[q]
    OBVIOUS
  <2>3. joined = With(old, i)
    BY <2>1, <2>2
  <2>4. /\ SameButUsers(joined, old)
        /\ joined.users = old.users \cup {i} /\ joined.count = old.count + 1
    BY <2>3, JoinIs
  <2>5. QED
    BY <2>1, <2>2, <2>4 DEF SameButUsers
<1>5. QED
  BY <1>1, <1>2, <1>3, <1>4 DEF RegisteredIn, Replaced

(* Its memory stays its own. *)
LEMMA SameOwned ==
    ASSUME NEW pm, NEW other, NEW mem, OwnedIn(pm, mem),
           \A p \in Pixmaps : /\ other[p].alive = pm[p].alive
                              /\ other[p].own = pm[p].own /\ other[p].addr = pm[p].addr
    PROVE  OwnedIn(other, mem)
  BY DEF OwnedIn

-----------------------------------------------------------------------------
(* Windows *)

(* The rows of the other images still match, as long as live pixmaps keep  *)
(* their size.                                                             *)
LEMMA OthersRows ==
    ASSUME IInv, NEW i \in Images, NEW j \in Images, j # i, NEW pm,
           \A q \in Pixmaps : Left(i)[q].alive =>
                 pm[q].w = Left(i)[q].w /\ pm[q].h = Left(i)[q].h
    PROVE  RowsIn(pm, image[j])
<1>1. CASE image[j].pix = None
  BY <1>1 DEF RowsIn
<1>2. CASE image[j].pix # None
  <2>1. PICK q \in Pixmaps : q = image[j].pix
    BY <1>2, LeftForOthers
  <2>2. pm[q].w = pixmap[q].w /\ pm[q].h = pixmap[q].h
    BY <1>2, <2>1, LeftForOthers
  <2>3. RowsIn(pixmap, image[j])
    BY DEF IInv
  <2>4. QED
    BY <1>2, <2>1, <2>2, <2>3 DEF RowsIn
<1>3. QED
  BY <1>1, <1>2

(* An image's pixmap is alive and has its size.                            *)
LEMMA PixAlive ==
    ASSUME IInv, NEW i \in Images, image[i].pix # None
    PROVE  /\ image[i].pix \in Pixmaps /\ pixmap[image[i].pix].alive
           /\ pixmap[image[i].pix] \in PixmapType
           /\ Size(i) \in [w : Nat, h : Nat]
           /\ Size(i).w = pixmap[image[i].pix].w /\ Size(i).h = pixmap[image[i].pix].h
<1>1. image \in [Images -> ImageType] /\ pixmap \in [Pixmaps -> PixmapType]
  BY Types
<1>2. image[i].pix \in Pixmaps
  BY <1>1 DEF ImageType
<1>3. pixmap[image[i].pix].alive
  BY <1>2 DEF IInv, RegisteredIn, PointTo
<1>4. pixmap[image[i].pix] \in PixmapType
  BY <1>1, <1>2
<1>5. Size(i) \in [w : Nat, h : Nat]
  BY <1>4 DEF Size, PixmapType
<1>6. QED
  BY <1>2, <1>3, <1>4, <1>5 DEF Size

(* A step that keeps the five facts of IInv *)
LEMMA Kept ==
    ASSUME image' \in [Images -> ImageType], pixmap' \in [Pixmaps -> PixmapType],
           memory' \subseteq Heap, writers' \in Seq(WriterType), misused' \in BOOLEAN,
           RegisteredIn(pixmap', image'), OwnedIn(pixmap', memory'),
           \A j \in Images : RowsIn(pixmap', image'[j]),
           \A j \in Images : image'[j].pix # None => image'[j].alive
    PROVE  IInv'
<1>1. TypeOK'
  BY DEF TypeOK, ImageType, PixmapType, WriterType
<1>2. QED
  BY <1>1 DEF IInv

(* A step of one image that leaves all pixmaps and its pointer alone *)
LEMMA KeptWindow ==
    ASSUME IInv, NEW i \in Images, NEW v \in ImageType,
           image' = [image EXCEPT ![i] = v], v.pix = image[i].pix, RowsIn(pixmap, v),
           v.pix # None => v.alive,
           UNCHANGED <<pixmap, memory, writers, misused>>
    PROVE  IInv'
<1>1. /\ image \in [Images -> ImageType] /\ pixmap \in [Pixmaps -> PixmapType]
      /\ memory \subseteq Heap /\ writers \in Seq(WriterType) /\ misused \in BOOLEAN
  BY Types
<1>2. image' \in [Images -> ImageType]
  BY <1>1
<1>3. \A j \in Images : image'[j].pix = image[j].pix
  BY <1>1
<1>4. RegisteredIn(pixmap, image) /\ OwnedIn(pixmap, memory)
  BY DEF IInv
<1>5. RegisteredIn(pixmap, image')
  <2>1. PICK new : new = image'
    OBVIOUS
  <2>2. RegisteredIn(pixmap, new)
    BY ONLY <1>3, <1>4, <2>1, SamePointers
  <2>3. QED
    BY <2>1, <2>2
<1>6. \A j \in Images : RowsIn(pixmap, image[j])
  BY DEF IInv
<1>7. \A j \in Images : RowsIn(pixmap, image'[j])
  BY <1>1, <1>6
<1>8. \A j \in Images : image'[j].pix # None => image'[j].alive
  BY <1>1 DEF IInv
<1>9. QED
  BY <1>1, <1>2, <1>4, <1>5, <1>7, <1>8, Kept

(* A step of one image to a pixmap made for it, at the origin or where it  *)
(* was                                                                     *)
LEMMA KeptMoved ==
    ASSUME IInv, NEW i \in Images, NEW v \in ImageType, NEW p \in Pixmaps, NEW np \in PixmapType,
           image' = [image EXCEPT ![i] = v], v.pix = p, v.alive,
           ~Left(i)[p].alive, pixmap' = [Left(i) EXCEPT ![p] = np],
           np.alive, np.users = {i}, np.count = 1,
           v.w + v.skip = np.w,
           memory' \subseteq Heap, OwnedIn(pixmap', memory'),
           writers' \in Seq(WriterType), misused' \in BOOLEAN
    PROVE  IInv'
<1>1. image \in [Images -> ImageType] /\ Left(i) \in [Pixmaps -> PixmapType]
  BY Types, LeftType
<1>2. image' \in [Images -> ImageType] /\ pixmap' \in [Pixmaps -> PixmapType]
  BY <1>1
<1>3. RegisteredIn(Left(i), Without_i(i))
  BY LeftRegistered
<1>4. \A j \in Images : Without_i(i)[j].pix = IF j = i THEN None ELSE image[j].pix
  BY <1>1 DEF Without_i, Apart, ImageType
<1>5. \A j \in Images : image'[j].pix = IF j = i THEN p ELSE Without_i(i)[j].pix
  BY <1>1, <1>4
<1>6. Without_i(i)[i].pix = None
  BY <1>4
<1>7. RegisteredIn(pixmap', image')
  <2>1. PICK pm \in [Pixmaps -> PixmapType] : pm = Left(i)
    BY <1>1
  <2>2. PICK im : im = Without_i(i)
    OBVIOUS
  <2>3. PICK new : new = image'
    OBVIOUS
  <2>4. RegisteredIn(pm, im) /\ im[i].pix = None /\ ~pm[p].alive
        /\ i \in Images /\ p \in Pixmaps /\ pm \in [Pixmaps -> PixmapType]
    BY <1>3, <1>6, <2>1, <2>2
  <2>5. PICK after : after = pixmap'
    OBVIOUS
  <2>6. Repointed(new, im, i, p)
    BY <1>5, <2>2, <2>3 DEF Repointed
  <2>7. Replaced(after, pm, p) /\ MadeFor(after[p], i)
    BY <1>1, <2>1, <2>5 DEF Replaced, MadeFor
  <2>8. RegisteredIn(after, new)
    BY ONLY <2>4, <2>6, <2>7, NewRegistered
  <2>9. QED
    BY <2>3, <2>5, <2>8
<1>8. \A q \in Pixmaps : Left(i)[q].alive =>
          pixmap'[q].w = Left(i)[q].w /\ pixmap'[q].h = Left(i)[q].h
  BY <1>1
<1>9. ASSUME NEW j \in Images
      PROVE  RowsIn(pixmap', image'[j])
  <2>1. CASE j = i
    BY <1>1, <2>1 DEF RowsIn
  <2>2. CASE j # i
    <3>1. RowsIn(pixmap', image[j])
      BY <1>8, <2>2, OthersRows
    <3>2. QED
      BY <1>1, <2>2, <3>1
  <2>3. QED
    BY <2>1, <2>2
<1>10. \A j \in Images : image'[j].pix # None => image'[j].alive
  BY <1>1 DEF IInv
<1>11. QED
  BY <1>2, <1>7, <1>9, <1>10, Kept

(* A step of one image to the pixmap of another one *)
LEMMA KeptJoined ==
    ASSUME IInv, NEW i \in Images, NEW k \in Images, i # k, image[k].pix # None,
           image' = [image EXCEPT ![i] = image[k]],
           pixmap' = [Left(i) EXCEPT ![image[k].pix] = With(@, i)],
           memory' = Released(i), writers' \in Seq(WriterType), misused' \in BOOLEAN
    PROVE  IInv'
<1>1. image \in [Images -> ImageType] /\ Left(i) \in [Pixmaps -> PixmapType] /\ memory \subseteq Heap
  BY Types, LeftType
<1>2. PICK q \in Pixmaps :
         /\ q = image[k].pix /\ Left(i)[q].alive
         /\ Left(i)[q].w = pixmap[q].w /\ Left(i)[q].h = pixmap[q].h
  BY LeftForOthers
<1>3. PICK joined : joined = With(Left(i)[q], i)
  OBVIOUS
<1>4. pixmap' = [Left(i) EXCEPT ![q] = joined]
  BY <1>2, <1>3
<1>5. SameButUsers(joined, Left(i)[q]) /\ joined \in PixmapType
  <2>1. Left(i)[q] \in PixmapType
    BY <1>1
  <2>2. QED
    BY <1>3, <2>1, JoinIs
<1>6. image' \in [Images -> ImageType] /\ pixmap' \in [Pixmaps -> PixmapType]
  BY <1>1, <1>4, <1>5
<1>7. \A p \in Pixmaps : SameButUsers(pixmap'[p], Left(i)[p])
  BY <1>1, <1>4, <1>5 DEF SameButUsers
<1>8. RegisteredIn(pixmap', image')
  <2>1. PICK pm : pm = Left(i)
    OBVIOUS
  <2>2. PICK im : im = Without_i(i)
    OBVIOUS
  <2>3. PICK new : new = image'
    OBVIOUS
  <2>4. PICK after : after = pixmap'
    OBVIOUS
  <2>5. \A j \in Images : im[j].pix = IF j = i THEN None ELSE image[j].pix
    BY <1>1, <2>2 DEF Without_i, Apart, ImageType
  <2>6. RegisteredIn(pm, im) /\ im[i].pix = None
    BY <2>1, <2>2, <2>5, LeftRegistered
  <2>7. pm[q] \in PixmapType /\ pm[q].alive
    BY <1>1, <1>2, <2>1
  <2>8. Repointed(new, im, i, q)
    BY <1>1, <1>2, <2>3, <2>5 DEF Repointed
  <2>9. Replaced(after, pm, q) /\ after[q] = With(pm[q], i)
    BY <1>1, <1>3, <1>4, <2>1, <2>4 DEF Replaced
  <2>10. RegisteredIn(after, new)
    BY ONLY <2>6, <2>7, <2>8, <2>9, JoinRegistered, q \in Pixmaps, i \in Images
  <2>11. QED
    BY <2>3, <2>4, <2>10
<1>9. OwnedIn(pixmap', memory') /\ memory' \subseteq Heap
  <2>1. OwnedIn(Left(i), memory') /\ memory' \subseteq Heap
    BY <1>1, LeftOwned
  <2>2. QED
    BY <1>7, <2>1 DEF OwnedIn, SameButUsers
<1>10. ASSUME NEW j \in Images
       PROVE  RowsIn(pixmap', image'[j])
  <2>1. CASE j = i
    <3>1. image'[j] = image[k] /\ RowsIn(pixmap, image[k])
      BY <1>1, <2>1 DEF IInv
    <3>2. pixmap'[q].w = pixmap[q].w /\ pixmap'[q].h = pixmap[q].h
      BY <1>2, <1>7 DEF SameButUsers
    <3>3. QED
      BY <1>2, <3>1, <3>2 DEF RowsIn
  <2>2. CASE j # i
    <3>1. \A p \in Pixmaps : Left(i)[p].alive =>
             pixmap'[p].w = Left(i)[p].w /\ pixmap'[p].h = Left(i)[p].h
      BY <1>7 DEF SameButUsers
    <3>2. RowsIn(pixmap', image[j])
      BY <2>2, <3>1, OthersRows
    <3>3. QED
      BY <1>1, <2>2, <3>2
  <2>3. QED
    BY <2>1, <2>2
<1>11. \A j \in Images : image'[j].pix # None => image'[j].alive
  BY <1>1 DEF IInv
<1>12. QED
  BY <1>6, <1>8, <1>9, <1>10, <1>11, Kept

(* A step that locks or unlocks *)
LEMMA KeptLocks ==
    ASSUME IInv, UNCHANGED <<image, memory>>,
           writers' \in Seq(WriterType), misused' \in BOOLEAN,
           pixmap' \in [Pixmaps -> PixmapType],
           \A p \in Pixmaps :
              /\ pixmap'[p].alive = pixmap[p].alive
              /\ pixmap'[p].w = pixmap[p].w /\ pixmap'[p].h = pixmap[p].h
              /\ pixmap'[p].users = pixmap[p].users /\ pixmap'[p].count = pixmap[p].count
              /\ pixmap'[p].addr = pixmap[p].addr /\ pixmap'[p].own = pixmap[p].own
    PROVE  IInv'
<1>1. image \in [Images -> ImageType] /\ memory \subseteq Heap
  BY Types
<1>2. RegisteredIn(pixmap', image)
  BY DEF IInv, RegisteredIn
<1>3. OwnedIn(pixmap', memory)
  BY DEF IInv, OwnedIn
<1>4. ASSUME NEW j \in Images
      PROVE  RowsIn(pixmap', image[j])
  <2>1. RowsIn(pixmap, image[j])
    BY DEF IInv
  <2>2. image[j].pix = None \/ image[j].pix \in Pixmaps
    BY <1>1 DEF ImageType
  <2>3. QED
    BY <2>1, <2>2 DEF RowsIn
<1>5. \A j \in Images : image[j].pix # None => image[j].alive
  BY DEF IInv
<1>6. QED
  BY <1>1, <1>2, <1>3, <1>4, <1>5, Kept
-----------------------------------------------------------------------------
(* The operations *)

LEMMA ConstructEmptyOK == ASSUME IInv, NEW i \in Images, ConstructEmpty(i) PROVE IInv'
<1>1. [Gone EXCEPT !.alive = TRUE] \in ImageType /\ [Gone EXCEPT !.alive = TRUE].pix = None
  <2>1. Gone \in ImageType /\ Gone.pix = None
    BY DEF Gone, ImageType
  <2>2. PICK g : g = Gone
    OBVIOUS
  <2>3. [g EXCEPT !.alive = TRUE] \in ImageType /\ [g EXCEPT !.alive = TRUE].pix = None
    BY <2>1, <2>2 DEF ImageType
  <2>4. QED
    BY <2>2, <2>3
<1>2. PICK v \in ImageType : v = [Gone EXCEPT !.alive = TRUE] /\ v.pix = None
  BY <1>1
<1>3. image[i].pix = None
  BY DEF ConstructEmpty, IInv
<1>4. RowsIn(pixmap, v)
  BY <1>2 DEF RowsIn
<1>5. QED
  BY <1>2, <1>3, <1>4, KeptWindow DEF ConstructEmpty

(* Where an image without a pixmap leaves from, nothing changes.           *)
LEMMA NothingLeft ==
    ASSUME NEW i \in Images, image[i].pix = None
    PROVE  Left(i) = pixmap /\ Released(i) = memory
  BY DEF Left, Released

(* A pixmap is allocated for an image: construction and resize *)
LEMMA Allocated ==
    ASSUME IInv, NEW i \in Images, NEW size \in [w : Nat, h : Nat], NEW p \in Pixmaps,
           NEW a \in Heap \ Released(i), NEW m \in Masters, NEW win \in Int, ~Left(i)[p].alive,
           pixmap' = [Left(i) EXCEPT ![p] = With(NewPixmap(size, a, TRUE, m), i)],
           memory' = Released(i) \cup {a},
           image' = [image EXCEPT ![i] =
                       [alive |-> TRUE, pix |-> p, x |-> 0, y |-> 0, w |-> size.w,
                        h |-> size.h, skip |-> 0, win |-> win]],
           UNCHANGED writers, misused' \in BOOLEAN
    PROVE  IInv'
<1>1. PICK v \in ImageType :
         v = [alive |-> TRUE, pix |-> p, x |-> 0, y |-> 0, w |-> size.w,
              h |-> size.h, skip |-> 0, win |-> win]
  <2>1. size.w \in Nat /\ size.h \in Nat
    OBVIOUS
  <2>2. PICK v :
           v = [alive |-> TRUE, pix |-> p, x |-> 0, y |-> 0, w |-> size.w,
                h |-> size.h, skip |-> 0, win |-> win]
    OBVIOUS
  <2>3. v \in ImageType
    BY <2>1, <2>2 DEF ImageType
  <2>4. QED
    BY <2>2, <2>3
<1>2. PICK np : np = With(NewPixmap(size, a, TRUE, m), i)
  OBVIOUS
<1>3. /\ np.alive /\ np.w = size.w /\ np.h = size.h /\ np.users = {i} /\ np.count = 1
      /\ np.addr = a /\ np.own /\ np \in PixmapType
  <2>1. PICK own \in BOOLEAN : own = TRUE
    OBVIOUS
  <2>2. /\ np.alive /\ np.w = size.w /\ np.h = size.h /\ np.users = {i} /\ np.count = 1
        /\ np.addr = a /\ np.own = own /\ np \in PixmapType
    <3>1. np = With(NewPixmap(size, a, own, m), i)
      BY <1>2, <2>1
    <3>2. a \in Heap \cup Driver
      OBVIOUS
    <3>3. QED
      BY <3>1, <3>2, NewPixmapIs
  <2>3. QED
    BY <2>1, <2>2
<1>4. v.alive /\ v.pix = p /\ v.x = 0 /\ v.y = 0 /\ v.w = size.w /\ v.h = size.h /\ v.skip = 0
  BY <1>1
<1>5. size.w \in Nat /\ size.h \in Nat
  OBVIOUS
<1>6. image' = [image EXCEPT ![i] = v] /\ pixmap' = [Left(i) EXCEPT ![p] = np]
  BY <1>1, <1>2
<1>7. /\ Left(i) \in [Pixmaps -> PixmapType] /\ Released(i) \subseteq Heap
      /\ OwnedIn(Left(i), Released(i)) /\ writers' \in Seq(WriterType)
  BY Types, LeftType, LeftOwned
<1>8. OwnedIn(pixmap', memory')
  <2>1. PICK pm \in [Pixmaps -> PixmapType] : pm = Left(i)
    BY <1>7
  <2>2. PICK mem : mem = Released(i)
    OBVIOUS
  <2>3. mem \subseteq Heap /\ OwnedIn(pm, mem) /\ ~pm[p].alive /\ a \in Heap \ mem
    BY <1>7, <2>1, <2>2
  <2>4. OwnedIn([pm EXCEPT ![p] = np], mem \cup {a})
    BY <1>3, <2>3, NewOwned
  <2>5. QED
    BY <1>6, <2>1, <2>2, <2>4
<1>9. memory' \subseteq Heap
  BY <1>7
<1>10. v.w + v.skip = np.w
  BY <1>3, <1>4, <1>5
<1>11. QED
  BY <1>3, <1>4, <1>6, <1>7, <1>8, <1>9, <1>10, KeptMoved

LEMMA ConstructOK == ASSUME IInv, NEW i \in Images, Construct(i) PROVE IInv'
<1>1. PICK size \in Sizes, p \in Pixmaps, a \in Heap \ memory, m \in Masters :
        /\ ~pixmap[p].alive
        /\ pixmap' = [pixmap EXCEPT ![p] = With(NewPixmap(size, a, TRUE, m), i)]
        /\ memory' = memory \cup {a}
        /\ image' = [image EXCEPT ![i] = [alive |-> TRUE, pix |-> p, x |-> 0, y |-> 0,
                                          w |-> size.w, h |-> size.h, skip |-> 0, win |-> 0]]
  BY DEF Construct
<1>2. image[i].pix = None
  BY DEF Construct, IInv
<1>3. Left(i) = pixmap /\ Released(i) = memory
  BY <1>2, NothingLeft
<1>4. size \in [w : Nat, h : Nat]
  BY ImageAssumption
<1>5. UNCHANGED writers /\ misused' \in BOOLEAN
  BY Types DEF Construct
<1>6. PICK win \in Int : win = 0
  OBVIOUS
<1>7. image' = [image EXCEPT ![i] = [alive |-> TRUE, pix |-> p, x |-> 0, y |-> 0,
                                     w |-> size.w, h |-> size.h, skip |-> 0, win |-> win]]
  BY <1>1, <1>6
<1>8. /\ ~Left(i)[p].alive /\ a \in Heap \ Released(i)
      /\ pixmap' = [Left(i) EXCEPT ![p] = With(NewPixmap(size, a, TRUE, m), i)]
      /\ memory' = Released(i) \cup {a}
  BY <1>1, <1>3
<1>9. QED
  BY <1>4, <1>5, <1>7, <1>8, Allocated

(* The history is a Boolean. *)
LEMMA MovesType == ASSUME IInv, NEW i \in Images, Moves(i) PROVE misused' \in BOOLEAN
  BY Types DEF Moves, Writing

LEMMA GrowOK == ASSUME IInv, NEW i \in Images, Grow(i) PROVE IInv'
<1>1. PICK size \in Sizes, p \in Pixmaps, a \in Heap \ Released(i), m \in Masters :
        /\ ~Left(i)[p].alive
        /\ pixmap' = [Left(i) EXCEPT ![p] = With(NewPixmap(size, a, TRUE, m), i)]
        /\ memory' = Released(i) \cup {a}
        /\ image' = [image EXCEPT ![i] =
                       [alive |-> TRUE, pix |-> p, x |-> 0, y |-> 0, w |-> size.w,
                        h |-> size.h, skip |-> 0, win |-> GrownWindow(i, size)]]
  BY DEF Grow
<1>2. size \in [w : Nat, h : Nat]
  BY ImageAssumption
<1>3. GrownWindow(i, size) \in Int
  <2>1. image[i].x \in Int /\ image[i].y \in Int /\ size.w \in Nat
    BY <1>2, Types DEF ImageType
  <2>2. QED
    BY <2>1 DEF GrownWindow, At
<1>4. PICK win \in Int : win = GrownWindow(i, size)
  BY <1>3
<1>5. UNCHANGED writers /\ misused' \in BOOLEAN
  BY MovesType DEF Grow
<1>6. image' = [image EXCEPT ![i] = [alive |-> TRUE, pix |-> p, x |-> 0, y |-> 0,
                                     w |-> size.w, h |-> size.h, skip |-> 0, win |-> win]]
  BY <1>1, <1>4
<1>7. QED
  BY <1>1, <1>2, <1>5, <1>6, Allocated

LEMMA CopyConstructOK == ASSUME IInv, NEW i \in Images, CopyConstruct(i) PROVE IInv'
<1>1. PICK k \in Images :
        /\ image[k].alive /\ image' = [image EXCEPT ![i] = image[k]]
        /\ pixmap' = IF image[k].pix = None THEN pixmap
                     ELSE [pixmap EXCEPT ![image[k].pix] = With(@, i)]
  BY DEF CopyConstruct
<1>2. image[i].pix = None /\ i # k /\ UNCHANGED <<memory, writers, misused>>
  BY <1>1 DEF CopyConstruct, IInv
<1>3. CASE image[k].pix = None
  <2>1. PICK v \in ImageType : v = image[k]
    BY Types
  <2>2. RowsIn(pixmap, v)
    BY <1>3, <2>1 DEF RowsIn
  <2>3. UNCHANGED pixmap /\ image' = [image EXCEPT ![i] = v] /\ v.pix = None
    BY <1>1, <1>3, <2>1
  <2>4. QED
    BY <1>2, <2>2, <2>3, KeptWindow
<1>4. CASE image[k].pix # None
  <2>1. Left(i) = pixmap /\ Released(i) = memory
    BY <1>2, NothingLeft
  <2>2. writers' \in Seq(WriterType) /\ misused' \in BOOLEAN
    BY <1>2, Types
  <2>3. QED
    BY <1>1, <1>2, <1>4, <2>1, <2>2, KeptJoined
<1>5. QED
  BY <1>3, <1>4

LEMMA AssignOK == ASSUME IInv, NEW i \in Images, Assign(i) PROVE IInv'
<1>1. PICK k \in Images :
        /\ image[k].pix # None /\ image' = [image EXCEPT ![i] = image[k]]
        /\ IF image[i].pix = image[k].pix
           THEN UNCHANGED <<pixmap, memory, misused>>
           ELSE /\ pixmap' = [Left(i) EXCEPT ![image[k].pix] = With(@, i)]
                /\ memory' = Released(i)
                /\ Moves(i)
        /\ UNCHANGED writers
  BY DEF Assign
<1>2. CASE image[i].pix = image[k].pix
  <2>1. PICK v \in ImageType : v = image[k]
    BY Types
  <2>2. RowsIn(pixmap, v) /\ v.alive
    BY <1>1, <2>1 DEF IInv
  <2>3. image' = [image EXCEPT ![i] = v] /\ v.pix = image[i].pix
    BY <1>1, <1>2, <2>1
  <2>4. UNCHANGED <<pixmap, memory, writers, misused>>
    BY <1>1, <1>2
  <2>5. QED
    BY <2>2, <2>3, <2>4, KeptWindow
<1>3. CASE image[i].pix # image[k].pix
  <2>1. writers' \in Seq(WriterType) /\ misused' \in BOOLEAN
    BY <1>1, <1>3, Types, MovesType
  <2>2. QED
    BY <1>1, <1>3, <2>1, KeptJoined
<1>4. QED
  BY <1>2, <1>3

LEMMA DestroyOK == ASSUME IInv, NEW i \in Images, Destroy(i) PROVE IInv'
<1>1. /\ image' = [image EXCEPT ![i] = Gone] /\ pixmap' = Left(i) /\ memory' = Released(i)
      /\ UNCHANGED <<writers, misused>>
  BY DEF Destroy
<1>2. Gone \in ImageType /\ Gone.pix = None
  BY DEF Gone, ImageType
<1>3. /\ image \in [Images -> ImageType] /\ memory \subseteq Heap
      /\ writers \in Seq(WriterType) /\ misused \in BOOLEAN
  BY Types
<1>4. image' \in [Images -> ImageType] /\ pixmap' \in [Pixmaps -> PixmapType]
  BY <1>1, <1>2, <1>3, LeftType
<1>5. RegisteredIn(pixmap', image')
  <2>1. PICK pm : pm = Left(i)
    OBVIOUS
  <2>2. PICK im : im = Without_i(i)
    OBVIOUS
  <2>3. PICK new : new = image'
    OBVIOUS
  <2>4. \A j \in Images : new[j].pix = im[j].pix
    BY <1>1, <1>2, <1>3, <2>2, <2>3 DEF Without_i, Apart, ImageType
  <2>5. RegisteredIn(pm, im)
    BY <2>1, <2>2, LeftRegistered
  <2>6. RegisteredIn(pm, new)
    BY ONLY <2>4, <2>5, SamePointers
  <2>7. QED
    BY <1>1, <2>1, <2>3, <2>6
<1>6. OwnedIn(pixmap', memory') /\ memory' \subseteq Heap
  BY <1>1, <1>3, LeftOwned
<1>7. ASSUME NEW j \in Images
      PROVE  RowsIn(pixmap', image'[j])
  <2>1. CASE j = i
    BY <1>1, <1>2, <1>3, <2>1 DEF RowsIn
  <2>2. CASE j # i
    <3>1. RowsIn(pixmap', image[j])
      BY <1>1, <2>2, OthersRows
    <3>2. QED
      BY <1>1, <1>3, <2>2, <3>1
  <2>3. QED
    BY <2>1, <2>2
<1>8. \A j \in Images : image'[j].pix # None => image'[j].alive
  BY <1>1, <1>2, <1>3 DEF IInv
<1>9. QED
  BY <1>1, <1>3, <1>4, <1>5, <1>6, <1>7, <1>8, Kept

LEMMA SetSubImageOK == ASSUME IInv, NEW i \in Images, SetSubImage(i) PROVE IInv'
<1>1. /\ image[i].pix # None /\ UNCHANGED <<pixmap, memory, writers, misused>>
  BY DEF SetSubImage
<1>2. PICK size \in Sizes, x \in Offsets, y \in Offsets :
        image' = [image EXCEPT ![i] =
                     [@ EXCEPT !.x = x, !.y = y, !.w = size.w, !.h = size.h,
                               !.skip = Size(i).w - size.w, !.win = At(x, y, Size(i).w)]]
  BY DEF SetSubImage, LineSkip, WindowAt
<1>3. PICK u \in ImageType : u = image[i]
  BY Types
<1>4. PICK q \in Pixmaps : q = image[i].pix
  BY <1>1, PixAlive
<1>5. PICK W \in Nat, H \in Nat : /\ W = Size(i).w /\ H = Size(i).h
                                  /\ W = pixmap[q].w /\ H = pixmap[q].h
  BY <1>1, <1>4, PixAlive
<1>6. size.w \in Nat /\ size.h \in Nat /\ x \in Int /\ y \in Int
  BY <1>2, <1>5, ImageAssumption
<1>7. At(x, y, W) \in Int /\ W - size.w \in Int
  BY <1>6 DEF At
<1>8. PICK v : v = [u EXCEPT !.x = x, !.y = y, !.w = size.w, !.h = size.h,
                             !.skip = W - size.w, !.win = At(x, y, W)]
  OBVIOUS
<1>9. /\ v \in ImageType /\ v.pix = u.pix /\ v.alive = u.alive /\ v.x = x /\ v.y = y
      /\ v.w = size.w /\ v.h = size.h /\ v.skip = W - size.w
  BY <1>6, <1>7, <1>8 DEF ImageType
<1>10. image' = [image EXCEPT ![i] = v]
  BY <1>2, <1>3, <1>5, <1>8
<1>11. RowsIn(pixmap, v)
  BY <1>3, <1>4, <1>5, <1>6, <1>9 DEF RowsIn
<1>12. v.pix = image[i].pix /\ (v.pix # None => v.alive)
  BY <1>3, <1>9 DEF IInv
<1>13. QED
  BY <1>1, <1>9, <1>10, <1>11, <1>12, KeptWindow

LEMMA RepositionOK == ASSUME IInv, NEW i \in Images, Reposition(i) PROVE IInv'
<1>1. /\ image[i].pix # None /\ UNCHANGED <<pixmap, memory, writers, misused>>
  BY DEF Reposition
<1>2. PICK x \in Offsets, y \in Offsets :
        image' = [image EXCEPT ![i].x = x, ![i].y = y, ![i].win = At(x, y, Size(i).w)]
  BY DEF Reposition, WindowAt
<1>3. PICK u \in ImageType : u = image[i]
  BY Types
<1>4. PICK q \in Pixmaps : q = image[i].pix
  BY <1>1, PixAlive
<1>5. PICK W \in Nat, H \in Nat : /\ W = Size(i).w /\ H = Size(i).h
                                  /\ W = pixmap[q].w /\ H = pixmap[q].h
  BY <1>1, <1>4, PixAlive
<1>6. u.w \in Nat /\ u.h \in Nat /\ x \in Int /\ y \in Int
  BY <1>2, <1>3, ImageAssumption DEF ImageType
<1>7. At(x, y, W) \in Int
  BY <1>6 DEF At
<1>8. PICK v : v = [u EXCEPT !.x = x, !.y = y, !.win = At(x, y, W)]
  OBVIOUS
<1>9. /\ v \in ImageType /\ v.pix = u.pix /\ v.alive = u.alive /\ v.x = x /\ v.y = y
      /\ v.w = u.w /\ v.h = u.h /\ v.skip = u.skip
  BY <1>6, <1>7, <1>8 DEF ImageType
<1>10. image' = [image EXCEPT ![i] = v]
  BY <1>2, <1>3, <1>5, <1>8, Types
<1>11. RowsIn(pixmap, u)
  BY <1>3 DEF IInv
<1>12. RowsIn(pixmap, v)
  BY <1>1, <1>3, <1>4, <1>5, <1>6, <1>9, <1>11 DEF RowsIn
<1>13. v.pix = image[i].pix /\ (v.pix # None => v.alive)
  BY <1>3, <1>9 DEF IInv
<1>14. QED
  BY <1>1, <1>9, <1>10, <1>12, <1>13, KeptWindow

LEMMA ShrinkOK == ASSUME IInv, NEW i \in Images, Shrink(i) PROVE IInv'
<1>1. /\ image[i].pix # None /\ UNCHANGED <<pixmap, memory, writers, misused>>
  BY DEF Shrink
<1>2. PICK size \in Sizes :
        /\ FitsAt(i, size)
        /\ image' = IF size = [w |-> image[i].w, h |-> image[i].h] THEN image
                    ELSE [image EXCEPT ![i].w = size.w, ![i].h = size.h,
                                       ![i].skip = Size(i).w - size.w]
  BY DEF Shrink, LineSkip
<1>3. PICK u \in ImageType : u = image[i]
  BY Types
<1>4. PICK q \in Pixmaps : q = image[i].pix
  BY <1>1, PixAlive
<1>5. PICK W \in Nat, H \in Nat : /\ W = Size(i).w /\ H = Size(i).h
                                  /\ W = pixmap[q].w /\ H = pixmap[q].h
  BY <1>1, <1>4, PixAlive
<1>6. size.w \in Nat /\ size.h \in Nat /\ W - size.w \in Int
  BY <1>2, <1>5, ImageAssumption
<1>7. RowsIn(pixmap, u)
  BY <1>3 DEF IInv
<1>8. u.pix = image[i].pix /\ (u.pix # None => u.alive)
  BY <1>3 DEF IInv
<1>9. CASE image' = image
  <2>1. image' = [image EXCEPT ![i] = u]
    BY <1>3, <1>9, Types
  <2>2. QED
    BY <1>1, <1>7, <1>8, <2>1, KeptWindow
<1>10. CASE image' = [image EXCEPT ![i].w = size.w, ![i].h = size.h,
                                   ![i].skip = Size(i).w - size.w]
  <2>1. PICK v : v = [u EXCEPT !.w = size.w, !.h = size.h, !.skip = W - size.w]
    OBVIOUS
  <2>2. /\ v \in ImageType /\ v.pix = u.pix /\ v.alive = u.alive /\ v.x = u.x /\ v.y = u.y
        /\ v.w = size.w /\ v.h = size.h /\ v.skip = W - size.w
    BY <1>6, <2>1 DEF ImageType
  <2>3. image' = [image EXCEPT ![i] = v]
    BY <1>3, <1>5, <1>10, <2>1, Types
  <2>4. RowsIn(pixmap, v)
    BY <1>3, <1>4, <1>5, <1>6, <2>2 DEF RowsIn
  <2>5. QED
    BY <1>1, <1>8, <2>2, <2>3, <2>4, KeptWindow
<1>11. QED
  BY <1>2, <1>9, <1>10

LEMMA RemapAloneOK == ASSUME IInv, NEW i \in Images, RemapAlone(i) PROVE IInv'
<1>1. /\ image[i].pix # None /\ memory' = Released(i)
      /\ image' = [image EXCEPT ![i].win = RemappedWindow(i)]
      /\ UNCHANGED <<writers, misused>>
  BY DEF RemapAlone
<1>2. PICK a \in Driver :
        pixmap' = [pixmap EXCEPT ![image[i].pix].addr = a, ![image[i].pix].own = FALSE]
  BY DEF RemapAlone
<1>3. /\ image \in [Images -> ImageType] /\ pixmap \in [Pixmaps -> PixmapType]
      /\ memory \subseteq Heap /\ writers \in Seq(WriterType) /\ misused \in BOOLEAN
  BY Types
<1>4. PICK q \in Pixmaps : /\ q = image[i].pix /\ pixmap[q].alive
                           /\ pixmap[q].h = Size(i).h /\ pixmap[q].count = 1
  BY <1>1, PixAlive DEF RemapAlone, Alone
<1>5. PICK old \in PixmapType : old = pixmap[q]
  BY <1>3
<1>6. PICK np : np = [old EXCEPT !.addr = a, !.own = FALSE]
  OBVIOUS
<1>7. /\ np.alive = old.alive /\ np.w = old.w /\ np.h = old.h
      /\ np.users = old.users /\ np.count = old.count
      /\ np.addr = a /\ ~np.own /\ np \in PixmapType
  BY <1>6 DEF PixmapType
<1>8. pixmap' = [pixmap EXCEPT ![q] = np]
  BY <1>2, <1>3, <1>4, <1>5, <1>6
<1>9. Released(i) = IF pixmap[q].own THEN memory \ {pixmap[q].addr} ELSE memory
  <2>1. PICK rest : rest = Without(pixmap[q], i)
    OBVIOUS
  <2>2. /\ rest.users = PointTo(image, q) \ {i} /\ (rest.count = 0 <=> rest.users = {})
    BY <1>1, <1>4, <2>1, LeftIs
  <2>3. PointTo(image, q) = {i}
    <3>1. /\ IsFiniteSet(PointTo(image, q)) /\ Cardinality(PointTo(image, q)) = 1
          /\ i \in PointTo(image, q)
      BY <1>4 DEF IInv, RegisteredIn, PointTo
    <3>2. IsFiniteSet(PointTo(image, q) \ {i}) /\ Cardinality(PointTo(image, q) \ {i}) = 0
      BY <3>1, FS_RemoveElement
    <3>3. PointTo(image, q) \ {i} = {}
      BY <3>2, FS_EmptySet
    <3>4. QED
      BY <3>1, <3>3
  <2>4. QED
    BY <1>1, <1>4, <2>1, <2>2, <2>3 DEF Released
<1>10. OwnedIn(pixmap', memory')
  <2>1. PICK pm \in [Pixmaps -> PixmapType] : pm = pixmap
    BY <1>3
  <2>2. PICK mem : mem = memory
    OBVIOUS
  <2>3. mem \subseteq Heap /\ OwnedIn(pm, mem) /\ np.alive
    BY <1>3, <1>4, <1>5, <1>7, <2>1, <2>2 DEF IInv
  <2>4. OwnedIn([pm EXCEPT ![q] = np], IF pm[q].own THEN mem \ {pm[q].addr} ELSE mem)
    BY <1>7, <2>3, DriverOwned
  <2>5. QED
    BY <1>1, <1>8, <1>9, <2>1, <2>2, <2>4
<1>11. RemappedWindow(i) \in Int
  <2>1. image[i].x \in Int /\ image[i].y \in Int /\ Size(i).h \in Nat
    BY <1>1, <1>3, PixAlive DEF ImageType
  <2>2. QED
    BY <2>1 DEF RemappedWindow, At
<1>12. PICK u \in ImageType : u = image[i]
  BY <1>3
<1>13. PICK v : v = [u EXCEPT !.win = RemappedWindow(i)]
  OBVIOUS
<1>14. /\ v \in ImageType /\ v.alive = u.alive /\ v.pix = u.pix /\ v.x = u.x /\ v.y = u.y
       /\ v.w = u.w /\ v.h = u.h /\ v.skip = u.skip
  BY <1>11, <1>13 DEF ImageType
<1>15. image' = [image EXCEPT ![i] = v]
  BY <1>1, <1>3, <1>12, <1>13
<1>16. image' \in [Images -> ImageType] /\ pixmap' \in [Pixmaps -> PixmapType]
  BY <1>3, <1>7, <1>8, <1>14, <1>15
<1>17. \A p \in Pixmaps :
          /\ pixmap'[p].w = pixmap[p].w /\ pixmap'[p].h = pixmap[p].h
          /\ pixmap'[p].users = pixmap[p].users /\ pixmap'[p].count = pixmap[p].count
          /\ pixmap'[p].alive = pixmap[p].alive
  BY <1>3, <1>5, <1>7, <1>8
<1>18. \A j \in Images :
          /\ image'[j].pix = image[j].pix /\ image'[j].x = image[j].x /\ image'[j].y = image[j].y
          /\ image'[j].w = image[j].w /\ image'[j].h = image[j].h
          /\ image'[j].skip = image[j].skip /\ image'[j].alive = image[j].alive
  BY <1>3, <1>12, <1>14, <1>15
<1>19. RegisteredIn(pixmap', image')
  <2>1. \A p \in Pixmaps : PointTo(image', p) = PointTo(image, p)
    BY <1>18 DEF PointTo
  <2>2. QED
    BY <1>17, <2>1 DEF IInv, RegisteredIn
<1>20. ASSUME NEW j \in Images
       PROVE  RowsIn(pixmap', image'[j])
  <2>1. image[j].pix = None \/ image[j].pix \in Pixmaps
    BY <1>3 DEF ImageType
  <2>2. RowsIn(pixmap, image[j])
    BY DEF IInv
  <2>3. QED
    BY <1>17, <1>18, <2>1, <2>2 DEF RowsIn
<1>21. \A j \in Images : image'[j].pix # None => image'[j].alive
  BY <1>18 DEF IInv
<1>22. memory' \subseteq Heap /\ writers' \in Seq(WriterType) /\ misused' \in BOOLEAN
  BY <1>1, <1>3, LeftOwned
<1>23. QED
  BY <1>10, <1>16, <1>19, <1>20, <1>21, <1>22, Kept

LEMMA RemapSharedOK == ASSUME IInv, NEW i \in Images, RemapShared(i) PROVE IInv'
<1>1. /\ image[i].pix # None /\ ~Alone(i) /\ Moves(i) /\ UNCHANGED <<memory, writers>>
  BY DEF RemapShared
<1>2. PICK a \in Driver, p \in Pixmaps, m \in Masters :
        /\ ~pixmap[p].alive
        /\ pixmap' = [pixmap EXCEPT ![image[i].pix] = Without(@, i),
                                    ![p] = With(NewPixmap(Size(i), a, FALSE, m), i)]
        /\ image' = [image EXCEPT ![i].pix = p, ![i].win = RemappedWindow(i)]
  BY DEF RemapShared
<1>3. /\ image \in [Images -> ImageType] /\ pixmap \in [Pixmaps -> PixmapType]
      /\ memory \subseteq Heap /\ writers' \in Seq(WriterType) /\ misused' \in BOOLEAN
  BY <1>1, Types, MovesType
<1>4. PICK q \in Pixmaps : q = image[i].pix /\ pixmap[q].alive /\ pixmap[q].count # 1
  BY <1>1, PixAlive DEF Alone
<1>5. PICK size \in [w : Nat, h : Nat] :
        size = Size(i) /\ size.w = pixmap[q].w /\ size.h = pixmap[q].h
  BY <1>1, <1>4, PixAlive
<1>6. PICK rest : rest = Without(pixmap[q], i)
  OBVIOUS
<1>7. /\ Left(i) = [pixmap EXCEPT ![q] = IF PointTo(image, q) \ {i} # {} THEN rest ELSE Deleted]
      /\ rest.users = PointTo(image, q) \ {i} /\ (rest.count = 0 <=> rest.users = {})
  BY <1>1, <1>4, <1>6, LeftIs
<1>8. PointTo(image, q) \ {i} # {}
  <2>1. /\ i \in PointTo(image, q) /\ Cardinality(PointTo(image, q)) # 1
    BY <1>4 DEF IInv, RegisteredIn, PointTo
  <2>2. Cardinality({i}) = 1
    BY FS_Singleton
  <2>3. SUFFICES ASSUME PointTo(image, q) \ {i} = {}
                 PROVE  PointTo(image, q) = {i}
    BY <2>1, <2>2
  <2>4. QED
    BY <2>1, <2>3
<1>9. Left(i) = [pixmap EXCEPT ![q] = rest] /\ Released(i) = memory
  BY <1>4, <1>6, <1>7, <1>8 DEF Released
<1>10. p # q
  BY <1>2, <1>4
<1>11. PICK np : np = With(NewPixmap(size, a, FALSE, m), i)
  OBVIOUS
<1>12. /\ np.alive /\ np.w = size.w /\ np.h = size.h /\ np.users = {i} /\ np.count = 1
       /\ np.addr = a /\ ~np.own /\ np \in PixmapType
  <2>1. PICK own \in BOOLEAN : own = FALSE
    OBVIOUS
  <2>2. /\ np.alive /\ np.w = size.w /\ np.h = size.h /\ np.users = {i} /\ np.count = 1
        /\ np.addr = a /\ np.own = own /\ np \in PixmapType
    <3>1. np = With(NewPixmap(size, a, own, m), i)
      BY <1>11, <2>1
    <3>2. a \in Heap \cup Driver
      OBVIOUS
    <3>3. QED
      BY <3>1, <3>2, NewPixmapIs
  <2>3. QED
    BY <2>1, <2>2
<1>13. pixmap' = [Left(i) EXCEPT ![p] = np]
  <2>1. pixmap' = [pixmap EXCEPT ![q] = rest, ![p] = np]
    BY <1>2, <1>3, <1>4, <1>5, <1>6, <1>10, <1>11
  <2>2. QED
    BY <1>9, <2>1
<1>14. ~Left(i)[p].alive
  BY <1>2, <1>3, <1>9, <1>10
<1>15. OwnedIn(pixmap', memory')
  <2>1. PICK pm \in [Pixmaps -> PixmapType] : pm = Left(i)
    BY LeftType
  <2>2. PICK mem : mem = memory
    OBVIOUS
  <2>3. mem \subseteq Heap /\ OwnedIn(pm, mem)
    BY <1>3, <1>9, <2>1, <2>2, LeftOwned
  <2>4. OwnedIn([pm EXCEPT ![p] = np], IF pm[p].own THEN mem \ {pm[p].addr} ELSE mem)
    BY <1>12, <2>3, DriverOwned
  <2>5. ~pm[p].own
    BY <1>14, <2>1, <2>3 DEF OwnedIn
  <2>6. QED
    BY <1>1, <1>13, <2>1, <2>2, <2>4, <2>5
<1>16. RemappedWindow(i) \in Int
  <2>1. image[i].x \in Int /\ image[i].y \in Int /\ Size(i).h \in Nat
    BY <1>1, <1>3, PixAlive DEF ImageType
  <2>2. QED
    BY <2>1 DEF RemappedWindow, At
<1>17. PICK u \in ImageType : u = image[i]
  BY <1>3
<1>18. PICK v : v = [u EXCEPT !.pix = p, !.win = RemappedWindow(i)]
  OBVIOUS
<1>19. /\ v \in ImageType /\ v.alive = u.alive /\ v.pix = p /\ v.x = u.x /\ v.y = u.y
       /\ v.w = u.w /\ v.h = u.h /\ v.skip = u.skip
  BY <1>16, <1>18 DEF ImageType
<1>20. image' = [image EXCEPT ![i] = v]
  BY <1>2, <1>3, <1>17, <1>18
<1>21. RowsIn(pixmap, u) /\ u.alive
  BY <1>1, <1>17 DEF IInv
<1>22. v.w + v.skip = np.w
  BY <1>1, <1>4, <1>5, <1>12, <1>17, <1>19, <1>21 DEF RowsIn
<1>23. memory' \subseteq Heap
  BY <1>1, <1>3
<1>24. QED
  BY <1>3, <1>12, <1>13, <1>14, <1>15, <1>19, <1>20, <1>21, <1>22, <1>23, KeptMoved

(* What unlocking may change: the lock of the image's own pixmap           *)
LEMMA UnlockedKeeps ==
    ASSUME IInv, NEW i \in Images
    PROVE  /\ Unlocked(i) \in [Pixmaps -> PixmapType]
           /\ \A p \in Pixmaps :
              /\ Unlocked(i)[p].alive = pixmap[p].alive
              /\ Unlocked(i)[p].w = pixmap[p].w /\ Unlocked(i)[p].h = pixmap[p].h
              /\ Unlocked(i)[p].users = pixmap[p].users
              /\ Unlocked(i)[p].count = pixmap[p].count
              /\ Unlocked(i)[p].addr = pixmap[p].addr /\ Unlocked(i)[p].own = pixmap[p].own
<1>1. pixmap \in [Pixmaps -> PixmapType] /\ image \in [Images -> ImageType]
  BY Types
<1>2. PICK p : p = image[i].pix
  OBVIOUS
<1>3. p = None \/ p \in Pixmaps
  BY <1>1, <1>2 DEF ImageType
<1>4. CASE pixmap[p].locked = 0 \/ pixmap[p].master # i \/ p = None
  <2>1. Unlocked(i) = pixmap
    <3>1. CASE p = None
      <4>1. None \notin Pixmaps
        BY ImageAssumption
      <4>2. QED
        BY <1>1, <1>2, <3>1, <4>1 DEF Unlocked
    <3>2. CASE p # None
      BY <1>2, <1>4, <3>2 DEF Unlocked
    <3>3. QED
      BY <3>1, <3>2
  <2>2. QED
    BY <1>1, <2>1
<1>5. CASE pixmap[p].locked # 0 /\ pixmap[p].master = i /\ p # None
  <2>1. PICK old \in PixmapType : old = pixmap[p]
    BY <1>1, <1>3, <1>5
  <2>2. PICK master \in Images \cup {None} :
           master = IF pixmap[p].locked = 1 THEN None ELSE pixmap[p].master
    BY <1>5
  <2>3. PICK new : new = [old EXCEPT !.locked = @ - 1, !.master = master]
    OBVIOUS
  <2>4. old.locked - 1 \in Nat
    BY <1>5, <2>1 DEF PixmapType
  <2>5. /\ new \in PixmapType /\ new.alive = old.alive /\ new.w = old.w /\ new.h = old.h
        /\ new.users = old.users /\ new.count = old.count
        /\ new.addr = old.addr /\ new.own = old.own
    BY <2>3, <2>4 DEF PixmapType
  <2>6. Unlocked(i) = [pixmap EXCEPT ![p].locked = @ - 1,
                                     ![p].master = IF pixmap[p].locked = 1 THEN None ELSE @]
    BY <1>2, <1>5 DEF Unlocked
  <2>7. Unlocked(i) = [pixmap EXCEPT ![p] = new]
    BY <1>1, <1>3, <1>5, <2>1, <2>2, <2>3, <2>6
  <2>8. QED
    BY <1>1, <1>3, <1>5, <2>1, <2>5, <2>7
<1>6. QED
  BY <1>4, <1>5

LEMMA OpenWriterOK == ASSUME IInv, NEW i \in Images, OpenWriter(i) PROVE IInv'
<1>1. PICK p : p = image[i].pix
  OBVIOUS
<1>2. /\ p # None
      /\ IF Lockable(p, i)
         THEN /\ pixmap' = [pixmap EXCEPT ![p].locked = @ + 1, ![p].master = i]
              /\ writers' = Append(writers, [img |-> i, pix |-> p])
         ELSE /\ writers' = Append(writers, [img |-> i, pix |-> None])
              /\ UNCHANGED pixmap
      /\ UNCHANGED <<image, memory, misused>>
  BY <1>1 DEF OpenWriter
<1>3. /\ pixmap \in [Pixmaps -> PixmapType] /\ writers \in Seq(WriterType)
      /\ misused' \in BOOLEAN /\ p \in Pixmaps
  BY <1>1, <1>2, Types, PixAlive
<1>4. writers' \in Seq(WriterType)
  <2>1. /\ [img |-> i, pix |-> p] \in WriterType
        /\ [img |-> i, pix |-> None] \in WriterType
    BY <1>3 DEF WriterType
  <2>2. PICK w \in WriterType : writers' = Append(writers, w)
    BY <1>2, <2>1
  <2>3. QED
    BY <1>3, <2>2
<1>5. CASE Lockable(p, i)
  <2>1. PICK old \in PixmapType : old = pixmap[p]
    BY <1>3
  <2>2. PICK new : new = [old EXCEPT !.locked = @ + 1, !.master = i]
    OBVIOUS
  <2>3. old.locked + 1 \in Nat
    BY DEF PixmapType
  <2>4. /\ new \in PixmapType /\ new.alive = old.alive /\ new.w = old.w /\ new.h = old.h
        /\ new.users = old.users /\ new.count = old.count
        /\ new.addr = old.addr /\ new.own = old.own
    BY <2>2, <2>3 DEF PixmapType
  <2>5. pixmap' = [pixmap EXCEPT ![p] = new]
    BY <1>2, <1>3, <1>5, <2>1, <2>2
  <2>6. pixmap' \in [Pixmaps -> PixmapType]
    BY <1>3, <2>4, <2>5
  <2>7. \A q \in Pixmaps :
           /\ pixmap'[q].alive = pixmap[q].alive
           /\ pixmap'[q].w = pixmap[q].w /\ pixmap'[q].h = pixmap[q].h
           /\ pixmap'[q].users = pixmap[q].users /\ pixmap'[q].count = pixmap[q].count
           /\ pixmap'[q].addr = pixmap[q].addr /\ pixmap'[q].own = pixmap[q].own
    BY <1>3, <2>1, <2>4, <2>5
  <2>8. QED
    BY <1>2, <1>3, <1>4, <2>6, <2>7, KeptLocks
<1>6. CASE ~Lockable(p, i)
  <2>1. pixmap' = pixmap
    BY <1>2, <1>6
  <2>2. QED
    BY <1>2, <1>3, <1>4, <2>1, KeptLocks
<1>7. QED
  BY <1>5, <1>6

(* What an unlocking step does to the pixmaps                              *)
LEMMA KeptUnlocked ==
    ASSUME IInv, NEW i \in Images, pixmap' = Unlocked(i), UNCHANGED <<image, memory>>,
           writers' \in Seq(WriterType), misused' \in BOOLEAN
    PROVE  IInv'
  BY UnlockedKeeps, KeptLocks

LEMMA CloseWriterOK == ASSUME IInv, NEW k \in DOMAIN writers, CloseWriter(k) PROVE IInv'
<1>1. writers \in Seq(WriterType) /\ misused \in BOOLEAN
  BY Types
<1>2. PICK w \in WriterType : w = writers[k]
  BY <1>1
<1>3. w.img \in Images
  BY DEF WriterType
<1>4. PICK new : new = [w EXCEPT !.pix = None]
  OBVIOUS
<1>5. new \in WriterType
  BY <1>4 DEF WriterType
<1>6. writers' = [writers EXCEPT ![k] = new]
  BY <1>1, <1>2, <1>4 DEF CloseWriter
<1>7. writers' \in Seq(WriterType)
  BY <1>1, <1>5, <1>6
<1>8. misused' \in BOOLEAN
  BY <1>1 DEF CloseWriter, Undercuts, Writing
<1>9. pixmap' = Unlocked(w.img) /\ UNCHANGED <<image, memory>>
  BY <1>2 DEF CloseWriter
<1>10. QED
  BY <1>3, <1>7, <1>8, <1>9, KeptUnlocked

LEMMA CopyWriterOK == ASSUME IInv, NEW k \in DOMAIN writers, CopyWriter(k) PROVE IInv'
<1>1. /\ pixmap \in [Pixmaps -> PixmapType] /\ writers \in Seq(WriterType)
      /\ misused \in BOOLEAN
  BY Types
<1>2. PICK w \in WriterType : w = writers[k]
  BY <1>1
<1>3. [img |-> w.img, pix |-> None] \in WriterType
  BY DEF WriterType
<1>4. writers' \in Seq(WriterType)
  BY <1>1, <1>2, <1>3 DEF CopyWriter
<1>5. QED
  BY <1>1, <1>4, KeptLocks DEF CopyWriter

LEMMA DestroyWriterOK == ASSUME IInv, DestroyWriter PROVE IInv'
<1>1. writers \in Seq(WriterType) /\ misused \in BOOLEAN
  BY Types
<1>2. Len(writers) \in 1..Len(writers)
  BY <1>1 DEF DestroyWriter
<1>3. PICK w \in WriterType : w = writers[Len(writers)]
  BY <1>1, <1>2
<1>4. w.img \in Images
  BY DEF WriterType
<1>5. writers' \in Seq(WriterType)
  BY <1>1, <1>2 DEF DestroyWriter
<1>6. misused' \in BOOLEAN
  BY <1>1 DEF DestroyWriter, Undercuts, Writing
<1>7. pixmap' = Unlocked(w.img) /\ UNCHANGED <<image, memory>>
  BY <1>3 DEF DestroyWriter
<1>8. QED
  BY <1>4, <1>5, <1>6, <1>7, KeptUnlocked
-----------------------------------------------------------------------------
LEMMA InitOK == Init => IInv
<1> SUFFICES ASSUME Init PROVE IInv
  OBVIOUS
<1>1. Gone \in ImageType /\ Gone.pix = None /\ ~Gone.alive
  BY DEF Gone, ImageType
<1>2. Deleted \in PixmapType
  BY DEF Deleted, PixmapType
<1>3. /\ Deleted.users = {} /\ Deleted.count = 0 /\ ~Deleted.alive
      /\ ~Deleted.own /\ Deleted.addr = None
  BY DEF Deleted
<1>4. image = [i \in Images |-> Gone] /\ pixmap = [p \in Pixmaps |-> Deleted]
  BY DEF Init
<1>5. TypeOK
  <2>1. memory \subseteq Heap /\ writers \in Seq(WriterType) /\ misused \in BOOLEAN
    <3>1. <<>> \in Seq(WriterType)
      OBVIOUS
    <3>2. QED
      BY <3>1 DEF Init
  <2>2. QED
    BY <1>1, <1>2, <1>4, <2>1, TypesBack
<1>6. RegisteredIn(pixmap, image)
  <2>1. \A p \in Pixmaps : PointTo(image, p) = {}
    BY <1>1, <1>4, ImageAssumption DEF PointTo
  <2>2. IsFiniteSet({}) /\ Cardinality({}) = 0
    BY FS_EmptySet
  <2>3. QED
    BY <1>3, <1>4, <2>1, <2>2 DEF RegisteredIn
<1>7. OwnedIn(pixmap, memory)
  BY <1>3, <1>4 DEF OwnedIn, Init
<1>8. \A i \in Images : RowsIn(pixmap, image[i])
  BY <1>1, <1>4 DEF RowsIn
<1>9. QED
  BY <1>1, <1>4, <1>5, <1>6, <1>7, <1>8 DEF IInv

LEMMA StepOK == IInv /\ [Next]_vars => IInv'
<1> SUFFICES ASSUME IInv, [Next]_vars PROVE IInv'
  OBVIOUS
<1>1. ASSUME NEW i \in Images, ConstructEmpty(i) PROVE IInv'
  BY <1>1, ConstructEmptyOK
<1>2. ASSUME NEW i \in Images, Construct(i) PROVE IInv'
  BY <1>2, ConstructOK
<1>3. ASSUME NEW i \in Images, CopyConstruct(i) PROVE IInv'
  BY <1>3, CopyConstructOK
<1>4. ASSUME NEW i \in Images, Destroy(i) PROVE IInv'
  BY <1>4, DestroyOK
<1>5. ASSUME NEW i \in Images, Assign(i) PROVE IInv'
  BY <1>5, AssignOK
<1>6. ASSUME NEW i \in Images, SetSubImage(i) PROVE IInv'
  BY <1>6, SetSubImageOK
<1>7. ASSUME NEW i \in Images, Reposition(i) PROVE IInv'
  BY <1>7, RepositionOK
<1>8. ASSUME NEW i \in Images, Shrink(i) PROVE IInv'
  BY <1>8, ShrinkOK
<1>9. ASSUME NEW i \in Images, Grow(i) PROVE IInv'
  BY <1>9, GrowOK
<1>10. ASSUME NEW i \in Images, RemapAlone(i) PROVE IInv'
  BY <1>10, RemapAloneOK
<1>11. ASSUME NEW i \in Images, RemapShared(i) PROVE IInv'
  BY <1>11, RemapSharedOK
<1>12. ASSUME NEW i \in Images, OpenWriter(i) PROVE IInv'
  BY <1>12, OpenWriterOK
<1>13. ASSUME NEW k \in DOMAIN writers, CloseWriter(k) PROVE IInv'
  BY <1>13, CloseWriterOK
<1>14. CASE DestroyWriter
  BY <1>14, DestroyWriterOK
<1>15. ASSUME NEW k \in DOMAIN writers, CopyWriter(k) PROVE IInv'
  BY <1>15, CopyWriterOK
<1>16. CASE UNCHANGED vars
  BY <1>16, Types, KeptLocks DEF vars
<1>17. QED
  BY <1>1, <1>2, <1>3, <1>4, <1>5, <1>6, <1>7, <1>8, <1>9, <1>10, <1>11, <1>12, <1>13,
     <1>14, <1>15, <1>16 DEF Next, CallOf, Unlock

(* All variables have their types, for any number of images and pixmaps.   *)
THEOREM TypeCorrect == Spec => []TypeOK
<1>1. IInv => TypeOK
  BY DEF IInv
<1>2. QED
  BY <1>1, InitOK, StepOK, PTL DEF Spec

(* No image points to a deleted pixmap, no pixmap is left behind: the list *)
(* and the count of a pixmap are the images that point to it, whatever is  *)
(* constructed, assigned, resized, remapped and destroyed.                 *)
THEOREM ListsMatch == Spec => []Registered
<1>1. IInv => Registered
  BY DEF IInv, Registered, RegisteredIn, UsersOf, PointTo
<1>2. QED
  BY <1>1, InitOK, StepOK, PTL DEF Spec

(* Memory is freed exactly once, by the pixmap that owns it, and never     *)
(* while a pixmap still shows it.                                          *)
THEOREM MemoryOwned == Spec => []Owned
<1>1. IInv => Owned
  BY DEF IInv, Owned, OwnedIn
<1>2. QED
  BY <1>1, InitOK, StepOK, PTL DEF Spec

(* A row of every image and its line skip make a row of its pixmap, also   *)
(* in images that were copied before another one was resized or remapped.  *)
THEOREM RowsAligned == Spec => []RowsMatch
<1>1. IInv => RowsMatch
  <2> SUFFICES ASSUME IInv, NEW i \in Images, image[i].pix # None
               PROVE  image[i].w + image[i].skip = Size(i).w
    BY DEF RowsMatch
  <2>1. RowsIn(pixmap, image[i])
    BY DEF IInv
  <2>2. QED
    BY <2>1, PixAlive DEF RowsIn
<1>2. QED
  BY <1>1, InitOK, StepOK, PTL DEF Spec
-----------------------------------------------------------------------------
(* One image's step and the others' views *)

(* An image sees the same if its members and the address stay. *)
LEMMA SameView ==
    ASSUME NEW j \in Images, image'[j] = image[j],
           image[j].pix # None => pixmap'[image[j].pix].addr = pixmap[image[j].pix].addr
    PROVE  View(j)' = View(j)
  BY DEF View

(* So it does when another one leaves its pixmap and joins or makes p.     *)
LEMMA SameViewMoved ==
    ASSUME IInv, NEW i \in Images, NEW j \in Images, j # i, image'[j] = image[j],
           \A q \in Pixmaps : Left(i)[q].alive => pixmap'[q].addr = Left(i)[q].addr
    PROVE  View(j)' = View(j)
<1>1. CASE image[j].pix = None
  BY <1>1, SameView
<1>2. CASE image[j].pix # None
  <2>1. PICK q \in Pixmaps : /\ q = image[j].pix /\ Left(i)[q].alive
                             /\ Left(i)[q].addr = pixmap[q].addr
    BY <1>2, LeftForOthers
  <2>2. pixmap'[q].addr = pixmap[q].addr
    BY <2>1
  <2>3. QED
    BY <2>1, <2>2, SameView
<1>3. QED
  BY <1>1, <1>2

(* A step of image i *)
StepOf(i) ==
    \/ ConstructEmpty(i) \/ Construct(i) \/ CopyConstruct(i) \/ Destroy(i)
    \/ Assign(i) \/ SetSubImage(i) \/ Reposition(i)
    \/ Shrink(i) \/ Grow(i) \/ RemapAlone(i) \/ RemapShared(i)

LEMMA OthersUndisturbed ==
    ASSUME IInv, NEW i \in Images, StepOf(i), NEW j \in Images, j # i
    PROVE  View(j)' = View(j)
<1>1. image \in [Images -> ImageType] /\ pixmap \in [Pixmaps -> PixmapType]
  BY Types
<1>2. Left(i) \in [Pixmaps -> PixmapType]
  BY LeftType
<1>3. ~image[i].alive => Left(i) = pixmap
  BY NothingLeft DEF IInv
<1>4. CASE ConstructEmpty(i) \/ SetSubImage(i) \/ Reposition(i) \/ Shrink(i)
  <2>1. pixmap' = pixmap
    BY <1>4 DEF ConstructEmpty, SetSubImage, Reposition, Shrink
  <2>2. image'[j] = image[j]
    <3>1. CASE ConstructEmpty(i)
      BY <1>1, <3>1 DEF ConstructEmpty
    <3>2. CASE SetSubImage(i)
      BY <1>1, <3>2 DEF SetSubImage
    <3>3. CASE Reposition(i)
      BY <1>1, <3>3 DEF Reposition
    <3>4. CASE Shrink(i)
      BY <1>1, <3>4 DEF Shrink
    <3>5. QED
      BY <1>4, <3>1, <3>2, <3>3, <3>4
  <2>3. QED
    BY <2>1, <2>2, SameView
<1>5. CASE Construct(i)
  <2>1. image'[j] = image[j]
    BY <1>1, <1>5 DEF Construct
  <2>2. \A q \in Pixmaps : Left(i)[q].alive => pixmap'[q].addr = Left(i)[q].addr
    BY <1>1, <1>3, <1>5 DEF Construct
  <2>3. QED
    BY <2>1, <2>2, SameViewMoved
<1>6. CASE Grow(i)
  <2>1. image'[j] = image[j]
    BY <1>1, <1>6 DEF Grow
  <2>2. \A q \in Pixmaps : Left(i)[q].alive => pixmap'[q].addr = Left(i)[q].addr
    BY <1>2, <1>6 DEF Grow
  <2>3. QED
    BY <2>1, <2>2, SameViewMoved
<1>7. CASE Destroy(i)
  <2>1. image'[j] = image[j] /\ pixmap' = Left(i)
    BY <1>1, <1>7 DEF Destroy
  <2>2. QED
    BY <2>1, SameViewMoved
<1>8. ASSUME NEW q \in Pixmaps, pixmap' = [Left(i) EXCEPT ![q] = With(@, i)]
      PROVE  \A p \in Pixmaps : pixmap'[p].addr = Left(i)[p].addr
  <2>1. PICK old \in PixmapType : old = Left(i)[q]
    BY <1>2
  <2>2. PICK joined : joined = With(old, i)
    OBVIOUS
  <2>3. joined.addr = old.addr
    BY <2>2, JoinIs DEF SameButUsers
  <2>4. pixmap' = [Left(i) EXCEPT ![q] = joined]
    BY <1>8, <2>1, <2>2
  <2>5. QED
    BY <1>2, <2>1, <2>3, <2>4
<1>9. CASE CopyConstruct(i)
  <2>1. PICK k \in Images :
          /\ image' = [image EXCEPT ![i] = image[k]]
          /\ pixmap' = IF image[k].pix = None THEN pixmap
                       ELSE [pixmap EXCEPT ![image[k].pix] = With(@, i)]
    BY <1>9 DEF CopyConstruct
  <2>2. Left(i) = pixmap /\ image'[j] = image[j]
    BY <1>1, <1>3, <1>9, <2>1 DEF CopyConstruct
  <2>3. CASE image[k].pix = None
    BY <2>1, <2>2, <2>3, SameView
  <2>4. CASE image[k].pix # None
    <3>1. image[k].pix \in Pixmaps
      BY <1>1, <2>4 DEF ImageType
    <3>2. \A p \in Pixmaps : pixmap'[p].addr = Left(i)[p].addr
      BY <1>8, <2>1, <2>2, <2>4, <3>1
    <3>3. QED
      BY <2>2, <3>2, SameViewMoved
  <2>5. QED
    BY <2>3, <2>4
<1>10. CASE Assign(i)
  <2>1. PICK k \in Images :
          /\ image[k].pix # None /\ image' = [image EXCEPT ![i] = image[k]]
          /\ IF image[i].pix = image[k].pix
             THEN UNCHANGED <<pixmap, memory, misused>>
             ELSE /\ pixmap' = [Left(i) EXCEPT ![image[k].pix] = With(@, i)]
                  /\ memory' = Released(i)
                  /\ Moves(i)
    BY <1>10 DEF Assign
  <2>2. image'[j] = image[j] /\ image[k].pix \in Pixmaps
    BY <1>1, <2>1 DEF ImageType
  <2>3. CASE image[i].pix = image[k].pix
    BY <2>1, <2>2, <2>3, SameView
  <2>4. CASE image[i].pix # image[k].pix
    <3>1. \A p \in Pixmaps : pixmap'[p].addr = Left(i)[p].addr
      BY <1>8, <2>1, <2>2, <2>4
    <3>2. QED
      BY <2>2, <3>1, SameViewMoved
  <2>5. QED
    BY <2>3, <2>4
<1>11. CASE RemapAlone(i)
  <2>1. image'[j] = image[j]
    BY <1>1, <1>11 DEF RemapAlone
  <2>2. image[j].pix # image[i].pix
    <3>1. SUFFICES ASSUME image[j].pix = image[i].pix PROVE FALSE
      OBVIOUS
    <3>2. PICK q \in Pixmaps : q = image[i].pix /\ pixmap[q].count = 1
      BY <1>11, PixAlive DEF RemapAlone, Alone
    <3>3. /\ IsFiniteSet(PointTo(image, q)) /\ Cardinality(PointTo(image, q)) = 1
          /\ i \in PointTo(image, q) /\ j \in PointTo(image, q)
      BY <3>1, <3>2 DEF IInv, RegisteredIn, PointTo
    <3>4. IsFiniteSet(PointTo(image, q) \ {i}) /\ Cardinality(PointTo(image, q) \ {i}) = 0
      BY <3>3, FS_RemoveElement
    <3>5. PointTo(image, q) \ {i} = {}
      BY <3>4, FS_EmptySet
    <3>6. QED
      BY <3>3, <3>5
  <2>3. image[j].pix # None => pixmap'[image[j].pix].addr = pixmap[image[j].pix].addr
    BY <1>1, <1>11, <2>2 DEF RemapAlone, ImageType
  <2>4. QED
    BY <2>1, <2>3, SameView
<1>12. CASE RemapShared(i)
  <2>1. PICK a \in Driver, p \in Pixmaps, m \in Masters :
          /\ ~pixmap[p].alive
          /\ pixmap' = [pixmap EXCEPT ![image[i].pix] = Without(@, i),
                                      ![p] = With(NewPixmap(Size(i), a, FALSE, m), i)]
    BY <1>12 DEF RemapShared
  <2>2. image'[j] = image[j] /\ image[i].pix # None
    BY <1>1, <1>12 DEF RemapShared
  <2>3. PICK q \in Pixmaps : q = image[i].pix
    BY <2>2, PixAlive
  <2>4. PICK rest : rest = Without(pixmap[q], i) /\ rest.addr = pixmap[q].addr
    BY <2>2, <2>3, LeftIs DEF SameButUsers
  <2>5. PICK np : np = With(NewPixmap(Size(i), a, FALSE, m), i)
    OBVIOUS
  <2>6. pixmap' = [pixmap EXCEPT ![q] = rest, ![p] = np]
    BY <2>1, <2>3, <2>4, <2>5
  <2>7. CASE image[j].pix = None
    BY <2>2, <2>7, SameView
  <2>8. CASE image[j].pix # None
    <3>1. image[j].pix \in Pixmaps /\ image[j].pix # p
      BY <2>1, <2>8, PixAlive
    <3>2. pixmap'[image[j].pix].addr = pixmap[image[j].pix].addr
      BY <1>1, <2>4, <2>6, <3>1
    <3>3. QED
      BY <2>2, <3>2, SameView
  <2>9. QED
    BY <2>7, <2>8
<1>13. QED
  BY <1>4, <1>5, <1>6, <1>7, <1>9, <1>10, <1>11, <1>12 DEF StepOf

(* Locks do not change what an image shows. *)
LEMMA LocksUndisturbed ==
    ASSUME IInv, NEW j \in Images,
           \/ \E i \in Images : OpenWriter(i)
           \/ \E k \in DOMAIN writers : CopyWriter(k)
           \/ Unlock
    PROVE  View(j)' = View(j)
<1>1. /\ image \in [Images -> ImageType] /\ pixmap \in [Pixmaps -> PixmapType]
      /\ writers \in Seq(WriterType)
  BY Types
<1>2. image' = image
  BY DEF OpenWriter, CopyWriter, Unlock, CloseWriter, DestroyWriter
<1>3. image[j].pix = None \/ image[j].pix \in Pixmaps
  BY <1>1 DEF ImageType
<1>4. \A p \in Pixmaps : pixmap'[p].addr = pixmap[p].addr
  <2>1. ASSUME NEW i \in Images, OpenWriter(i)
        PROVE  \A p \in Pixmaps : pixmap'[p].addr = pixmap[p].addr
    <3>1. \/ pixmap' = pixmap
          \/ pixmap' = [pixmap EXCEPT ![image[i].pix].locked = @ + 1,
                                      ![image[i].pix].master = i]
      BY <2>1 DEF OpenWriter
    <3>2. image[i].pix \in Pixmaps
      BY <2>1, PixAlive DEF OpenWriter
    <3>3. PICK p \in Pixmaps : p = image[i].pix
      BY <3>2
    <3>4. CASE pixmap' = [pixmap EXCEPT ![p].locked = @ + 1, ![p].master = i]
      <4>1. PICK old \in PixmapType : old = pixmap[p]
        BY <1>1
      <4>2. PICK new : new = [old EXCEPT !.locked = @ + 1, !.master = i]
        OBVIOUS
      <4>3. new.addr = old.addr
        BY <4>2 DEF PixmapType
      <4>4. pixmap' = [pixmap EXCEPT ![p] = new]
        BY <1>1, <3>4, <4>1, <4>2
      <4>5. QED
        BY <1>1, <4>1, <4>3, <4>4
    <3>5. QED
      BY <3>1, <3>3, <3>4
  <2>2. ASSUME NEW w \in WriterType, pixmap' = Unlocked(w.img)
        PROVE  \A p \in Pixmaps : pixmap'[p].addr = pixmap[p].addr
    BY <2>2, UnlockedKeeps DEF WriterType
  <2>3. ASSUME NEW k \in DOMAIN writers, CloseWriter(k)
        PROVE  \E w \in WriterType : pixmap' = Unlocked(w.img)
    <3>1. PICK w \in WriterType : w = writers[k]
      BY <1>1
    <3>2. QED
      BY <2>3, <3>1 DEF CloseWriter
  <2>4. ASSUME DestroyWriter PROVE \E w \in WriterType : pixmap' = Unlocked(w.img)
    <3>1. Len(writers) \in 1..Len(writers)
      BY <1>1, <2>4 DEF DestroyWriter
    <3>2. QED
      BY <1>1, <2>4, <3>1 DEF DestroyWriter
  <2>5. QED
    BY <2>1, <2>2, <2>3, <2>4 DEF CopyWriter, Unlock
<1>5. QED
  BY <1>2, <1>3, <1>4, SameView

(* What an image shows changes in its own calls only, and these change     *)
(* neither the members of another image nor the memory behind it.          *)
THEOREM OthersKeepTheirView == Spec => Undisturbed
<1>1. IInv /\ [Next]_vars =>
         [\A i \in Images : View(i)' # View(i) =>
             CallOf(i) /\ \A j \in Images \ {i} : View(j)' = View(j)]_vars
  <2> SUFFICES ASSUME IInv, Next, NEW i \in Images, View(i)' # View(i)
               PROVE  CallOf(i) /\ \A j \in Images \ {i} : View(j)' = View(j)
    OBVIOUS
  <2>1. ASSUME NEW k \in Images, StepOf(k)
        PROVE  CallOf(i) /\ \A j \in Images \ {i} : View(j)' = View(j)
    <3>1. k = i
      BY <2>1, OthersUndisturbed
    <3>2. QED
      BY <2>1, <3>1, OthersUndisturbed DEF StepOf, CallOf
  <2>2. CASE \/ \E k \in Images : OpenWriter(k)
             \/ \E k \in DOMAIN writers : CopyWriter(k)
             \/ Unlock
    BY <2>2, LocksUndisturbed
  <2>3. QED
    BY <2>1, <2>2 DEF Next, CallOf, StepOf
<1>2. QED
  BY <1>1, InitOK, StepOK, PTL DEF Spec, Undisturbed
-----------------------------------------------------------------------------
(* Locks and write iterators                                               *)

OpenOn(p) == {k \in DOMAIN writers : writers[k].pix = p}

(* LocksMatchWriters, pixmap by pixmap                                     *)
LockOK(p) ==
    /\ pixmap[p].locked = Cardinality(OpenOn(p))
    /\ \A k \in OpenOn(p) : /\ pixmap[p].master = writers[k].img
                            /\ image[writers[k].img].pix = p

(* LocksMatchWriters is that, while no lock was dropped or left behind.    *)
LEMMA LocksNamed == LocksMatchWriters <=> (~misused => \A p \in Pixmaps : LockOK(p))
  BY DEF LocksMatchWriters, LockOK, OpenOn

(* Write iterators can be counted.                                         *)
LEMMA OpenFinite ==
    ASSUME NEW s \in Seq(WriterType), NEW p
    PROVE  /\ IsFiniteSet({k \in DOMAIN s : s[k].pix = p})
           /\ Cardinality({k \in DOMAIN s : s[k].pix = p}) \in Nat
<1>1. DOMAIN s = 1..Len(s) /\ Len(s) \in Nat
  OBVIOUS
<1>2. IsFiniteSet(1..Len(s))
  BY <1>1, FS_Interval
<1>3. {k \in DOMAIN s : s[k].pix = p} \subseteq 1..Len(s)
  BY <1>1
<1>4. QED
  BY <1>2, <1>3, FS_Subset, FS_CardinalityType

(* What a write iterator refers to                                         *)
LEMMA WriterTypes ==
    ASSUME IInv
    PROVE  /\ writers \in Seq(WriterType) /\ DOMAIN writers = 1..Len(writers)
           /\ \A k \in DOMAIN writers : /\ writers[k] \in WriterType
                                       /\ writers[k].img \in Images
                                       /\ writers[k].pix \in Pixmaps \cup {None}
<1>1. writers \in Seq(WriterType)
  BY Types
<1>2. \A k \in DOMAIN writers : writers[k] \in WriterType
  BY <1>1
<1>3. \A w \in WriterType : w.img \in Images /\ w.pix \in Pixmaps \cup {None}
  BY DEF WriterType
<1>4. QED
  BY <1>1, <1>2, <1>3

(* An image without a pixmap has no open iterator.                         *)
LEMMA NotWriting ==
    ASSUME IInv, LocksMatchWriters, ~misused, NEW i \in Images, image[i].pix = None
    PROVE  ~Writing(i)
<1> SUFFICES ASSUME NEW k \in DOMAIN writers, writers[k].img = i, writers[k].pix # None
             PROVE  FALSE
  BY DEF Writing
<1>2. PICK p \in Pixmaps : p = writers[k].pix
  BY WriterTypes
<1>3. image[i].pix = p
  BY <1>2, LocksNamed DEF LockOK, OpenOn
<1>4. QED
  BY <1>2, <1>3, ImageAssumption

(* What a step of one image does to the locks: where it leaves nobody      *)
(* behind or finds nobody, the pixmap is unlocked, as it has no iterator.  *)
LEMMA LocksMoved ==
    ASSUME IInv, LocksMatchWriters, ~misused, UNCHANGED writers, NEW i \in Images,
           \A j \in Images : j # i => image'[j].pix = image[j].pix,
           Writing(i) => image'[i].pix = image[i].pix,
           \A p \in Pixmaps :
              \/ pixmap'[p].locked = pixmap[p].locked /\ pixmap'[p].master = pixmap[p].master
              \/ /\ PointTo(image, p) \subseteq {i} /\ ~Writing(i)
                 /\ pixmap'[p].locked = 0
    PROVE  LocksMatchWriters'
<1>1. \A k \in DOMAIN writers : writers[k].img \in Images
  BY WriterTypes
<1> SUFFICES ASSUME NEW p \in Pixmaps
             PROVE  LockOK(p)'
  BY LocksNamed DEF LocksMatchWriters, LockOK, OpenOn
<1>2. LockOK(p)
  BY LocksNamed
<1>3. OpenOn(p)' = OpenOn(p)
  BY DEF OpenOn
<1>4. ASSUME NEW k \in OpenOn(p) PROVE image'[writers[k].img].pix = p
  <2>1. k \in DOMAIN writers /\ writers[k].pix = p /\ image[writers[k].img].pix = p
    BY <1>2 DEF LockOK, OpenOn
  <2>2. writers[k].img = i => Writing(i)
    BY <2>1, ImageAssumption DEF Writing
  <2>3. QED
    BY <1>1, <2>1, <2>2
<1>5. CASE pixmap'[p].locked = pixmap[p].locked /\ pixmap'[p].master = pixmap[p].master
  BY <1>2, <1>3, <1>4, <1>5 DEF LockOK
<1>6. CASE /\ PointTo(image, p) \subseteq {i} /\ ~Writing(i)
           /\ pixmap'[p].locked = 0
  <2>1. OpenOn(p) = {}
    <3> SUFFICES ASSUME NEW k \in OpenOn(p) PROVE FALSE
      OBVIOUS
    <3>1. k \in DOMAIN writers /\ writers[k].pix = p /\ image[writers[k].img].pix = p
      BY <1>2 DEF LockOK, OpenOn
    <3>2. writers[k].img = i
      BY <1>1, <1>6, <3>1 DEF PointTo
    <3>3. QED
      BY <1>6, <3>1, <3>2, ImageAssumption DEF Writing
  <2>2. QED
    BY <1>3, <1>6, <2>1, FS_EmptySet DEF LockOK
<1>7. QED
  BY <1>5, <1>6

(* Who leaves a pixmap leaves its lock alone or deletes it.                *)
LEMMA LeftLocks ==
    ASSUME IInv, NEW i \in Images, NEW p \in Pixmaps
    PROVE  /\ \/ /\ Left(i)[p].locked = pixmap[p].locked
                 /\ Left(i)[p].master = pixmap[p].master
              \/ /\ PointTo(image, p) \subseteq {i}
                 /\ Left(i)[p].locked = 0
           /\ ~Left(i)[p].alive => PointTo(image, p) \subseteq {i}
<1>1. image \in [Images -> ImageType] /\ pixmap \in [Pixmaps -> PixmapType]
  BY Types
<1>2. CASE image[i].pix = None
  <2>1. Left(i) = pixmap
    BY <1>2, NothingLeft
  <2>2. ~pixmap[p].alive => PointTo(image, p) = {}
    BY DEF IInv, RegisteredIn
  <2>3. QED
    BY <2>1, <2>2
<1>3. CASE image[i].pix # None
  <2> DEFINE old == image[i].pix
             rest == Without(pixmap[old], i)
  <2>1. /\ old \in Pixmaps
        /\ Left(i) = [pixmap EXCEPT ![old] =
                        IF PointTo(image, old) \ {i} # {} THEN rest ELSE Deleted]
        /\ SameButUsers(rest, pixmap[old])
    BY <1>3, LeftIs
  <2>2. /\ rest.locked = pixmap[old].locked /\ rest.master = pixmap[old].master
        /\ rest.alive = pixmap[old].alive
    BY <2>1 DEF SameButUsers
  <2> HIDE DEF rest, old
  <2>3. Deleted.locked = 0
    BY DEF Deleted
  <2>4. \A q \in Pixmaps : ~pixmap[q].alive => PointTo(image, q) = {}
    BY DEF IInv, RegisteredIn
  <2>5. CASE p = old /\ PointTo(image, old) \ {i} # {}
    <3>1. Left(i)[p] = rest
      BY <1>1, <2>1, <2>5
    <3>2. QED
      BY <2>2, <2>4, <2>5, <3>1
  <2>6. CASE p = old /\ PointTo(image, old) \ {i} = {}
    <3>1. Left(i)[p] = Deleted
      BY <1>1, <2>1, <2>6
    <3>2. QED
      BY <2>3, <2>6, <3>1
  <2>7. CASE p # old
    <3>1. Left(i)[p] = pixmap[p]
      BY <1>1, <2>1, <2>7
    <3>2. QED
      BY <2>4, <3>1
  <2>8. QED
    BY <2>5, <2>6, <2>7
<1>4. QED
  BY <1>2, <1>3

(* A new pixmap is not locked, joining one does not lock it.               *)
LEMMA MadeUnlocked ==
    ASSUME NEW size, NEW a, NEW own, NEW m, NEW i \in Images,
           NEW np, np = With(NewPixmap(size, a, own, m), i)
    PROVE  np.locked = 0
<1>1. PICK fresh : fresh = NewPixmap(size, a, own, m)
  OBVIOUS
<1>2. fresh.locked = 0
  BY <1>1 DEF NewPixmap
<1>3. np = [fresh EXCEPT !.users = @ \cup {i}, !.count = @ + 1]
  BY <1>1 DEF With
<1>4. fresh = [alive |-> TRUE, w |-> size.w, h |-> size.h, users |-> {}, count |-> 0,
               locked |-> 0, master |-> m, addr |-> a, own |-> own]
  BY <1>1 DEF NewPixmap
<1>5. QED
  BY <1>2, <1>3, <1>4

(* The operations on images keep the locks in step with the iterators.     *)
LEMMA ImagesKeepLocks ==
    ASSUME IInv, LocksMatchWriters, NEW i \in Images, StepOf(i), ~misused'
    PROVE  LocksMatchWriters'
<1>0. /\ image \in [Images -> ImageType] /\ pixmap \in [Pixmaps -> PixmapType]
      /\ Left(i) \in [Pixmaps -> PixmapType] /\ misused \in BOOLEAN
  BY Types, LeftType
<1>1. UNCHANGED writers /\ ~misused
  BY <1>0 DEF StepOf, ConstructEmpty, Construct, CopyConstruct, Destroy, Assign, SetSubImage,
         Reposition, Shrink, Grow, RemapAlone, RemapShared, Moves
<1>2. \A p \in Pixmaps : ~pixmap[p].alive => PointTo(image, p) = {}
  BY DEF IInv, RegisteredIn
<1>3. ASSUME UNCHANGED pixmap, image'[i].pix = image[i].pix,
             \A j \in Images : j # i => image'[j] = image[j]
      PROVE  LocksMatchWriters'
  BY <1>1, <1>3, LocksMoved
<1>4. CASE ConstructEmpty(i)
  <2>1. image[i].pix = None /\ UNCHANGED pixmap
    BY <1>4 DEF ConstructEmpty, IInv
  <2>2. PICK g : g = Gone
    OBVIOUS
  <2>3. g.pix = None /\ [g EXCEPT !.alive = TRUE].pix = g.pix
    BY <2>2 DEF Gone
  <2>4. QED
    BY <1>0, <1>3, <1>4, <2>1, <2>2, <2>3 DEF ConstructEmpty
<1>5. CASE SetSubImage(i) \/ Reposition(i) \/ Shrink(i)
  <2>1. UNCHANGED pixmap /\ \A j \in Images : j # i => image'[j] = image[j]
    BY <1>0, <1>5 DEF SetSubImage, Reposition, Shrink
  <2>2. image'[i].pix = image[i].pix
    BY <1>0, <1>5 DEF SetSubImage, Reposition, Shrink, ImageType
  <2>3. QED
    BY <1>3, <2>1, <2>2
<1>6. CASE Construct(i)
  <2>1. PICK size \in Sizes, p \in Pixmaps, a \in Heap \ memory, m \in Masters :
          /\ ~pixmap[p].alive
          /\ pixmap' = [pixmap EXCEPT ![p] = With(NewPixmap(size, a, TRUE, m), i)]
    BY <1>6 DEF Construct
  <2>2. PICK np : np = With(NewPixmap(size, a, TRUE, m), i)
    OBVIOUS
  <2>3. np.locked = 0
    BY <2>2, MadeUnlocked
  <2>4. ~Writing(i)
    BY <1>1, <1>6, NotWriting DEF Construct, IInv
  <2>5. \A j \in Images : j # i => image'[j] = image[j]
    BY <1>0, <1>6 DEF Construct
  <2>6. \A q \in Pixmaps : pixmap'[q] = IF q = p THEN np ELSE pixmap[q]
    BY <1>0, <2>1, <2>2
  <2>7. QED
    BY <1>1, <1>2, <2>1, <2>3, <2>4, <2>5, <2>6, LocksMoved
<1>7. CASE CopyConstruct(i)
  <2>1. PICK k \in Images :
          /\ image' = [image EXCEPT ![i] = image[k]]
          /\ pixmap' = IF image[k].pix = None THEN pixmap
                       ELSE [pixmap EXCEPT ![image[k].pix] = With(@, i)]
    BY <1>7 DEF CopyConstruct
  <2>2. ~Writing(i)
    BY <1>1, <1>7, NotWriting DEF CopyConstruct, IInv
  <2>3. \A q \in Pixmaps : pixmap'[q] = pixmap[q] \/ pixmap'[q] = With(pixmap[q], i)
    BY <1>0, <2>1
  <2>4. ASSUME NEW q \in Pixmaps
        PROVE  pixmap'[q].locked = pixmap[q].locked /\ pixmap'[q].master = pixmap[q].master
    <3>1. PICK old \in PixmapType : old = pixmap[q]
      BY <1>0
    <3>2. PICK new : new = With(old, i)
      OBVIOUS
    <3>3. new.locked = old.locked /\ new.master = old.master
      BY <3>2, JoinIs DEF SameButUsers
    <3>4. QED
      BY <2>3, <3>1, <3>2, <3>3
  <2>5. QED
    BY <1>0, <1>1, <2>1, <2>2, <2>4, LocksMoved
<1>8. CASE Destroy(i)
  <2>1. pixmap' = Left(i) /\ ~Writing(i) /\ \A j \in Images : j # i => image'[j] = image[j]
    BY <1>0, <1>8 DEF Destroy, Writing
  <2>2. QED
    BY <1>1, <2>1, LeftLocks, LocksMoved
<1>9. CASE Assign(i)
  <2>1. PICK k \in Images :
          /\ image[k].pix # None /\ image' = [image EXCEPT ![i] = image[k]]
          /\ IF image[i].pix = image[k].pix
             THEN UNCHANGED <<pixmap, memory, misused>>
             ELSE pixmap' = [Left(i) EXCEPT ![image[k].pix] = With(@, i)] /\ Moves(i)
    BY <1>9 DEF Assign
  <2>2. CASE image[i].pix = image[k].pix
    BY <1>0, <1>3, <2>1, <2>2
  <2>3. CASE image[i].pix # image[k].pix
    <3>1. ~Writing(i)
      BY <2>1, <2>3 DEF Moves
    <3>2. PICK pm \in [Pixmaps -> PixmapType] : pm = Left(i)
      BY <1>0
    <3>3. \A q \in Pixmaps : pixmap'[q] = pm[q] \/ pixmap'[q] = With(pm[q], i)
      BY <2>1, <2>3, <3>2
    <3>4. ASSUME NEW q \in Pixmaps
          PROVE  pixmap'[q].locked = pm[q].locked /\ pixmap'[q].master = pm[q].master
      <4>1. PICK old \in PixmapType : old = pm[q]
        BY <3>2
      <4>2. PICK new : new = With(old, i)
        OBVIOUS
      <4>3. new.locked = old.locked /\ new.master = old.master
        BY <4>2, JoinIs DEF SameButUsers
      <4>4. QED
        BY <3>3, <4>1, <4>2, <4>3
    <3>5. QED
      BY <1>0, <1>1, <2>1, <3>1, <3>2, <3>4, LeftLocks, LocksMoved
  <2>4. QED
    BY <2>2, <2>3
<1>10. CASE Grow(i)
  <2>1. PICK size \in Sizes, p \in Pixmaps, a \in Heap \ Released(i), m \in Masters :
          /\ ~Left(i)[p].alive
          /\ pixmap' = [Left(i) EXCEPT ![p] = With(NewPixmap(size, a, TRUE, m), i)]
    BY <1>10 DEF Grow
  <2>2. PICK np : np = With(NewPixmap(size, a, TRUE, m), i)
    OBVIOUS
  <2>3. np.locked = 0
    BY <2>2, MadeUnlocked
  <2>4. ~Writing(i) /\ \A j \in Images : j # i => image'[j] = image[j]
    BY <1>0, <1>10 DEF Grow, Moves
  <2>5. \A q \in Pixmaps : pixmap'[q] = IF q = p THEN np ELSE Left(i)[q]
    BY <1>0, <2>1, <2>2
  <2>6. ASSUME NEW q \in Pixmaps
        PROVE  \/ /\ pixmap'[q].locked = pixmap[q].locked
                  /\ pixmap'[q].master = pixmap[q].master
               \/ /\ PointTo(image, q) \subseteq {i} /\ ~Writing(i)
                  /\ pixmap'[q].locked = 0
    <3>1. CASE q = p
      BY <2>1, <2>3, <2>4, <2>5, <3>1, LeftLocks
    <3>2. CASE q # p
      BY <2>4, <2>5, <3>2, LeftLocks
    <3>3. QED
      BY <3>1, <3>2
  <2>7. QED
    BY <1>1, <2>4, <2>6, LocksMoved
<1>11. CASE RemapAlone(i)
  <2>1. PICK a \in Driver :
          pixmap' = [pixmap EXCEPT ![image[i].pix].addr = a, ![image[i].pix].own = FALSE]
    BY <1>11 DEF RemapAlone
  <2>2. PICK p \in Pixmaps : p = image[i].pix
    BY <1>11, PixAlive DEF RemapAlone
  <2>3. \A q \in Pixmaps : pixmap'[q].locked = pixmap[q].locked
                           /\ pixmap'[q].master = pixmap[q].master
    BY <1>0, <2>1, <2>2 DEF PixmapType
  <2>4. \A j \in Images : image'[j].pix = image[j].pix
    BY <1>0, <1>11 DEF RemapAlone, ImageType
  <2>5. QED
    BY <1>1, <2>3, <2>4, LocksMoved
<1>12. CASE RemapShared(i)
  <2>1. PICK a \in Driver, p \in Pixmaps, m \in Masters :
          /\ ~pixmap[p].alive
          /\ pixmap' = [pixmap EXCEPT ![image[i].pix] = Without(@, i),
                                      ![p] = With(NewPixmap(Size(i), a, FALSE, m), i)]
    BY <1>12 DEF RemapShared
  <2>2. PICK np : np = With(NewPixmap(Size(i), a, FALSE, m), i)
    OBVIOUS
  <2>3. np.locked = 0
    <3>1. PICK size : size = Size(i)
      OBVIOUS
    <3>2. QED
      BY <2>2, <3>1, MadeUnlocked
  <2>4. ~Writing(i) /\ \A j \in Images : j # i => image'[j] = image[j]
    BY <1>0, <1>12 DEF RemapShared, Moves
  <2>5. PICK old \in Pixmaps : old = image[i].pix
    BY <1>12, PixAlive DEF RemapShared
  <2>6. PICK rest : rest = Without(pixmap[old], i)
    OBVIOUS
  <2>7. rest.locked = pixmap[old].locked /\ rest.master = pixmap[old].master
    BY <1>12, <2>5, <2>6, LeftIs DEF SameButUsers, RemapShared
  <2>8. \A q \in Pixmaps :
           pixmap'[q] = IF q = p THEN np ELSE IF q = old THEN rest ELSE pixmap[q]
    BY <1>0, <2>1, <2>2, <2>5, <2>6
  <2>9. ASSUME NEW q \in Pixmaps
        PROVE  \/ /\ pixmap'[q].locked = pixmap[q].locked
                  /\ pixmap'[q].master = pixmap[q].master
               \/ /\ PointTo(image, q) \subseteq {i} /\ ~Writing(i)
                  /\ pixmap'[q].locked = 0
    <3>1. CASE q = p
      BY <1>1, <1>2, <2>1, <2>3, <2>4, <2>8, <3>1
    <3>2. CASE q # p
      BY <2>7, <2>8, <3>2
    <3>3. QED
      BY <3>1, <3>2
  <2>10. QED
    BY <1>1, <2>4, <2>9, LocksMoved
<1>13. QED
  BY <1>4, <1>5, <1>6, <1>7, <1>8, <1>9, <1>10, <1>11, <1>12 DEF StepOf

(* A write iterator locks once, and only what nobody else has locked.      *)
LEMMA OpenKeepsLocks ==
    ASSUME IInv, LocksMatchWriters, NEW i \in Images, OpenWriter(i), ~misused'
    PROVE  LocksMatchWriters'
<1>0. /\ image \in [Images -> ImageType] /\ pixmap \in [Pixmaps -> PixmapType]
      /\ writers \in Seq(WriterType) /\ DOMAIN writers = 1..Len(writers)
      /\ Len(writers) \in Nat
  BY Types, WriterTypes
<1>1. UNCHANGED image /\ ~misused
  BY DEF OpenWriter
<1>2. PICK p \in Pixmaps : p = image[i].pix
  BY PixAlive DEF OpenWriter
<1>3. PICK n \in Nat : n = Len(writers) + 1
  BY <1>0
<1>4. PICK w : /\ writers' = Append(writers, w) /\ w.img = i
               /\ Lockable(p, i) => w.pix = p /\ pixmap' =
                     [pixmap EXCEPT ![p].locked = @ + 1, ![p].master = i]
               /\ ~Lockable(p, i) => w.pix = None /\ pixmap' = pixmap
  <2>1. CASE Lockable(p, i)
    <3>1. PICK w : w = [img |-> i, pix |-> p]
      OBVIOUS
    <3>2. writers' = Append(writers, w)
          /\ pixmap' = [pixmap EXCEPT ![p].locked = @ + 1, ![p].master = i]
      BY <1>2, <2>1, <3>1 DEF OpenWriter
    <3>3. w.img = i /\ w.pix = p
      BY <3>1
    <3>4. QED
      BY <2>1, <3>2, <3>3
  <2>2. CASE ~Lockable(p, i)
    <3>1. PICK w : w = [img |-> i, pix |-> None]
      OBVIOUS
    <3>2. writers' = Append(writers, w) /\ pixmap' = pixmap
      BY <1>2, <2>2, <3>1 DEF OpenWriter
    <3>3. w.img = i /\ w.pix = None
      BY <3>1
    <3>4. QED
      BY <2>2, <3>2, <3>3
  <2>3. QED
    BY <2>1, <2>2
<1>5. /\ DOMAIN writers' = DOMAIN writers \cup {n} /\ n \notin DOMAIN writers
      /\ writers'[n] = w /\ \A k \in DOMAIN writers : writers'[k] = writers[k]
  BY <1>0, <1>3, <1>4
<1> SUFFICES ASSUME NEW q \in Pixmaps
             PROVE  LockOK(q)'
  BY LocksNamed DEF LocksMatchWriters, LockOK, OpenOn
<1>6. LockOK(q)
  BY <1>1, LocksNamed
<1>7. CASE q = p /\ Lockable(p, i)
  <2>1. OpenOn(q)' = OpenOn(q) \cup {n} /\ n \notin OpenOn(q)
    BY <1>4, <1>5, <1>7 DEF OpenOn
  <2>2. IsFiniteSet(OpenOn(q)) /\ Cardinality(OpenOn(q)) \in Nat
    BY <1>0, OpenFinite DEF OpenOn
  <2>3. Cardinality(OpenOn(q)') = Cardinality(OpenOn(q)) + 1
    BY <2>1, <2>2, FS_AddElement
  <2>4. pixmap'[q].locked = pixmap[q].locked + 1 /\ pixmap'[q].master = i
    <3>1. pixmap' = [pixmap EXCEPT ![p].locked = @ + 1, ![p].master = i]
      BY <1>4, <1>7
    <3>2. QED
      BY <1>0, <1>7, <3>1 DEF PixmapType
  <2>5. i # None
    BY ImageAssumption
  <2>6. \A k \in OpenOn(q) : writers[k].img = i
    <3>1. CASE pixmap[p].locked = 0
      BY <1>6, <1>7, <2>2, <3>1, FS_EmptySet DEF LockOK
    <3>2. CASE pixmap[p].master = i
      BY <1>6, <1>7, <3>2 DEF LockOK
    <3>3. QED
      BY <1>7, <3>1, <3>2 DEF Lockable
  <2>7. \A k \in OpenOn(q)' : writers'[k].img = i
    BY <1>4, <1>5, <2>1, <2>6 DEF OpenOn
  <2>8. QED
    BY <1>1, <1>2, <1>6, <1>7, <2>1, <2>3, <2>4, <2>5, <2>7 DEF LockOK
<1>8. CASE ~(q = p /\ Lockable(p, i))
  <2>1. pixmap'[q] = pixmap[q]
    <3>1. CASE Lockable(p, i)
      <4>1. pixmap' = [pixmap EXCEPT ![p].locked = @ + 1, ![p].master = i] /\ q # p
        BY <1>4, <1>8, <3>1
      <4>2. QED
        BY <1>0, <4>1
    <3>2. CASE ~Lockable(p, i)
      BY <1>4, <3>2
    <3>3. QED
      BY <3>1, <3>2
  <2>2. w.pix # q
    BY <1>4, <1>8, ImageAssumption
  <2>3. OpenOn(q)' = OpenOn(q)
    BY <1>4, <1>5, <2>2 DEF OpenOn
  <2>4. \A k \in OpenOn(q) : writers'[k].img = writers[k].img
    BY <1>5 DEF OpenOn
  <2>5. QED
    BY <1>1, <1>6, <2>1, <2>3, <2>4 DEF LockOK
<1>9. QED
  BY <1>7, <1>8

(* A copied iterator has locked nothing.                                   *)
LEMMA CopyKeepsLocks ==
    ASSUME IInv, LocksMatchWriters, NEW k \in DOMAIN writers, CopyWriter(k), ~misused'
    PROVE  LocksMatchWriters'
<1>1. /\ writers \in Seq(WriterType) /\ DOMAIN writers = 1..Len(writers)
      /\ Len(writers) \in Nat /\ UNCHANGED <<image, pixmap>> /\ ~misused
  BY Types, WriterTypes DEF CopyWriter
<1>2. PICK n \in Nat : n = Len(writers) + 1
  BY <1>1
<1>3. PICK w : w.pix = None /\ writers' = Append(writers, w)
  <2>1. PICK w : w = [img |-> writers[k].img, pix |-> None]
    OBVIOUS
  <2>2. w.pix = None /\ writers' = Append(writers, w)
    BY <2>1 DEF CopyWriter
  <2>3. QED
    BY <2>2
<1>4. /\ DOMAIN writers' = DOMAIN writers \cup {n} /\ writers'[n] = w
      /\ \A j \in DOMAIN writers : writers'[j] = writers[j]
  BY <1>1, <1>2, <1>3
<1> SUFFICES ASSUME NEW q \in Pixmaps
             PROVE  LockOK(q)'
  BY LocksNamed DEF LocksMatchWriters, LockOK, OpenOn
<1>5. OpenOn(q)' = OpenOn(q)
  BY <1>3, <1>4, ImageAssumption DEF OpenOn
<1>6. \A j \in OpenOn(q) : writers'[j].img = writers[j].img
  BY <1>4 DEF OpenOn
<1>7. LockOK(q)
  BY <1>1, LocksNamed
<1>8. QED
  BY <1>1, <1>5, <1>6, <1>7 DEF LockOK

(* Closing or destroying an iterator takes back its own lock, and none if  *)
(* it has none.                                                            *)
LEMMA UnlockKeepsLocks ==
    ASSUME IInv, LocksMatchWriters, ~misused, NEW k \in DOMAIN writers,
           NEW i \in Images, i = writers[k].img,
           pixmap' = Unlocked(i), UNCHANGED image,
           writers[k].pix = None => ~Writing(i),
           \A q \in Pixmaps : OpenOn(q)' = OpenOn(q) \ {k},
           \A q \in Pixmaps : \A j \in OpenOn(q)' : writers'[j].img = writers[j].img
    PROVE  LocksMatchWriters'
<1>0. /\ image \in [Images -> ImageType] /\ pixmap \in [Pixmaps -> PixmapType]
      /\ writers \in Seq(WriterType)
  BY Types
<1>1. \A q \in Pixmaps : LockOK(q)
  BY LocksNamed
<1>2. \A q \in Pixmaps : IsFiniteSet(OpenOn(q)) /\ Cardinality(OpenOn(q)) \in Nat
  BY <1>0, OpenFinite DEF OpenOn
<1> SUFFICES ASSUME NEW q \in Pixmaps
             PROVE  LockOK(q)'
  BY LocksNamed DEF LocksMatchWriters, LockOK, OpenOn
<1>3. CASE writers[k].pix = None
  <2>1. PICK p : p = image[i].pix
    OBVIOUS
  <2>2. p \notin Pixmaps \/ pixmap[p].locked = 0 \/ pixmap[p].master # i
    <3> SUFFICES ASSUME p \in Pixmaps, pixmap[p].locked # 0, pixmap[p].master = i
                 PROVE  FALSE
      OBVIOUS
    <3>0. OpenOn(p) # {}
      <4>1. Cardinality(OpenOn(p)) # 0
        BY <1>1 DEF LockOK
      <4>2. Cardinality({}) = 0
        BY FS_EmptySet
      <4>3. QED
        BY <4>1, <4>2
    <3>1. PICK j : j \in OpenOn(p)
      BY <3>0
    <3>2. j \in DOMAIN writers /\ writers[j].img = i /\ writers[j].pix # None
      <4>1. writers[j].img = i
        BY <1>1, <3>1 DEF LockOK
      <4>2. j \in DOMAIN writers /\ writers[j].pix = p
        BY <3>1 DEF OpenOn
      <4>3. QED
        BY <4>1, <4>2, ImageAssumption
    <3>3. QED
      BY <1>3, <3>2 DEF Writing
  <2>3. pixmap' = pixmap
    BY <1>0, <2>1, <2>2 DEF Unlocked
  <2>4. OpenOn(q)' = OpenOn(q)
    BY <1>3, ImageAssumption DEF OpenOn
  <2>5. QED
    BY <1>1, <2>3, <2>4 DEF LockOK
<1>4. CASE writers[k].pix # None
  <2>1. PICK p \in Pixmaps : p = writers[k].pix
    BY <1>4, WriterTypes
  <2>2. k \in OpenOn(p) /\ image[i].pix = p /\ pixmap[p].master = i
    BY <1>1, <2>1 DEF LockOK, OpenOn
  <2>3. /\ Cardinality(OpenOn(p) \ {k}) = Cardinality(OpenOn(p)) - 1
        /\ IsFiniteSet(OpenOn(p) \ {k}) /\ Cardinality(OpenOn(p) \ {k}) \in Nat
    BY <1>2, <2>2, FS_RemoveElement, FS_CardinalityType
  <2>4. /\ pixmap[p].locked = Cardinality(OpenOn(p)) /\ pixmap[p].locked # 0
    BY <1>1, <1>2, <2>3 DEF LockOK
  <2>5. pixmap' = [pixmap EXCEPT ![p].locked = @ - 1,
                                 ![p].master = IF pixmap[p].locked = 1 THEN None ELSE @]
    BY <2>2, <2>4 DEF Unlocked
  <2>6. CASE q = p
    <3>1. /\ pixmap'[p].locked = pixmap[p].locked - 1
          /\ pixmap'[p].master = IF pixmap[p].locked = 1 THEN None ELSE i
      BY <1>0, <2>2, <2>5 DEF PixmapType
    <3>2. pixmap[p].locked = 1 <=> OpenOn(p) \ {k} = {}
      BY <1>2, <2>3, <2>4, FS_EmptySet
    <3>3. i # None
      BY ImageAssumption
    <3>4. \A j \in OpenOn(p)' : writers'[j].img = i /\ image'[i].pix = p
      BY <1>1, <2>2 DEF LockOK
    <3>5. OpenOn(p)' # {} => pixmap'[p].master = i
      BY <3>1, <3>2
    <3>6. QED
      BY <2>3, <2>4, <2>6, <3>1, <3>2, <3>3, <3>4, <3>5 DEF LockOK
  <2>7. CASE q # p
    <3>1. pixmap'[q] = pixmap[q]
      BY <1>0, <2>5, <2>7
    <3>2. OpenOn(q)' = OpenOn(q)
      BY <2>1, <2>7 DEF OpenOn
    <3>3. QED
      BY <1>1, <3>1, <3>2 DEF LockOK
  <2>8. QED
    BY <2>6, <2>7
<1>5. QED
  BY <1>3, <1>4

(* A pixmap is locked as often as it has write iterators that locked it,   *)
(* all of the one image that is its master - until an image moves with an  *)
(* iterator open or one without a lock releases another one's.  What the   *)
(* memory held at a new pixmap's master makes no difference.               *)
THEOREM LocksAreWriters == Spec => []LocksMatchWriters
<1>1. Init => LocksMatchWriters
  <2> SUFFICES ASSUME Init, NEW p \in Pixmaps
               PROVE  LockOK(p)
    BY LocksNamed
  <2>1. OpenOn(p) = {}
    BY DEF OpenOn, Init
  <2>2. pixmap[p].locked = 0
    BY DEF Init, Deleted
  <2>3. QED
    BY <2>1, <2>2, FS_EmptySet DEF LockOK
<1>2. IInv /\ LocksMatchWriters /\ [Next]_vars => LocksMatchWriters'
  <2> SUFFICES ASSUME IInv, LocksMatchWriters, [Next]_vars, ~misused'
               PROVE  LocksMatchWriters'
    BY DEF LocksMatchWriters
  <2>0. misused \in BOOLEAN
    BY Types
  <2>1. ASSUME NEW i \in Images, StepOf(i) PROVE LocksMatchWriters'
    BY <2>1, ImagesKeepLocks
  <2>2. ASSUME NEW i \in Images, OpenWriter(i) PROVE LocksMatchWriters'
    BY <2>2, OpenKeepsLocks
  <2>3. ASSUME NEW k \in DOMAIN writers, CloseWriter(k) PROVE LocksMatchWriters'
    <3>1. PICK i \in Images : i = writers[k].img
      BY WriterTypes
    <3>2. /\ ~misused /\ pixmap' = Unlocked(i) /\ UNCHANGED image
          /\ writers[k].pix = None => ~Writing(i)
          /\ writers' = [writers EXCEPT ![k].pix = None]
      BY <2>0, <2>3, <3>1 DEF CloseWriter, Undercuts
    <3>3. PICK w : w = [writers[k] EXCEPT !.pix = None]
      OBVIOUS
    <3>4. w.pix = None /\ w.img = i
      BY <3>1, <3>3, WriterTypes DEF WriterType
    <3>5. DOMAIN writers' = DOMAIN writers
          /\ \A j \in DOMAIN writers : writers'[j] = IF j = k THEN w ELSE writers[j]
      BY <3>2, <3>3, WriterTypes
    <3>6. \A q \in Pixmaps : OpenOn(q)' = OpenOn(q) \ {k}
      BY <3>4, <3>5, ImageAssumption DEF OpenOn
    <3>7. \A q \in Pixmaps : \A j \in OpenOn(q)' : writers'[j].img = writers[j].img
      BY <3>5, <3>6 DEF OpenOn
    <3>8. QED
      BY <3>1, <3>2, <3>6, <3>7, UnlockKeepsLocks
  <2>4. CASE DestroyWriter
    <3>1. PICK k \in DOMAIN writers : k = Len(writers)
      BY <2>4, WriterTypes DEF DestroyWriter
    <3>2. PICK i \in Images : i = writers[k].img
      BY WriterTypes
    <3>3. /\ ~misused /\ pixmap' = Unlocked(i) /\ UNCHANGED image
          /\ writers[k].pix = None => ~Writing(i)
          /\ writers' = SubSeq(writers, 1, Len(writers) - 1)
      BY <2>0, <2>4, <3>1, <3>2 DEF DestroyWriter, Undercuts
    <3>4. DOMAIN writers' = DOMAIN writers \ {k}
          /\ \A j \in DOMAIN writers \ {k} : writers'[j] = writers[j]
      BY <3>1, <3>3, WriterTypes
    <3>5. \A q \in Pixmaps : OpenOn(q)' = OpenOn(q) \ {k}
      BY <3>4 DEF OpenOn
    <3>6. \A q \in Pixmaps : \A j \in OpenOn(q)' : writers'[j].img = writers[j].img
      BY <3>4, <3>5 DEF OpenOn
    <3>7. QED
      BY <3>2, <3>3, <3>5, <3>6, UnlockKeepsLocks
  <2>5. ASSUME NEW k \in DOMAIN writers, CopyWriter(k) PROVE LocksMatchWriters'
    BY <2>0, <2>5, CopyKeepsLocks
  <2>6. CASE UNCHANGED vars
    BY <2>6 DEF vars, LocksMatchWriters
  <2>7. QED
    BY <2>1, <2>2, <2>3, <2>4, <2>5, <2>6 DEF Next, CallOf, StepOf, Unlock
<1>3. QED
  BY <1>1, <1>2, InitOK, StepOK, PTL DEF Spec
=============================================================================
