---------------------------- MODULE DV1394_proofs ----------------------------
(* No DVFrame is lost or used twice (DV1394.tla), for any number of        *)
(* buffers, packets, calls, lost packets and reopenings.                   *)
EXTENDS DV1394, VideoClient_proofs, FiniteSetTheorems

(* A frame is decoded only after one was taken. *)
Decodable == Doing("decode") => frame_ring[Head(todo).buf] # NULL
TInv == TypeOK /\ Decodable

(* A step of the client's is for one of the buffers. *)
LEMMA HeadOK ==
    ASSUME ClientOK, InCall
    PROVE  Head(todo).buf \in Buffers
<1>1. Head(todo) \in Step
  BY DEF ClientOK, InCall
<1>2. QED
  BY <1>1 DEF Step

(* What comes next in a plan is not a decoding. *)
LEMMA PlanDecodable ==
    ASSUME todo' \in Seq(PlanStep)
    PROVE  Decodable'
<1>1. todo' # <<>> => Head(todo') \in PlanStep
  OBVIOUS
<1>2. QED
  BY <1>1 DEF Decodable, Doing, PlanStep

(* The same after a step of a plan *)
LEMMA DoneDecodable ==
    ASSUME ClientOK, InCall, Done
    PROVE  ClientOK' /\ Decodable'
<1>1. todo' \in Seq(PlanStep)
  BY DEF ClientOK, Done
<1>2. QED
  BY <1>1, PlanDecodable, DoneType

(* The client's variables are left alone. *)
LEMMA SameClient == ClientOK /\ UNCHANGED client => ClientOK'
  BY DEF ClientOK, client, InCall

(* There is a first position, and the next packet is one of the camera's.  *)
LEMMA PacketsType ==
    /\ 0 \in Positions
    /\ \A n \in 0..MaxShots : NextShot(n) \in 0..MaxShots
    /\ cam \in Packet => NextPacket \in Packet
<1>1. 0 \in Positions
  BY DVAssumption DEF Positions
<1>2. \A n \in 0..MaxShots : NextShot(n) \in 0..MaxShots
  BY DVAssumption DEF NextShot
<1>3. ASSUME cam \in Packet PROVE NextPacket \in Packet
  <2>1. PICK s \in 0..MaxShots, p \in Positions : cam.shot = s /\ cam.pos = p
    BY <1>3 DEF Packet
  <2>2. NextShot(s) \in 0..MaxShots
    BY <1>2
  <2>3. p # Packets - 1 => p + 1 \in Positions
    BY DVAssumption DEF Positions
  <2>4. QED
    BY <1>1, <2>1, <2>2, <2>3 DEF NextPacket, Packet
<1>4. QED
  BY <1>1, <1>2, <1>3

(* The constructor *)
LEMMA InitType == Init => TInv
<1> SUFFICES ASSUME Init
             PROVE  TInv
  OBVIOUS
<1>1. ClientOK
  BY ClientInitType DEF Init
<1>2. [i \in DVFrames |-> i] \in Seq(DVFrames)
  BY RingAssumption DEF DVFrames
<1>3. 0 \in Positions /\ Packets - 1 \in Positions /\ 0 \in 0..MaxShots
  BY DVAssumption DEF Positions
<1>4. cam \in Packet /\ packet \in Packet
  BY <1>3 DEF Init, Packet
<1>5. /\ data \in [DVFrames -> [Positions -> 0..MaxShots]]
      /\ images \in [Buffers -> [Positions -> 0..MaxShots]]
  BY <1>3 DEF Init
<1>6. frame_ring \in [Buffers -> DVFrameOrNull] /\ current_frame \in DVFrameOrNull
  BY DEF Init, DVFrameOrNull
<1>7. Decodable
  BY DEF Init, ClientInit, Decodable, Doing
<1>8. /\ buffer_queue \in Seq(DVFrames) /\ output_queue \in Seq(DVFrames)
      /\ taken \in 0..MaxShots /\ lost \in 0..MaxLost
  BY <1>2, DVAssumption DEF Init
<1>9. QED
  BY <1>1, <1>4, <1>5, <1>6, <1>7, <1>8 DEF Init, TInv, TypeOK

(* A call begins. *)
LEMMA CallType ==
    ASSUME TInv, Call
    PROVE  TInv'
<1>1. ClientOK' /\ todo' \in Seq(PlanStep)
  BY BeginCallType, BeginCallPlans DEF TInv, TypeOK, Call
<1>2. QED
  BY <1>1, PlanDecodable DEF TInv, TypeOK, Call, frames, queues, reader, bus, session

(* initiate_acquire() *)
LEMMA InitiateAcquireType ==
    ASSUME TInv, InitiateAcquire
    PROVE  TInv'
<1>1. ClientOK /\ InCall /\ ClientOK' /\ Decodable'
  BY DoneDecodable DEF TInv, TypeOK, InitiateAcquire, Doing, InCall
<1>2. PICK b \in Buffers : b = Head(todo).buf
  BY <1>1, HeadOK
<1>3. /\ buffer_queue' = IF frame_ring[b] = NULL THEN buffer_queue
                         ELSE Append(buffer_queue, frame_ring[b])
      /\ frame_ring' = [frame_ring EXCEPT ![b] = NULL]
  BY <1>2 DEF InitiateAcquire
<1>4. buffer_queue' \in Seq(DVFrames)
  <2>1. frame_ring[b] # NULL => frame_ring[b] \in DVFrames
    BY DEF TInv, TypeOK, DVFrameOrNull
  <2>2. QED
    BY <1>3, <2>1 DEF TInv, TypeOK
<1>5. frame_ring' \in [Buffers -> DVFrameOrNull]
  BY <1>3 DEF TInv, TypeOK, DVFrameOrNull
<1>6. QED
  BY <1>1, <1>4, <1>5 DEF TInv, TypeOK, InitiateAcquire, reader, bus, session

(* wait_for_completion() forgets. *)
LEMMA WaitForgetType ==
    ASSUME TInv, WaitForget
    PROVE  TInv'
<1>1. ClientOK /\ InCall /\ Becomes("take")
  BY DEF TInv, TypeOK, WaitForget, Doing, InCall
<1>2. ClientOK' /\ Doing("take")'
  BY <1>1, BecomesType, BecomesSame DEF Ops
<1>3. PICK b \in Buffers : b = Head(todo).buf
  BY <1>1, HeadOK
<1>4. frame_ring' = [frame_ring EXCEPT ![b] = NULL]
  BY <1>3 DEF WaitForget
<1>5. frame_ring' \in [Buffers -> DVFrameOrNull]
  BY <1>4 DEF TInv, TypeOK, DVFrameOrNull
<1>6. Decodable'
  BY <1>2 DEF Decodable, Doing
<1>7. QED
  BY <1>2, <1>5, <1>6 DEF TInv, TypeOK, WaitForget, queues, reader, bus, session

(* wait_for_completion() takes the newest frame. *)
LEMMA WaitTakeType ==
    ASSUME TInv, WaitTake
    PROVE  TInv'
<1>1. ClientOK /\ InCall /\ Becomes("decode")
  BY DEF TInv, TypeOK, WaitTake, Doing, InCall
<1>2. ClientOK' /\ Doing("decode")' /\ Head(todo').buf = Head(todo).buf
  BY <1>1, BecomesType, BecomesSame DEF Ops
<1>3. PICK b \in Buffers : b = Head(todo).buf
  BY <1>1, HeadOK
<1>4. output_queue # <<>> /\ output_queue \in Seq(DVFrames) /\ buffer_queue \in Seq(DVFrames)
  BY DEF WaitTake, TInv, TypeOK
<1>5. PICK f \in DVFrames : f = NewestComplete
  BY <1>4, FrontSet DEF NewestComplete
<1>6. OlderFrames \in Seq(DVFrames)
  BY <1>4, FrontSet DEF OlderFrames
<1>7. buffer_queue' \in Seq(DVFrames) /\ output_queue' \in Seq(DVFrames)
  BY <1>4, <1>6, ConcatSet DEF WaitTake
<1>8. frame_ring' = [frame_ring EXCEPT ![b] = f] /\ taken' = data[f][0]
  BY <1>3, <1>5 DEF WaitTake, Number
<1>9. frame_ring' \in [Buffers -> DVFrameOrNull] /\ frame_ring'[b] = f
  BY <1>8 DEF TInv, TypeOK, DVFrameOrNull
<1>10. taken' \in 0..MaxShots
  BY <1>8, PacketsType DEF TInv, TypeOK
<1>11. Decodable'
  BY <1>2, <1>3, <1>9 DEF Decodable, DVFrames, NULL
<1>12. QED
  BY <1>2, <1>7, <1>9, <1>10, <1>11 DEF TInv, TypeOK, WaitTake, reader, bus, session

(* decode_frame() *)
LEMMA DecodeType ==
    ASSUME TInv, Decode
    PROVE  TInv'
<1>1. ClientOK /\ InCall /\ ClientOK' /\ Decodable' /\ Doing("decode")
  BY DoneDecodable DEF TInv, TypeOK, Decode, Doing, InCall
<1>2. PICK b \in Buffers : b = Head(todo).buf
  BY <1>1, HeadOK
<1>3. PICK f \in DVFrames : f = frame_ring[b]
  BY <1>1, <1>2 DEF TInv, TypeOK, Decodable, DVFrameOrNull
<1>4. images' = [images EXCEPT ![b] = data[f]]
  BY <1>2, <1>3 DEF Decode
<1>5. images' \in [Buffers -> [Positions -> 0..MaxShots]]
  BY <1>4 DEF TInv, TypeOK
<1>6. QED
  BY <1>1, <1>5 DEF TInv, TypeOK, Decode, frames, queues, reader, bus, session

(* The frame is handed out. *)
LEMMA ReturnFrameType ==
    ASSUME TInv, ReturnFrame
    PROVE  TInv'
<1>1. ClientOK /\ InCall
  BY DEF TInv, TypeOK, ReturnFrame, Doing, InCall
<1>2. PICK stamp : stamp = images[Head(todo).buf]
  OBVIOUS
<1>3. Return(stamp)
  BY <1>2 DEF ReturnFrame
<1>4. ClientOK'
  BY <1>1, <1>3, ReturnType
<1>5. todo' \in Seq(PlanStep)
  BY <1>1, <1>3 DEF Return, ClientOK
<1>6. QED
  BY <1>4, <1>5, PlanDecodable
     DEF TInv, TypeOK, ReturnFrame, frames, queues, reader, bus, session

(* Steps that leave the client and the DVFrames alone *)
SessionStep == \/ Close \/ CloseDone \/ Open \/ ReaderEnd \/ Receive \/ LosePacket
               \/ UNCHANGED vars

(* Sessions, packets and their loss *)
LEMMA SessionType ==
    ASSUME TInv, SessionStep
    PROVE  TInv'
<1>1. UNCHANGED client /\ UNCHANGED frames /\ UNCHANGED images
  BY DEF SessionStep, Close, CloseDone, Open, ReaderEnd, Receive, LosePacket, vars
<1>2. ClientOK' /\ Decodable'
  BY <1>1, SameClient DEF TInv, TypeOK, Decodable, Doing, client, frames
<1>3. cam \in Packet /\ packet \in Packet
  BY DEF TInv, TypeOK
<1>4. cam' \in Packet
  <2>1. CASE Open
    <3>1. NextShot(cam.shot) \in 0..MaxShots
      BY <1>3, PacketsType DEF Packet
    <3>2. QED
      BY <2>1, <3>1 DEF Open, Packet
  <2>2. CASE Receive \/ LosePacket
    BY <1>3, <2>2, PacketsType DEF Receive, LosePacket
  <2>3. CASE Close \/ CloseDone \/ ReaderEnd \/ UNCHANGED vars
    BY <1>3, <2>3 DEF Close, CloseDone, ReaderEnd, vars, bus
  <2>4. QED
    BY <2>1, <2>2, <2>3 DEF SessionStep
<1>5. /\ packet' \in Packet /\ lost' \in 0..MaxLost
      /\ reader_active' \in BOOLEAN /\ handle' \in BOOLEAN /\ closing' \in BOOLEAN
      /\ rpc' \in {"none", "start", "loop", "start_of_frame", "copy", "end"}
      /\ taken' \in 0..MaxShots /\ dropped' \subseteq 0..MaxShots
  <2>1. CASE Open
    BY <2>1 DEF Open, TInv, TypeOK
  <2>2. CASE Receive
    BY <2>2 DEF Receive, TInv, TypeOK, session
  <2>3. CASE LosePacket
    BY <2>3, DVAssumption DEF LosePacket, TInv, TypeOK, reader, session
  <2>4. CASE Close \/ CloseDone
    BY <2>4 DEF Close, CloseDone, TInv, TypeOK, reader, bus, session
  <2>5. CASE ReaderEnd \/ UNCHANGED vars
    BY <2>5 DEF ReaderEnd, Reset, TInv, TypeOK, vars, reader, bus, session
  <2>6. QED
    BY <2>1, <2>2, <2>3, <2>4, <2>5 DEF SessionStep
<1>6. QED
  BY <1>1, <1>2, <1>4, <1>5 DEF TInv, TypeOK, frames, queues

(* The reader's steps *)
LEMMA ReaderStartType ==
    ASSUME TInv, ReaderStart
    PROVE  TInv'
<1>1. ClientOK' /\ Decodable'
  BY SameClient DEF TInv, TypeOK, ReaderStart, Decodable, Doing, client
<1>2. QED
  BY <1>1 DEF TInv, TypeOK, ReaderStart, queues, bus, session, DVFrameOrNull

(* A new frame starts. *)
LEMMA StartOfFrameType ==
    ASSUME TInv, StartOfFrame
    PROVE  TInv'
<1>1. ClientOK' /\ Decodable'
  BY SameClient DEF TInv, TypeOK, StartOfFrame, Decodable, Doing, client
<1>2. output_queue' \in Seq(DVFrames)
  <2>1. current_frame # NULL => current_frame \in DVFrames
    BY DEF TInv, TypeOK, DVFrameOrNull
  <2>2. QED
    BY <2>1 DEF TInv, TypeOK, StartOfFrame
<1>3. buffer_queue' \in Seq(DVFrames) /\ current_frame' \in DVFrameOrNull
  BY DEF TInv, TypeOK, StartOfFrame, NextCurrent, DVFrameOrNull
<1>4. dropped' \subseteq 0..MaxShots
  <2>1. packet.shot \in 0..MaxShots
    BY DEF TInv, TypeOK, Packet
  <2>2. QED
    BY <2>1 DEF TInv, TypeOK, StartOfFrame
<1>5. QED
  BY <1>1, <1>2, <1>3, <1>4 DEF TInv, TypeOK, StartOfFrame, bus, session

(* A packet is copied. *)
LEMMA CopyPacketType ==
    ASSUME TInv, CopyPacket
    PROVE  TInv'
<1>1. ClientOK' /\ Decodable'
  BY SameClient DEF TInv, TypeOK, CopyPacket, Decodable, Doing, client
<1>2. PICK s \in 0..MaxShots, p \in Positions : packet.shot = s /\ packet.pos = p
  BY DEF TInv, TypeOK, Packet
<1>3. data' \in [DVFrames -> [Positions -> 0..MaxShots]]
  <2>1. CASE current_frame = NULL
    BY <2>1 DEF TInv, TypeOK, CopyPacket
  <2>2. CASE current_frame # NULL
    <3>1. PICK f \in DVFrames : f = current_frame
      BY <2>2 DEF TInv, TypeOK, DVFrameOrNull
    <3>2. data' = [data EXCEPT ![f] = [data[f] EXCEPT ![p] = s]]
      BY <1>2, <2>2, <3>1 DEF CopyPacket, TInv, TypeOK
    <3>3. [data[f] EXCEPT ![p] = s] \in [Positions -> 0..MaxShots]
      BY DEF TInv, TypeOK
    <3>4. QED
      BY <3>2, <3>3 DEF TInv, TypeOK
  <2>3. QED
    BY <2>1, <2>2
<1>4. QED
  BY <1>1, <1>3 DEF TInv, TypeOK, CopyPacket, queues, bus, session

(* The frame in use is put back. *)
LEMMA ReaderPutBackType ==
    ASSUME TInv, ReaderPutBack
    PROVE  TInv'
<1>1. ClientOK' /\ Decodable'
  BY SameClient DEF TInv, TypeOK, ReaderPutBack, Decodable, Doing, client
<1>2. buffer_queue' \in Seq(DVFrames)
  <2>1. current_frame # NULL => current_frame \in DVFrames
    BY DEF TInv, TypeOK, DVFrameOrNull
  <2>2. QED
    BY <2>1 DEF TInv, TypeOK, ReaderPutBack, PutBack
<1>3. QED
  BY <1>1, <1>2 DEF TInv, TypeOK, ReaderPutBack, bus, session

(* Every step keeps the types. *)
LEMMA NextType == TInv /\ [Next]_vars => TInv'
<1> SUFFICES ASSUME TInv, [Next]_vars
             PROVE  TInv'
  OBVIOUS
<1>1. CASE Call \/ Client
  BY <1>1, CallType, InitiateAcquireType, WaitForgetType, WaitTakeType, DecodeType,
     ReturnFrameType, SessionType DEF Client, SessionStep
<1>2. CASE Reader
  BY <1>2, ReaderStartType, SessionType, StartOfFrameType, CopyPacketType, ReaderPutBackType
     DEF Reader, SessionStep
<1>3. CASE Close \/ Open \/ LosePacket \/ UNCHANGED vars
  BY <1>3, SessionType DEF SessionStep
<1>4. QED
  BY <1>1, <1>2, <1>3 DEF Next

(* The variables keep their types: among them the entries of frame_ring,   *)
(* of which decode_frame() is never given one that is NULL.                *)
THEOREM TypeCorrect == Spec => []TypeOK
<1>1. TInv => TypeOK
  BY DEF TInv
<1>2. QED
  BY <1>1, InitType, NextType, PTL DEF Spec
-----------------------------------------------------------------------------
(* Where DVFrames are: what `ring', the queues `unused' and `complete' and *)
(* the reader's frame `cur' hold are different ones, and together all.     *)
Placed(ring, unused, complete, cur) ==
    /\ IsInjective(unused) /\ IsInjective(complete)
    /\ ToSet(unused) \cap ToSet(complete) = {}
    /\ \A b, c \in Buffers : ring[b] = ring[c] /\ ring[b] # NULL => b = c
    /\ \A b \in Buffers : /\ ring[b] \notin ToSet(unused) \cup ToSet(complete)
                          /\ ring[b] = cur => cur = NULL
    /\ cur \notin ToSet(unused) \cup ToSet(complete)
    /\ \A f \in DVFrames : \/ f \in ToSet(unused) \cup ToSet(complete) \cup {cur}
                           \/ \E b \in Buffers : ring[b] = f

(* DVFrames are not NULL. *)
LEMMA QueueNotNull ==
    ASSUME NEW q \in Seq(DVFrames)
    PROVE  NULL \notin ToSet(q)
<1>1. \A i \in DOMAIN q : q[i] \in DVFrames
  OBVIOUS
<1>2. NULL \notin DVFrames
  BY DEF NULL, DVFrames
<1>3. QED
  BY <1>1, <1>2 DEF ToSet

(* The buffer's DVFrame becomes unused. *)
LEMMA PlacedUnused ==
    ASSUME NEW ring \in [Buffers -> DVFrameOrNull], NEW unused \in Seq(DVFrames),
           NEW complete \in Seq(DVFrames), NEW cur \in DVFrameOrNull,
           Placed(ring, unused, complete, cur),
           NEW b \in Buffers, ring[b] # NULL
    PROVE  Placed([ring EXCEPT ![b] = NULL], Append(unused, ring[b]), complete, cur)
<1>1. PICK f \in DVFrames : f = ring[b] /\ f # NULL
  BY DEF DVFrameOrNull
<1>2. PICK q \in Seq(DVFrames) : q = Append(unused, f)
  <2>1. Append(unused, f) \in Seq(DVFrames)
    OBVIOUS
  <2>2. QED
    BY <2>1
<1>3. ToSet(q) = ToSet(unused) \cup {f} /\ IsInjective(q)
  BY <1>1, <1>2, AppendSet DEF Placed
<1>4. PICK r \in [Buffers -> DVFrameOrNull] :
        r[b] = NULL /\ (\A c \in Buffers \ {b} : r[c] = ring[c])
        /\ r = [ring EXCEPT ![b] = NULL]
  <2>1. [ring EXCEPT ![b] = NULL] \in [Buffers -> DVFrameOrNull]
    BY DEF DVFrameOrNull
  <2>2. QED
    BY <2>1
<1>5. NULL \notin ToSet(q) /\ NULL \notin ToSet(complete)
  BY QueueNotNull
<1>6. \A c, d \in Buffers : r[c] = r[d] /\ r[c] # NULL => c = d
  BY <1>4 DEF Placed
<1>7. \A c \in Buffers : r[c] \notin ToSet(q) \cup ToSet(complete)
  BY <1>1, <1>3, <1>4, <1>5 DEF Placed
<1>8. \A c \in Buffers : r[c] = cur => cur = NULL
  BY <1>4 DEF Placed
<1>9. cur \notin ToSet(q) \cup ToSet(complete) /\ ToSet(q) \cap ToSet(complete) = {}
  BY <1>1, <1>3 DEF Placed
<1>10. \A g \in DVFrames : \/ g \in ToSet(q) \cup ToSet(complete) \cup {cur}
                           \/ \E c \in Buffers : r[c] = g
  BY <1>1, <1>3, <1>4 DEF Placed
<1>11. Placed(r, q, complete, cur)
  BY <1>3, <1>6, <1>7, <1>8, <1>9, <1>10 DEF Placed
<1>12. QED
  BY <1>1, <1>2, <1>4, <1>11

(* The newest complete frame becomes the buffer's, the others unused.      *)
LEMMA PlacedTaken ==
    ASSUME NEW ring \in [Buffers -> DVFrameOrNull], NEW unused \in Seq(DVFrames),
           NEW complete \in Seq(DVFrames), NEW cur \in DVFrameOrNull,
           Placed(ring, unused, complete, cur),
           NEW b \in Buffers, ring[b] = NULL, complete # <<>>
    PROVE  Placed([ring EXCEPT ![b] = Last(complete)], unused \o Front(complete), <<>>, cur)
<1>1. PICK f \in DVFrames : f = Last(complete) /\ f # NULL
  <2>1. Last(complete) \in DVFrames
    BY FrontSet
  <2>2. NULL \notin DVFrames
    BY DEF DVFrames, NULL
  <2>3. QED
    BY <2>1, <2>2
<1>2. PICK older \in Seq(DVFrames) : older = Front(complete)
  BY FrontSet
<1>3. ToSet(complete) = ToSet(older) \cup {f} /\ IsInjective(older) /\ f \notin ToSet(older)
  BY <1>1, <1>2, FrontSet DEF Placed
<1>4. ToSet(unused) \cap ToSet(older) = {} /\ IsInjective(unused)
  BY <1>3 DEF Placed
<1>5. PICK q \in Seq(DVFrames) : q = unused \o older
  BY ConcatSet
<1>6. ToSet(q) = ToSet(unused) \cup ToSet(older) /\ IsInjective(q)
  BY <1>3, <1>4, <1>5, ConcatSet
<1>7. PICK r \in [Buffers -> DVFrameOrNull] :
        r[b] = f /\ (\A c \in Buffers \ {b} : r[c] = ring[c]) /\ r = [ring EXCEPT ![b] = f]
  <2>1. [ring EXCEPT ![b] = f] \in [Buffers -> DVFrameOrNull]
    BY DEF DVFrameOrNull
  <2>2. QED
    BY <2>1
<1>8. ToSet(<<>>) = {} /\ IsInjective(<<>>)
  BY DEF ToSet, IsInjective
<1>9. f \in ToSet(complete) /\ ToSet(older) \subseteq ToSet(complete)
  BY <1>3
<1>10. \A c, d \in Buffers : r[c] = r[d] /\ r[c] # NULL => c = d
  BY <1>7, <1>9 DEF Placed
<1>11. \A c \in Buffers : r[c] \notin ToSet(q)
  BY <1>3, <1>6, <1>7, <1>9 DEF Placed
<1>12. \A c \in Buffers : r[c] = cur => cur = NULL
  BY <1>7, <1>9 DEF Placed
<1>13. cur \notin ToSet(q)
  BY <1>6, <1>9 DEF Placed
<1>14. \A g \in DVFrames : g \in ToSet(q) \cup {cur} \/ \E c \in Buffers : r[c] = g
  <2>1. TAKE g \in DVFrames
  <2>2. CASE g \in ToSet(complete)
    BY <1>3, <1>6, <1>7, <2>2
  <2>3. CASE \E c \in Buffers : ring[c] = g
    <3>1. g # NULL
      BY DEF DVFrames, NULL
    <3>2. QED
      BY <1>7, <2>3, <3>1
  <2>4. CASE g \in ToSet(unused) \cup {cur}
    BY <1>6, <2>4
  <2>5. QED
    BY <2>2, <2>3, <2>4 DEF Placed
<1>15. Placed(r, q, <<>>, cur)
  BY <1>6, <1>8, <1>10, <1>11, <1>12, <1>13, <1>14 DEF Placed
<1>16. QED
  BY <1>1, <1>2, <1>5, <1>7, <1>15

(* The frame in use becomes complete. *)
LEMMA PlacedOutput ==
    ASSUME NEW ring \in [Buffers -> DVFrameOrNull], NEW unused \in Seq(DVFrames),
           NEW complete \in Seq(DVFrames), NEW cur \in DVFrames,
           Placed(ring, unused, complete, cur)
    PROVE  Placed(ring, unused, Append(complete, cur), NULL)
<1>1. PICK q \in Seq(DVFrames) : q = Append(complete, cur)
  <2>1. Append(complete, cur) \in Seq(DVFrames)
    OBVIOUS
  <2>2. QED
    BY <2>1
<1>2. ToSet(q) = ToSet(complete) \cup {cur} /\ IsInjective(q)
  BY <1>1, AppendSet DEF Placed
<1>3. NULL \notin ToSet(q) /\ NULL \notin ToSet(unused) /\ cur # NULL
  BY QueueNotNull DEF DVFrames, NULL
<1>4. \A f \in DVFrames : f \in ToSet(unused) \cup ToSet(q) \cup {NULL}
                          \/ \E b \in Buffers : ring[b] = f
  BY <1>2 DEF Placed
<1>5. Placed(ring, unused, q, NULL)
  BY <1>2, <1>3, <1>4 DEF Placed
<1>6. QED
  BY <1>1, <1>5

(* The frame in use becomes unused. *)
LEMMA PlacedBack ==
    ASSUME NEW ring \in [Buffers -> DVFrameOrNull], NEW unused \in Seq(DVFrames),
           NEW complete \in Seq(DVFrames), NEW cur \in DVFrames,
           Placed(ring, unused, complete, cur)
    PROVE  Placed(ring, Append(unused, cur), complete, NULL)
<1>1. PICK q \in Seq(DVFrames) : q = Append(unused, cur)
  <2>1. Append(unused, cur) \in Seq(DVFrames)
    OBVIOUS
  <2>2. QED
    BY <2>1
<1>2. ToSet(q) = ToSet(unused) \cup {cur} /\ IsInjective(q)
  BY <1>1, AppendSet DEF Placed
<1>3. NULL \notin ToSet(q) /\ NULL \notin ToSet(complete) /\ cur # NULL
  BY QueueNotNull DEF DVFrames, NULL
<1>4. \A f \in DVFrames : f \in ToSet(q) \cup ToSet(complete) \cup {NULL}
                          \/ \E b \in Buffers : ring[b] = f
  BY <1>2 DEF Placed
<1>5. Placed(ring, q, complete, NULL)
  BY <1>2, <1>3, <1>4 DEF Placed
<1>6. QED
  BY <1>1, <1>5

(* The reader gets an unused frame. *)
LEMMA PlacedNew ==
    ASSUME NEW ring \in [Buffers -> DVFrameOrNull], NEW unused \in Seq(DVFrames),
           NEW complete \in Seq(DVFrames),
           Placed(ring, unused, complete, NULL), unused # <<>>
    PROVE  Placed(ring, Tail(unused), complete, Head(unused))
<1>1. PICK f \in DVFrames : f = Head(unused) /\ f # NULL
  <2>1. Head(unused) \in DVFrames
    BY TailSet
  <2>2. NULL \notin DVFrames
    BY DEF DVFrames, NULL
  <2>3. QED
    BY <2>1, <2>2
<1>2. PICK q \in Seq(DVFrames) : q = Tail(unused)
  BY TailSet
<1>3. ToSet(unused) = ToSet(q) \cup {f} /\ IsInjective(q) /\ f \notin ToSet(q)
  BY <1>1, <1>2, TailSet DEF Placed
<1>4. f \in ToSet(unused) /\ ToSet(q) \subseteq ToSet(unused)
  BY <1>3
<1>5. \A b \in Buffers : ring[b] \notin ToSet(q) \cup ToSet(complete) /\ ring[b] # f
  BY <1>4 DEF Placed
<1>6. f \notin ToSet(q) \cup ToSet(complete) /\ ToSet(q) \cap ToSet(complete) = {}
  BY <1>3, <1>4 DEF Placed
<1>7. \A g \in DVFrames : g \in ToSet(q) \cup ToSet(complete) \cup {f}
                          \/ \E b \in Buffers : ring[b] = g
  <2>1. NULL \notin DVFrames
    BY DEF DVFrames, NULL
  <2>2. QED
    BY <1>3, <2>1 DEF Placed
<1>8. Placed(ring, q, complete, f)
  BY <1>3, <1>5, <1>6, <1>7 DEF Placed
<1>9. QED
  BY <1>1, <1>2, <1>8

(* At first all are unused. *)
LEMMA PlacedFirst ==
    ASSUME NEW ring, NEW unused, unused = [i \in DVFrames |-> i],
           ring = [b \in Buffers |-> NULL]
    PROVE  Placed(ring, unused, <<>>, NULL)
<1>1. ToSet(<<>>) = {} /\ IsInjective(<<>>)
  BY DEF ToSet, IsInjective
<1>2. ToSet(unused) = DVFrames /\ IsInjective(unused)
  BY DEF ToSet, IsInjective
<1>3. NULL \notin DVFrames
  BY DEF DVFrames, NULL
<1>4. QED
  BY <1>1, <1>2, <1>3 DEF Placed
-----------------------------------------------------------------------------
(* A buffer that no DVFrame is kept for *)
Empty(b) == frame_ring[b] = NULL

(* Between calls, in the rounds of the polling loop, and on the way to     *)
(* returning buffer b of continuous mode: a buffer that is waited for, and *)
(* the one scheduled ahead, are empty.                                     *)
Idle == ~InCall /\ (capture_mode = "MODE_CAP_CONTINUOUS" => Empty(current_buffer))
Polling == \/ PollInit /\ Doing("initiate")
           \/ PollWait /\ (Doing("wait") \/ Doing("take")) /\ Empty(Head(todo).buf)
           \/ PollWait /\ Doing("decode")
           \/ PollReturn
Continuing(b) == \/ StreamFirst(b) /\ Doing("initiate")
                 \/ StreamAhead(b) /\ Doing("initiate") /\ Empty(b)
                 \/ /\ StreamWait(b) /\ (Doing("wait") \/ Doing("take"))
                    /\ Empty(b) /\ Empty(After(b, 1))
                 \/ StreamWait(b) /\ Doing("decode") /\ Empty(After(b, 1))
                 \/ StreamReturn(b) /\ Empty(After(b, 1))
Phases == Idle \/ Polling \/ \E b \in Buffers : Continuing(b)

IInv ==
    /\ TInv
    /\ Phases
    /\ (rpc = "none" <=> ~handle)
    /\ Placed(frame_ring, buffer_queue, output_queue, Filling)

(* Where the invariant is, from what the client does *)
LEMMA PhaseOf ==
    ASSUME Phases
    PROVE  /\ ~InCall => Idle
           /\ Doing("initiate") =>
                \/ PollInit
                \/ \E b \in Buffers : StreamFirst(b) \/ (StreamAhead(b) /\ Empty(b))
           /\ Doing("wait") \/ Doing("take") =>
                \/ PollWait /\ Empty(Head(todo).buf)
                \/ \E b \in Buffers : StreamWait(b) /\ Empty(b) /\ Empty(After(b, 1))
           /\ Doing("decode") =>
                \/ PollWait
                \/ \E b \in Buffers : StreamWait(b) /\ Empty(After(b, 1))
           /\ Doing("return") =>
                \/ PollReturn
                \/ \E b \in Buffers : StreamReturn(b) /\ Empty(After(b, 1))
  BY DEF Phases, Idle, Polling, Continuing, Doing, InCall, PollInit, PollWait, PollReturn,
         StreamFirst, StreamAhead, StreamWait, StreamReturn, HeadIs, InitOps, WaitOps

(* What leaves the client and the ring alone keeps the phase of the call.  *)
LEMMA SamePhase ==
    ASSUME UNCHANGED client, frame_ring' = frame_ring, Phases
    PROVE  Phases'
<1>1. todo' = todo /\ capture_mode' = capture_mode /\ current_buffer' = current_buffer
  BY DEF client
<1>2. CASE Idle
  BY <1>1, <1>2 DEF Phases, Idle, Empty, InCall
<1>3. CASE Polling
  BY <1>1, <1>3 DEF Phases, Polling, PollInit, PollWait, PollReturn, Doing, Empty
<1>4. ASSUME NEW b \in Buffers, Continuing(b) PROVE Continuing(b)'
  BY <1>1, <1>4 DEF Continuing, StreamFirst, StreamAhead, StreamWait, StreamReturn,
     Streaming, HeadIs, Doing, Empty
<1>5. QED
  BY <1>2, <1>3, <1>4 DEF Phases

(* What leaves the DVFrames alone keeps their places. *)
LEMMA SamePlaces ==
    ASSUME UNCHANGED frames, Filling' = Filling,
           Placed(frame_ring, buffer_queue, output_queue, Filling)
    PROVE  Placed(frame_ring, buffer_queue, output_queue, Filling)'
  BY DEF frames, queues, Placed

(* The client's steps leave the reader's frame alone.                      *)
LEMMA SameFilling ==
    ASSUME rpc' = rpc, current_frame' = current_frame
    PROVE  Filling' = Filling
  BY DEF Filling

(* The types of the places *)
LEMMA PlaceTypes ==
    ASSUME TInv
    PROVE  /\ frame_ring \in [Buffers -> DVFrameOrNull]
           /\ buffer_queue \in Seq(DVFrames) /\ output_queue \in Seq(DVFrames)
           /\ Filling \in DVFrameOrNull
  BY DEF TInv, TypeOK, Filling, DVFrameOrNull

(* A call begins. *)
LEMMA CallStep ==
    ASSUME IInv, Call
    PROVE  IInv'
<1>1. TInv' /\ ClientOK /\ BeginCall
  BY CallType DEF IInv, TInv, TypeOK, Call
<1>2. PICK b \in Buffers : b = current_buffer
  BY <1>1 DEF ClientOK
<1>3. Idle
  BY <1>1, PhaseOf DEF IInv, BeginCall, NextFrameContinuous, NextFramePoll,
     RequestFramePoll, Poll, Begin, InCall
<1>4. /\ UNCHANGED frames /\ rpc' = rpc /\ current_frame' = current_frame /\ handle' = handle
      /\ frame_ring' = frame_ring
  BY DEF Call, frames, reader
<1>5. BeginsOnPlan(b)
  BY <1>1, <1>2, CallBegins
<1>6. Phases'
  BY <1>2, <1>3, <1>4, <1>5 DEF BeginsOnPlan, Phases, Idle, Polling, Continuing, Empty
<1>7. Placed(frame_ring, buffer_queue, output_queue, Filling)'
  BY <1>4, SameFilling, SamePlaces DEF IInv
<1>8. QED
  BY <1>1, <1>4, <1>6, <1>7 DEF IInv

(* The buffer's DVFrame becomes unused. *)
LEMMA InitiateStep ==
    ASSUME IInv, InitiateAcquire
    PROVE  IInv'
<1>1. TInv /\ TInv' /\ ClientOK /\ InCall /\ Done /\ Doing("initiate")
  BY InitiateAcquireType DEF IInv, TInv, TypeOK, InitiateAcquire, Doing, InCall
<1>2. PICK b \in Buffers : b = Head(todo).buf
  BY <1>1, HeadOK
<1>3. /\ buffer_queue' = IF frame_ring[b] = NULL THEN buffer_queue
                         ELSE Append(buffer_queue, frame_ring[b])
      /\ frame_ring' = [frame_ring EXCEPT ![b] = NULL]
      /\ output_queue' = output_queue /\ rpc' = rpc /\ handle' = handle
      /\ current_frame' = current_frame
  BY <1>2 DEF InitiateAcquire, reader
<1>4. Filling' = Filling
  BY <1>3, SameFilling
<1>5. /\ frame_ring \in [Buffers -> DVFrameOrNull]
      /\ buffer_queue \in Seq(DVFrames) /\ output_queue \in Seq(DVFrames)
      /\ Filling \in DVFrameOrNull
      /\ Placed(frame_ring, buffer_queue, output_queue, Filling)
  BY <1>1, PlaceTypes DEF IInv
<1>6. Placed(frame_ring, buffer_queue, output_queue, Filling)'
  <2>1. CASE frame_ring[b] = NULL
    <3>1. frame_ring' = frame_ring
      BY <1>3, <1>5, <2>1
    <3>2. QED
      BY <1>3, <1>4, <1>5, <2>1, <3>1
  <2>2. CASE frame_ring[b] # NULL
    BY <1>3, <1>4, <1>5, <2>2, PlacedUnused
  <2>3. QED
    BY <2>1, <2>2
<1>7. Empty(b)' /\ \A a \in Buffers : Empty(a) => Empty(a)'
  BY <1>3, <1>5 DEF Empty
<1>8. CASE PollInit
  <2>1. PollWait' /\ Doing("wait")' /\ Head(todo').buf = b
    BY <1>1, <1>2, <1>8, PollInitDone
  <2>2. QED
    BY <1>1, <1>3, <1>6, <1>7, <2>1 DEF IInv, Phases, Polling, Empty
<1>9. ASSUME NEW a \in Buffers, StreamFirst(a) PROVE IInv'
  <2>1. StreamAhead(a)' /\ Doing("initiate")' /\ a = b
    BY <1>1, <1>2, <1>9, StreamFirstDone DEF StreamFirst, HeadIs
  <2>2. QED
    BY <1>1, <1>3, <1>6, <1>7, <2>1 DEF IInv, Phases, Continuing
<1>10. ASSUME NEW a \in Buffers, StreamAhead(a), Empty(a) PROVE IInv'
  <2>1. StreamWait(a)' /\ Doing("wait")' /\ After(a, 1) = b
    BY <1>1, <1>2, <1>10, StreamAheadDone DEF StreamAhead, HeadIs
  <2>2. QED
    BY <1>1, <1>3, <1>6, <1>7, <1>10, <2>1 DEF IInv, Phases, Continuing
<1>11. QED
  BY <1>1, <1>8, <1>9, <1>10, PhaseOf DEF IInv

(* The client forgets a DVFrame that is not there. *)
LEMMA ForgetStep ==
    ASSUME IInv, WaitForget
    PROVE  IInv'
<1>1. TInv /\ TInv' /\ ClientOK /\ InCall /\ Becomes("take") /\ Doing("wait")
  BY WaitForgetType DEF IInv, TInv, TypeOK, WaitForget, Doing, InCall
<1>2. PICK b \in Buffers : b = Head(todo).buf
  BY <1>1, HeadOK
<1>3. Empty(b)
  BY <1>1, <1>2, PhaseOf DEF IInv, StreamWait, HeadIs
<1>4. /\ frame_ring' = frame_ring
      /\ UNCHANGED frames /\ rpc' = rpc /\ handle' = handle /\ current_frame' = current_frame
  <2>1. frame_ring' = [frame_ring EXCEPT ![b] = NULL]
    BY <1>2 DEF WaitForget
  <2>2. frame_ring' = frame_ring
    BY <1>1, <1>3, <2>1, PlaceTypes DEF Empty
  <2>3. QED
    BY <2>2 DEF WaitForget, reader, frames
<1>5. Placed(frame_ring, buffer_queue, output_queue, Filling)'
  BY <1>4, SameFilling, SamePlaces DEF IInv
<1>6. Doing("take")' /\ Head(todo').buf = b
  BY <1>1, <1>2, BecomesSame DEF Ops
<1>7. Phases'
  <2>1. CASE PollWait
    <3>1. PollWait'
      BY <1>1, <2>1, WaitBecomes DEF WaitOps
    <3>2. QED
      BY <1>3, <1>4, <1>6, <3>1 DEF Phases, Polling, Empty
  <2>2. ASSUME NEW a \in Buffers, StreamWait(a), Empty(a), Empty(After(a, 1)) PROVE Phases'
    <3>1. StreamWait(a)'
      BY <1>1, <2>2, WaitBecomes DEF WaitOps
    <3>2. QED
      BY <1>4, <1>6, <2>2, <3>1 DEF Phases, Continuing, Empty
  <2>3. QED
    BY <1>1, <2>1, <2>2, PhaseOf DEF IInv
<1>8. QED
  BY <1>1, <1>4, <1>5, <1>7 DEF IInv

(* The client takes the newest complete frame. *)
LEMMA TakeStep ==
    ASSUME NBuffers > 1, IInv, WaitTake
    PROVE  IInv'
<1>1. TInv /\ TInv' /\ ClientOK /\ InCall /\ Becomes("decode") /\ Doing("take")
  BY WaitTakeType DEF IInv, TInv, TypeOK, WaitTake, Doing, InCall
<1>2. PICK b \in Buffers : b = Head(todo).buf
  BY <1>1, HeadOK
<1>3. Empty(b)
  BY <1>1, <1>2, PhaseOf DEF IInv, StreamWait, HeadIs
<1>4. /\ frame_ring' = [frame_ring EXCEPT ![b] = Last(output_queue)]
      /\ buffer_queue' = buffer_queue \o Front(output_queue)
      /\ output_queue # <<>> /\ output_queue' = <<>>
      /\ rpc' = rpc /\ handle' = handle /\ current_frame' = current_frame
  BY <1>2 DEF WaitTake, NewestComplete, OlderFrames, reader
<1>5. Filling' = Filling
  BY <1>4, SameFilling
<1>6. Placed(frame_ring, buffer_queue, output_queue, Filling)'
  BY <1>1, <1>3, <1>4, <1>5, PlaceTypes, PlacedTaken DEF IInv, Empty
<1>7. Doing("decode")' /\ Head(todo').buf = b
  BY <1>1, <1>2, BecomesSame DEF Ops
<1>8. \A a \in Buffers \ {b} : Empty(a) => Empty(a)'
  BY <1>1, <1>4, PlaceTypes DEF Empty
<1>9. Phases'
  <2>1. CASE PollWait
    <3>1. PollWait'
      BY <1>1, <2>1, WaitBecomes DEF WaitOps
    <3>2. QED
      BY <1>7, <3>1 DEF Phases, Polling
  <2>2. ASSUME NEW a \in Buffers, StreamWait(a), Empty(a), Empty(After(a, 1)) PROVE Phases'
    <3>1. StreamWait(a)' /\ a = b
      BY <1>1, <1>2, <2>2, WaitBecomes DEF WaitOps, StreamWait, HeadIs
    <3>2. After(a, 1) \in Buffers \ {b}
      BY <3>1, AfterInRing, AfterDiffers
    <3>3. QED
      BY <1>7, <1>8, <2>2, <3>1, <3>2 DEF Phases, Continuing
  <2>3. QED
    BY <1>1, <2>1, <2>2, PhaseOf DEF IInv
<1>10. QED
  BY <1>1, <1>4, <1>6, <1>9 DEF IInv

(* It decodes the frame. *)
LEMMA DecodeStep ==
    ASSUME IInv, Decode
    PROVE  IInv'
<1>1. TInv' /\ ClientOK /\ InCall /\ Done /\ Doing("decode")
  BY DecodeType DEF IInv, TInv, TypeOK, Decode, Doing, InCall
<1>2. /\ UNCHANGED frames /\ rpc' = rpc /\ handle' = handle /\ current_frame' = current_frame
      /\ frame_ring' = frame_ring
  BY DEF Decode, frames, reader
<1>3. Placed(frame_ring, buffer_queue, output_queue, Filling)'
  BY <1>2, SameFilling, SamePlaces DEF IInv
<1>4. Phases'
  <2>1. CASE PollWait
    <3>1. (PollInit' /\ Doing("initiate")') \/ PollReturn'
      BY <1>1, <2>1, PollWaitDone
    <3>2. QED
      BY <3>1 DEF Phases, Polling
  <2>2. ASSUME NEW a \in Buffers, StreamWait(a), Empty(After(a, 1)) PROVE Phases'
    <3>1. StreamReturn(a)'
      BY <1>1, <2>2, StreamWaitDone
    <3>2. QED
      BY <1>2, <2>2, <3>1 DEF Phases, Continuing, Empty
  <2>3. QED
    BY <1>1, <2>1, <2>2, PhaseOf DEF IInv
<1>5. QED
  BY <1>1, <1>2, <1>3, <1>4 DEF IInv

(* It returns the image. *)
LEMMA ReturnStep ==
    ASSUME IInv, ReturnFrame
    PROVE  IInv'
<1>1. TInv' /\ ClientOK /\ InCall /\ Doing("return")
  BY ReturnFrameType DEF IInv, TInv, TypeOK, ReturnFrame, Doing, InCall
<1>2. /\ UNCHANGED frames /\ rpc' = rpc /\ handle' = handle /\ current_frame' = current_frame
      /\ frame_ring' = frame_ring
  BY DEF ReturnFrame, frames, reader
<1>3. Placed(frame_ring, buffer_queue, output_queue, Filling)'
  BY <1>2, SameFilling, SamePlaces DEF IInv
<1>4. PICK stamp : Return(stamp)
  BY DEF ReturnFrame
<1>5. Phases'
  <2>1. CASE PollReturn
    BY <1>4, <2>1, ReturnEnds DEF Phases, Idle, PollReturn
  <2>2. ASSUME NEW a \in Buffers, StreamReturn(a), Empty(After(a, 1)) PROVE Phases'
    BY <1>2, <1>4, <2>2, ReturnEnds DEF Phases, Idle, StreamReturn, Streaming, Empty
  <2>3. QED
    BY <1>1, <2>1, <2>2, PhaseOf DEF IInv
<1>6. QED
  BY <1>1, <1>2, <1>3, <1>5 DEF IInv

(* Sessions, packets and their loss do not touch the DVFrames.             *)
LEMMA SessionStepOK ==
    ASSUME IInv, SessionStep
    PROVE  IInv'
<1>1. TInv' /\ UNCHANGED client /\ UNCHANGED frames
  BY SessionType DEF IInv, SessionStep, Close, CloseDone, Open, ReaderEnd, Receive, LosePacket,
     vars
<1>2. current_frame' = current_frame /\ frame_ring' = frame_ring
  BY <1>1 DEF frames
<1>3. Filling' = Filling /\ (rpc' = "none" <=> ~handle')
  <2>1. CASE Close \/ CloseDone \/ LosePacket \/ UNCHANGED vars
    BY <1>2, <2>1 DEF IInv, Close, CloseDone, LosePacket, vars, reader, Filling
  <2>2. CASE Open
    BY <1>2, <2>2 DEF IInv, Open, Filling
  <2>3. CASE ReaderEnd
    BY <1>2, <2>3 DEF IInv, ReaderEnd, Reset, Filling
  <2>4. CASE Receive
    BY <1>2, <2>4 DEF IInv, Receive, Filling
  <2>5. QED
    BY <2>1, <2>2, <2>3, <2>4 DEF SessionStep
<1>4. QED
  BY <1>1, <1>2, <1>3, SamePhase, SamePlaces DEF IInv

(* The reader begins without a frame. *)
LEMMA ReaderStartStep ==
    ASSUME IInv, ReaderStart
    PROVE  IInv'
<1>1. TInv' /\ UNCHANGED client /\ frame_ring' = frame_ring
  BY ReaderStartType DEF IInv, ReaderStart
<1>2. Filling' = NULL /\ Filling = NULL
  BY DEF ReaderStart, Filling
<1>3. Placed(frame_ring, buffer_queue, output_queue, Filling)'
  BY <1>2 DEF IInv, ReaderStart, queues
<1>4. rpc' = "none" <=> ~handle'
  BY DEF IInv, ReaderStart
<1>5. QED
  BY <1>1, <1>3, <1>4, SamePhase DEF IInv

(* The reader outputs its frame and gets another. *)
LEMMA StartOfFrameStep ==
    ASSUME IInv, StartOfFrame
    PROVE  IInv'
<1>1. TInv /\ TInv' /\ UNCHANGED client /\ frame_ring' = frame_ring
  BY StartOfFrameType DEF IInv, StartOfFrame
<1>2. Filling = current_frame /\ Filling' = current_frame'
  BY DEF StartOfFrame, Filling
<1>3. PICK q \in Seq(DVFrames) : /\ q = output_queue'
                                 /\ Placed(frame_ring, buffer_queue, q, NULL)
  <2>1. CASE current_frame = NULL
    BY <1>1, <1>2, <2>1, PlaceTypes DEF IInv, StartOfFrame
  <2>2. CASE current_frame # NULL
    <3>1. PICK f \in DVFrames : f = current_frame
      BY <1>1, <1>2, <2>2, PlaceTypes DEF DVFrameOrNull
    <3>2. output_queue' = Append(output_queue, f)
      BY <2>2, <3>1 DEF StartOfFrame
    <3>3. Placed(frame_ring, buffer_queue, Append(output_queue, f), NULL)
      BY <1>1, <1>2, <3>1, PlaceTypes, PlacedOutput DEF IInv
    <3>4. output_queue' \in Seq(DVFrames)
      BY <1>1 DEF TInv, TypeOK
    <3>5. QED
      BY <3>2, <3>3, <3>4
  <2>3. QED
    BY <2>1, <2>2
<1>4. Placed(frame_ring, buffer_queue', q, current_frame')
  <2>1. CASE buffer_queue = <<>>
    BY <1>3, <2>1 DEF StartOfFrame, NextCurrent
  <2>2. CASE buffer_queue # <<>>
    BY <1>1, <1>3, <2>2, PlaceTypes, PlacedNew DEF StartOfFrame, NextCurrent
  <2>3. QED
    BY <2>1, <2>2
<1>5. Placed(frame_ring, buffer_queue, output_queue, Filling)'
  BY <1>1, <1>2, <1>3, <1>4
<1>6. rpc' = "none" <=> ~handle'
  BY DEF IInv, StartOfFrame
<1>7. QED
  BY <1>1, <1>5, <1>6, SamePhase DEF IInv

(* The reader copies a packet. *)
LEMMA CopyPacketStep ==
    ASSUME IInv, CopyPacket
    PROVE  IInv'
<1>1. TInv' /\ UNCHANGED client /\ frame_ring' = frame_ring
  BY CopyPacketType DEF IInv, CopyPacket
<1>2. Filling' = Filling
  BY DEF CopyPacket, Filling
<1>3. Placed(frame_ring, buffer_queue, output_queue, Filling)'
  BY <1>2 DEF IInv, CopyPacket, queues
<1>4. rpc' = "none" <=> ~handle'
  BY DEF IInv, CopyPacket
<1>5. QED
  BY <1>1, <1>3, <1>4, SamePhase DEF IInv

(* The reader ends, and the frame in use is unused. *)
LEMMA PutBackStep ==
    ASSUME IInv, ReaderPutBack
    PROVE  IInv'
<1>1. TInv /\ TInv' /\ UNCHANGED client /\ frame_ring' = frame_ring
  BY ReaderPutBackType DEF IInv, ReaderPutBack
<1>2. Filling = current_frame /\ Filling' = NULL
  BY DEF ReaderPutBack, Filling
<1>3. Placed(frame_ring, buffer_queue, output_queue, Filling)'
  <2>1. CASE current_frame = NULL
    BY <1>2, <2>1 DEF IInv, ReaderPutBack, PutBack
  <2>2. CASE current_frame # NULL
    <3>1. PICK f \in DVFrames : f = current_frame
      BY <1>1, <1>2, <2>2, PlaceTypes DEF DVFrameOrNull
    <3>2. Placed(frame_ring, Append(buffer_queue, f), output_queue, NULL)
      BY <1>1, <1>2, <3>1, PlaceTypes, PlacedBack DEF IInv
    <3>3. QED
      BY <1>2, <2>2, <3>1, <3>2 DEF ReaderPutBack, PutBack
  <2>3. QED
    BY <2>1, <2>2
<1>4. rpc' = "none" <=> ~handle'
  BY DEF IInv, ReaderPutBack
<1>5. QED
  BY <1>1, <1>3, <1>4, SamePhase DEF IInv

(* Every step of a device with two buffers or more keeps the invariant.    *)
LEMMA StepOK == NBuffers > 1 /\ IInv /\ [Next]_vars => IInv'
<1> SUFFICES ASSUME NBuffers > 1, IInv, [Next]_vars
             PROVE  IInv'
  OBVIOUS
<1>1. CASE Call \/ Client
  BY <1>1, CallStep, InitiateStep, ForgetStep, TakeStep, DecodeStep, ReturnStep,
     SessionStepOK DEF Client, SessionStep
<1>2. CASE Reader
  BY <1>2, ReaderStartStep, SessionStepOK, StartOfFrameStep, CopyPacketStep, PutBackStep
     DEF Reader, SessionStep
<1>3. CASE Close \/ Open \/ LosePacket \/ UNCHANGED vars
  BY <1>3, SessionStepOK DEF SessionStep
<1>4. QED
  BY <1>1, <1>2, <1>3 DEF Next

(* At first all DVFrames are unused. *)
LEMMA InitOK == Init => IInv
<1> SUFFICES ASSUME Init
             PROVE  IInv
  OBVIOUS
<1>1. TInv
  BY InitType
<1>2. Phases
  BY DEF Init, ClientInit, Phases, Idle, InCall
<1>3. Filling = NULL /\ output_queue = <<>> /\ (rpc = "none" <=> ~handle)
  BY DEF Init, Filling
<1>4. Placed(frame_ring, buffer_queue, output_queue, Filling)
  BY <1>3, PlacedFirst DEF Init
<1>5. QED
  BY <1>1, <1>2, <1>3, <1>4 DEF IInv
-----------------------------------------------------------------------------
(* The ring has a DVFrame for one buffer, if at all. *)
LEMMA OneBuffer ==
    ASSUME NEW f \in DVFrames, Placed(frame_ring, buffer_queue, output_queue, Filling)
    PROVE  \/ \A b \in Buffers : frame_ring[b] # f
           \/ \E b \in Buffers :
                /\ frame_ring[b] = f
                /\ {<<"ring", c>> : c \in {d \in Buffers : frame_ring[d] = f}} = {<<"ring", b>>}
<1> SUFFICES ASSUME NEW b \in Buffers, frame_ring[b] = f
             PROVE  {<<"ring", c>> : c \in {d \in Buffers : frame_ring[d] = f}} = {<<"ring", b>>}
  OBVIOUS
<1>1. f # NULL
  BY DEF DVFrames, NULL
<1>2. {d \in Buffers : frame_ring[d] = f} = {b}
  BY <1>1 DEF Placed
<1>3. QED
  BY <1>2

(* With two buffers or more, every DVFrame is at exactly one place,        *)
(* whatever functions of XVVideo the client mixes, across close() and      *)
(* open(), and however the reader's steps come between the client's.       *)
THEOREM FramesConserved ==
    ASSUME NBuffers > 1
    PROVE  Spec => []Conservation
<1>1. IInv => Conservation
  <2> SUFFICES ASSUME IInv, NEW f \in DVFrames
               PROVE  Cardinality(Places(f)) = 1
    BY DEF Conservation
  <2> DEFINE inring   == {<<"ring", b>> : b \in {c \in Buffers : frame_ring[c] = f}}
             unused   == {<<"buffer", i>> : i \in {j \in DOMAIN buffer_queue : buffer_queue[j] = f}}
             complete == {<<"output", i>> : i \in {j \in DOMAIN output_queue : output_queue[j] = f}}
             filled   == IF Filling = f THEN {<<"filled", 0>>} ELSE {}
  <2>1. Placed(frame_ring, buffer_queue, output_queue, Filling)
    BY DEF IInv
  <2>2. Places(f) = inring \cup unused \cup complete \cup filled
    BY DEF Places
  <2>3. /\ f \notin ToSet(buffer_queue) => unused = {}
        /\ f \in ToSet(buffer_queue) => \E i : unused = {<<"buffer", i>>}
    BY <2>1, OnePlace DEF Placed
  <2>4. /\ f \notin ToSet(output_queue) => complete = {}
        /\ f \in ToSet(output_queue) => \E i : complete = {<<"output", i>>}
    BY <2>1, OnePlace DEF Placed
  <2>5. \/ (\A b \in Buffers : frame_ring[b] # f) /\ inring = {}
        \/ \E b \in Buffers : frame_ring[b] = f /\ inring = {<<"ring", b>>}
    BY <2>1, OneBuffer
  <2> HIDE DEF inring, unused, complete, filled
  <2>6. f # NULL
    BY DEF DVFrames, NULL
  <2>7. \E p : Places(f) = {p}
    <3>1. CASE f \in ToSet(buffer_queue)
      <4>1. complete = {} /\ inring = {} /\ filled = {}
        BY <2>1, <2>4, <2>5, <3>1 DEF Placed, filled
      <4>2. QED
        BY <2>2, <2>3, <3>1, <4>1
    <3>2. CASE f \in ToSet(output_queue)
      <4>1. unused = {} /\ inring = {} /\ filled = {}
        BY <2>1, <2>3, <2>5, <3>2 DEF Placed, filled
      <4>2. QED
        BY <2>2, <2>4, <3>2, <4>1
    <3>3. CASE \E b \in Buffers : frame_ring[b] = f
      <4>1. unused = {} /\ complete = {} /\ filled = {}
        BY <2>1, <2>3, <2>4, <2>6, <3>3 DEF Placed, filled
      <4>2. QED
        BY <2>2, <2>5, <3>3, <4>1
    <3>4. CASE Filling = f
      <4>1. unused = {} /\ complete = {} /\ inring = {}
        BY <2>1, <2>3, <2>4, <2>5, <2>6, <3>4 DEF Placed
      <4>2. filled = {<<"filled", 0>>}
        BY <3>4 DEF filled
      <4>3. QED
        BY <2>2, <4>1, <4>2
    <3>5. QED
      BY <2>1, <3>1, <3>2, <3>3, <3>4 DEF Placed
  <2>8. QED
    BY <2>7, FS_Singleton
<1>2. Init => IInv
  BY InitOK
<1>3. IInv /\ [Next]_vars => IInv'
  BY StepOK
<1>4. QED
  BY <1>1, <1>2, <1>3, PTL DEF Spec
-----------------------------------------------------------------------------
(* The camera's packet after the one at hand is the one the reader gets    *)
(* next, whatever the bus lost before.                                     *)
Follows(c, p) ==
    IF p.pos = Packets - 1 THEN c.pos = 0 ELSE c.pos = p.pos + 1 /\ c.shot = p.shot
Expected ==
    /\ rpc = "start_of_frame" => packet.pos = 0
    /\ rpc \in {"start_of_frame", "copy"} => Follows(cam, packet)

(* The frame in use has all data of one capture up to packet c, and is of  *)
(* one capture when the next begins.                                       *)
UpToNow(c) == \A p \in 0..(c.pos - 1) : data[Filling][p] = c.shot
PartWhole ==
    Filling # NULL =>
        /\ rpc = "loop" /\ cam.pos = 0 => OneShot(data[Filling])
        /\ rpc = "loop" /\ cam.pos # 0 => UpToNow(cam)
        /\ rpc = "start_of_frame" => OneShot(data[Filling])
        /\ rpc = "copy" => UpToNow(packet)

(* What the client gets to see is of one capture: the complete frames, the *)
(* one it decodes, the images and the result.                              *)
WholeFrames ==
    /\ \A i \in DOMAIN output_queue : OneShot(data[output_queue[i]])
    /\ Doing("decode") => OneShot(data[frame_ring[Head(todo).buf]])
    /\ \A b \in Buffers : OneShot(images[b])
    /\ result.call # "none" => OneShot(result.stamp)

WInv == Expected /\ (lost = 0 => PartWhole /\ WholeFrames)

(* The reader expects what the camera sends. *)
LEMMA ExpectedStep ==
    ASSUME TInv, Expected, [Next]_vars
    PROVE  Expected'
<1>1. cam \in Packet
  BY DEF TInv, TypeOK
<1>2. CASE Receive
  <2>1. packet' = cam /\ cam' = NextPacket
    BY <1>2 DEF Receive
  <2>2. Follows(cam', packet')
    BY <2>1 DEF Follows, NextPacket
  <2>3. rpc' = "start_of_frame" => packet'.pos = 0
    BY <1>2, <2>1 DEF Receive
  <2>4. QED
    BY <2>2, <2>3 DEF Expected, Follows
<1>3. CASE StartOfFrame
  BY <1>3 DEF Expected, Follows, StartOfFrame, bus
<1>4. CASE Open \/ CopyPacket \/ ReaderStart \/ ReaderPutBack \/ ReaderEnd \/ LosePacket
  BY <1>4 DEF Expected, Open, CopyPacket, ReaderStart, ReaderPutBack, ReaderEnd, LosePacket,
     reader
<1>5. CASE Call \/ Client \/ Close \/ UNCHANGED vars
  <2>1. rpc' = rpc /\ packet' = packet /\ cam' = cam
    BY <1>5 DEF Call, Client, InitiateAcquire, WaitForget, WaitTake, Decode, ReturnFrame, Close,
       CloseDone, vars, reader, bus
  <2>2. QED
    BY <2>1 DEF Expected, Follows
<1>6. QED
  BY <1>2, <1>3, <1>4, <1>5 DEF Next, Reader

(* What leaves the reader and the DVFrames' data alone *)
LEMMA PartKept ==
    ASSUME rpc' = rpc, current_frame' = current_frame, packet' = packet, cam' = cam,
           data' = data, PartWhole
    PROVE  PartWhole'
<1>1. Filling' = Filling
  BY SameFilling
<1>2. QED
  BY <1>1 DEF PartWhole, UpToNow, OneShot

(* What leaves the client and its frames alone *)
LEMMA WholeKept ==
    ASSUME UNCHANGED client, output_queue' = output_queue, frame_ring' = frame_ring,
           data' = data, images' = images, WholeFrames
    PROVE  WholeFrames'
  BY DEF client, WholeFrames, OneShot, Doing

(* A planned step is not a decoding. *)
LEMMA PlannedNext ==
    ASSUME todo' \in Seq(PlanStep)
    PROVE  ~Doing("decode")'
<1>1. todo' # <<>> => Head(todo') \in PlanStep
  OBVIOUS
<1>2. QED
  BY <1>1 DEF Doing, PlanStep

(* The client's steps *)
LEMMA ClientWhole ==
    ASSUME IInv, WholeFrames, Call \/ Client
    PROVE  WholeFrames'
<1>1. TInv /\ ClientOK
  BY DEF IInv, TInv, TypeOK
<1>2. CASE Call
  <2>1. todo' \in Seq(PlanStep)
    BY <1>1, <1>2, BeginCallPlans DEF Call
  <2>2. result' = result
    BY <1>2 DEF Call, BeginCall, NextFrameContinuous, NextFramePoll, RequestFramePoll, Poll,
       Begin
  <2>3. ~Doing("decode")'
    BY <2>1, PlannedNext
  <2>4. QED
    BY <1>2, <2>2, <2>3 DEF Call, frames, queues, WholeFrames, OneShot
<1>3. CASE InitiateAcquire
  <2>1. InCall /\ Done
    BY <1>3 DEF InitiateAcquire, Doing, InCall
  <2>2. todo' \in Seq(PlanStep) /\ result' = result
    BY <1>1, <2>1 DEF ClientOK, Done
  <2>3. ~Doing("decode")'
    BY <2>2, PlannedNext
  <2>4. QED
    BY <1>3, <2>2, <2>3 DEF InitiateAcquire, WholeFrames, OneShot
<1>4. CASE WaitForget
  <2>1. InCall /\ Becomes("take") /\ result' = result
    BY <1>4 DEF WaitForget, Becomes, Doing, InCall
  <2>2. Doing("take")'
    BY <1>1, <2>1, BecomesSame DEF Ops
  <2>3. ~Doing("decode")'
    BY <2>2 DEF Doing
  <2>4. QED
    BY <1>4, <2>1, <2>3 DEF WaitForget, queues, WholeFrames, OneShot
<1>5. CASE WaitTake
  <2>1. InCall /\ Becomes("decode") /\ result' = result
    BY <1>5 DEF WaitTake, Becomes, Doing, InCall
  <2>2. Head(todo').buf = Head(todo).buf
    BY <1>1, <2>1, BecomesSame DEF Ops
  <2>3. PICK b \in Buffers : b = Head(todo).buf
    BY <1>1, <2>1, HeadOK
  <2>4. output_queue \in Seq(DVFrames) /\ output_queue # <<>>
    BY <1>1, <1>5, PlaceTypes DEF WaitTake
  <2>5. PICK i \in DOMAIN output_queue : Last(output_queue) = output_queue[i]
    BY <2>4 DEF Last
  <2>6. OneShot(data[Last(output_queue)])
    BY <2>5 DEF WholeFrames
  <2>7. frame_ring'[b] = Last(output_queue)
    BY <1>1, <1>5, <2>3, PlaceTypes DEF WaitTake, NewestComplete
  <2>8. DOMAIN output_queue' = {}
    BY <1>5 DEF WaitTake
  <2>9. QED
    BY <1>5, <2>1, <2>2, <2>3, <2>6, <2>7, <2>8 DEF WaitTake, WholeFrames, OneShot
<1>6. CASE Decode
  <2>1. InCall /\ Done /\ Doing("decode")
    BY <1>6 DEF Decode, Doing, InCall
  <2>2. todo' \in Seq(PlanStep) /\ result' = result
    BY <1>1, <2>1 DEF ClientOK, Done
  <2>3. ~Doing("decode")'
    BY <2>2, PlannedNext
  <2>4. PICK b \in Buffers : b = Head(todo).buf
    BY <1>1, <2>1, HeadOK
  <2>5. images' = [images EXCEPT ![b] = data[frame_ring[b]]]
    BY <1>6, <2>4 DEF Decode
  <2>6. \A c \in Buffers : OneShot(images'[c])
    BY <1>1, <2>1, <2>4, <2>5 DEF WholeFrames, TInv, TypeOK
  <2>7. QED
    BY <1>6, <2>2, <2>3, <2>6 DEF Decode, frames, queues, WholeFrames, OneShot
<1>7. CASE ReturnFrame
  <2>1. InCall
    BY <1>7 DEF ReturnFrame, Doing, InCall
  <2>2. PICK b \in Buffers : b = Head(todo).buf
    BY <1>1, <2>1, HeadOK
  <2>3. Return(images[b])
    BY <1>7, <2>2 DEF ReturnFrame
  <2>4. todo' \in Seq(PlanStep) /\ result'.stamp = images[b]
    BY <1>1, <2>1, <2>3 DEF ClientOK, Return
  <2>5. ~Doing("decode")'
    BY <2>4, PlannedNext
  <2>6. OneShot(result'.stamp)
    BY <2>4 DEF WholeFrames
  <2>7. QED
    BY <1>7, <2>5, <2>6 DEF ReturnFrame, frames, queues, WholeFrames, OneShot
<1>8. CASE CloseDone
  BY <1>8, WholeKept DEF CloseDone, frames, queues
<1>9. QED
  BY <1>2, <1>3, <1>4, <1>5, <1>6, <1>7, <1>8 DEF Client

(* A packet is received. *)
LEMMA ReceiveWhole ==
    ASSUME IInv, PartWhole, Receive
    PROVE  PartWhole'
<1>1. /\ current_frame' = current_frame /\ data' = data /\ packet' = cam
      /\ rpc = "loop" /\ rpc' = IF cam.pos = 0 THEN "start_of_frame" ELSE "copy"
  BY DEF Receive, frames
<1>2. Filling = current_frame /\ Filling' = current_frame
  BY <1>1 DEF Filling
<1>3. CASE cam.pos = 0
  BY <1>1, <1>2, <1>3 DEF PartWhole, OneShot
<1>4. CASE cam.pos # 0
  BY <1>1, <1>2, <1>4 DEF PartWhole, UpToNow
<1>5. QED
  BY <1>3, <1>4

(* A frame starts: the one before is complete, and nothing of the new one  *)
(* is there yet.                                                           *)
LEMMA StartWhole ==
    ASSUME IInv, Expected, PartWhole, WholeFrames, StartOfFrame
    PROVE  PartWhole' /\ WholeFrames'
<1>1. /\ rpc = "start_of_frame" /\ rpc' = "copy" /\ packet' = packet /\ packet.pos = 0
      /\ data' = data /\ Filling = current_frame
      /\ output_queue \in Seq(DVFrames)
  BY PlaceTypes DEF IInv, Expected, StartOfFrame, Filling
<1>2. PartWhole'
  BY <1>1 DEF PartWhole, UpToNow
<1>3. \A i \in DOMAIN output_queue' : OneShot(data[output_queue'[i]])
  <2>1. CASE current_frame = NULL
    BY <2>1 DEF StartOfFrame, WholeFrames
  <2>2. CASE current_frame # NULL
    <3>1. OneShot(data[current_frame])
      BY <1>1, <2>2 DEF PartWhole
    <3>2. output_queue' = Append(output_queue, current_frame)
      BY <2>2 DEF StartOfFrame
    <3>3. \A i \in DOMAIN output_queue' : \/ i \in DOMAIN output_queue
                                             /\ output_queue'[i] = output_queue[i]
                                          \/ output_queue'[i] = current_frame
      BY <1>1, <3>2
    <3>4. QED
      BY <3>1, <3>3 DEF WholeFrames
  <2>3. QED
    BY <2>1, <2>2
<1>4. WholeFrames'
  BY <1>1, <1>3 DEF StartOfFrame, client, WholeFrames, OneShot, Doing
<1>5. QED
  BY <1>2, <1>4

(* A packet is copied, to a frame that is nowhere but with the reader.     *)
LEMMA CopyWhole ==
    ASSUME IInv, Expected, PartWhole, WholeFrames, CopyPacket
    PROVE  PartWhole' /\ WholeFrames'
<1>1. /\ rpc = "copy" /\ rpc' = "loop" /\ packet' = packet /\ cam' = cam
      /\ Filling = current_frame /\ Filling' = current_frame
      /\ output_queue' = output_queue /\ frame_ring' = frame_ring /\ images' = images
      /\ UNCHANGED client /\ Follows(cam, packet)
  BY DEF CopyPacket, Expected, Filling, queues, bus
<1>2. CASE current_frame = NULL
  <2>1. data' = data
    BY <1>2 DEF CopyPacket
  <2>2. QED
    BY <1>1, <1>2, <2>1, WholeKept DEF PartWhole
<1>3. CASE current_frame # NULL
  <2>1. PICK f \in DVFrames : f = current_frame
    BY <1>1, <1>3, PlaceTypes DEF IInv, DVFrameOrNull
  <2>2. TInv /\ packet \in Packet /\ f # NULL
    BY <1>3, <2>1 DEF IInv, TInv, TypeOK
  <2>3. PICK s \in 0..MaxShots, p \in Positions : packet.shot = s /\ packet.pos = p
    BY <2>2 DEF Packet
  <2>4. data \in [DVFrames -> [Positions -> 0..MaxShots]]
    BY <2>2 DEF TInv, TypeOK
  <2>5. data' = [data EXCEPT ![f][p] = s]
    BY <1>3, <2>1, <2>3 DEF CopyPacket
  <2>6. /\ \A g \in DVFrames \ {f} : data'[g] = data[g]
        /\ \A q \in Positions : data'[f][q] = IF q = p THEN s ELSE data[f][q]
    BY <2>4, <2>5
  <2>7. \A q \in 0..p : data'[f][q] = s
    <3>1. \A q \in 0..(p - 1) : data[f][q] = s
      BY <1>1, <2>1, <2>2, <2>3 DEF PartWhole, UpToNow
    <3>2. \A q \in 0..p : q \in Positions /\ (q # p => q \in 0..(p - 1))
      BY DVAssumption DEF Positions
    <3>3. QED
      BY <2>6, <3>1, <3>2
  <2>8. PartWhole'
    <3>1. CASE p = Packets - 1
      <4>1. \A q \in Positions : data'[f][q] = s
        BY <2>7, <3>1 DEF Positions
      <4>2. 0 \in Positions
        BY PacketsType
      <4>3. OneShot(data[f])'
        BY <4>1, <4>2 DEF OneShot
      <4>4. cam.pos = 0
        BY <1>1, <2>3, <3>1 DEF Follows
      <4>5. QED
        BY <1>1, <2>1, <4>3, <4>4 DEF PartWhole
    <3>2. CASE p # Packets - 1
      <4>1. cam.pos = p + 1 /\ cam.shot = s /\ p \in Nat
        BY <1>1, <2>3, <3>2, DVAssumption DEF Follows, Positions
      <4>2. \A q \in 0..(cam.pos - 1) : data'[f][q] = cam.shot
        BY <2>7, <4>1
      <4>3. QED
        BY <1>1, <2>1, <4>1, <4>2 DEF PartWhole, UpToNow
    <3>3. QED
      BY <3>1, <3>2
  <2>9. WholeFrames'
    <3>1. /\ f \notin ToSet(output_queue) /\ \A b \in Buffers : frame_ring[b] # f
      BY <1>1, <2>1, <2>2 DEF IInv, Placed
    <3>2. /\ output_queue \in Seq(DVFrames) /\ frame_ring \in [Buffers -> DVFrameOrNull]
      BY <2>2, PlaceTypes
    <3>3. \A i \in DOMAIN output_queue : output_queue[i] \in DVFrames \ {f}
      BY <3>1, <3>2 DEF ToSet
    <3>4. ASSUME Doing("decode") PROVE frame_ring[Head(todo).buf] \in DVFrames \ {f}
      <4>1. Head(todo).buf \in Buffers
        BY <2>2, <3>4, HeadOK DEF TInv, TypeOK, Doing, InCall
      <4>2. frame_ring[Head(todo).buf] # NULL
        BY <2>2, <3>4 DEF TInv, Decodable
      <4>3. QED
        BY <3>1, <3>2, <4>1, <4>2 DEF DVFrameOrNull
    <3>5. Doing("decode")' <=> Doing("decode")
      BY <1>1 DEF client, Doing
    <3>6. Head(todo').buf = Head(todo).buf /\ result' = result
      BY <1>1 DEF client
    <3>7. \A i \in DOMAIN output_queue' : OneShot(data[output_queue[i]])'
      BY <1>1, <2>6, <3>3 DEF WholeFrames, OneShot
    <3>8. Doing("decode")' => OneShot(data[frame_ring[Head(todo).buf]])'
      BY <1>1, <2>6, <3>4, <3>5, <3>6 DEF WholeFrames, OneShot
    <3>9. QED
      BY <1>1, <3>6, <3>7, <3>8 DEF WholeFrames, OneShot
  <2>10. QED
    BY <2>8, <2>9
<1>4. QED
  BY <1>2, <1>3

(* Every step keeps the frames whole, as long as no packet is lost.        *)
LEMMA WholeStep ==
    ASSUME IInv, WInv, [Next]_vars
    PROVE  WInv'
<1>1. Expected /\ Expected'
  BY ExpectedStep DEF IInv, WInv
<1>2. lost \in 0..MaxLost
  BY DEF IInv, TInv, TypeOK
<1>3. SUFFICES ASSUME lost' = 0
               PROVE  PartWhole' /\ WholeFrames'
  BY <1>1 DEF WInv
<1>4. ~LosePacket
  BY <1>2, <1>3 DEF LosePacket
<1>5. lost' = lost
  BY <1>4 DEF Next, Call, Client, InitiateAcquire, WaitForget, WaitTake, Decode, ReturnFrame,
     Close, CloseDone, Open, Reader, ReaderStart, Receive, StartOfFrame, CopyPacket,
     ReaderPutBack, ReaderEnd, vars, bus
<1>6. PartWhole /\ WholeFrames
  BY <1>3, <1>5 DEF WInv
<1>7. CASE Call \/ Client
  <2>1. /\ rpc' = rpc /\ packet' = packet /\ cam' = cam /\ data' = data
        /\ current_frame' = current_frame
    BY <1>7 DEF Call, Client, InitiateAcquire, WaitForget, WaitTake, Decode, ReturnFrame,
       CloseDone, frames, reader, bus
  <2>2. QED
    BY <1>6, <1>7, <2>1, PartKept, ClientWhole
<1>8. CASE Close \/ UNCHANGED vars
  BY <1>6, <1>8, PartKept, WholeKept DEF Close, vars, frames, queues, reader, bus
<1>9. CASE Open \/ ReaderStart \/ ReaderPutBack \/ ReaderEnd
  <2>1. Filling' = NULL
    BY <1>9 DEF Open, ReaderStart, ReaderPutBack, ReaderEnd, Filling
  <2>2. WholeFrames'
    BY <1>6, <1>9, WholeKept DEF Open, ReaderStart, ReaderPutBack, ReaderEnd, frames, queues
  <2>3. QED
    BY <2>1, <2>2 DEF PartWhole
<1>10. CASE Receive
  <2>1. WholeFrames'
    BY <1>6, <1>10, WholeKept DEF Receive, frames, queues
  <2>2. QED
    BY <1>6, <1>10, <2>1, ReceiveWhole
<1>11. CASE StartOfFrame
  BY <1>1, <1>6, <1>11, StartWhole
<1>12. CASE CopyPacket
  BY <1>1, <1>6, <1>12, CopyWhole
<1>13. QED
  BY <1>4, <1>7, <1>8, <1>9, <1>10, <1>11, <1>12 DEF Next, Reader

(* With two buffers or more, and as long as the bus loses nothing, every   *)
(* complete frame and every image a call returned is of one capture, for   *)
(* any number of packets of a frame and however the decoding, which holds  *)
(* no lock, comes between the reader's copies.                             *)
THEOREM FramesWhole ==
    ASSUME NBuffers > 1
    PROVE  Spec => []Whole
<1>1. Init => WInv
  <2>1. Init => /\ rpc = "start" /\ output_queue = <<>> /\ todo = <<>>
                /\ images = [b \in Buffers |-> [p \in Positions |-> 0]]
                /\ result.call = "none"
    BY DEF Init, ClientInit
  <2>2. 0 \in Positions
    BY PacketsType
  <2>3. QED
    BY <2>1, <2>2 DEF WInv, Expected, PartWhole, WholeFrames, Filling, OneShot, Doing
<1>2. Init => IInv
  BY InitOK
<1>3. IInv /\ WInv /\ [Next]_vars => IInv' /\ WInv'
  BY StepOK, WholeStep
<1>4. WInv => Whole
  BY DEF WInv, WholeFrames, Whole
<1>5. QED
  BY <1>1, <1>2, <1>3, <1>4, PTL DEF Spec
-----------------------------------------------------------------------------
(* The mailbox.  A frame of number n has begun before the packet c that    *)
(* the camera sends next: any frame that begins with or after c is later.  *)
Past(n, c) == n <= c.shot /\ (c.pos = 0 => Mailbox!Later(n, c.shot))

(* Number n is that of a frame later than the one that waits and the one   *)
(* taken last. *)
NewerThanAll(n) ==
    n \in 1..MaxShots /\ Mailbox!Later(Waiting, n) /\ Mailbox!Later(taken, n)

(* The reader handles the first packet of a frame, which it has no DVFrame *)
(* for, or one without its number yet. *)
Starting == rpc \in {"start_of_frame", "copy"} /\ packet.pos = 0
Numbered == Filling # NULL /\ ~(rpc = "copy" /\ packet.pos = 0)

(* The frame that waits, the one taken and the one in use are past, and    *)
(* the one in use is newer than the others, the one that starts than all.  *)
Ages ==
    /\ Past(Waiting, cam) /\ Past(taken, cam)
    /\ output_queue # <<>> => Waiting # 0
    /\ Starting => Past(packet.shot, cam) /\ NewerThanAll(packet.shot)
    /\ Numbered => Past(Number(Filling), cam) /\ NewerThanAll(Number(Filling))
    /\ Filling # NULL /\ rpc = "start_of_frame" =>
           Mailbox!Later(Number(Filling), packet.shot)

(* The types of the numbers *)
LEMMA NumberTypes ==
    ASSUME TInv
    PROVE  /\ \A f \in DVFrames : Number(f) \in 0..MaxShots
           /\ Waiting \in 0..MaxShots /\ taken \in 0..MaxShots
           /\ cam.shot \in 0..MaxShots /\ cam.pos \in Positions
<1>1. 0 \in Positions
  BY PacketsType
<1>2. \A f \in DVFrames : Number(f) \in 0..MaxShots
  BY <1>1 DEF TInv, TypeOK, Number
<1>3. output_queue # <<>> => Last(output_queue) \in DVFrames
  BY FrontSet DEF TInv, TypeOK
<1>4. 0 \in 0..MaxShots
  BY DVAssumption
<1>5. Waiting \in 0..MaxShots
  BY <1>2, <1>3, <1>4 DEF Waiting
<1>6. cam \in Packet /\ taken \in 0..MaxShots
  BY DEF TInv, TypeOK
<1>7. QED
  BY <1>2, <1>5, <1>6 DEF Packet

(* What is past stays so, and what is sent now is past afterwards.         *)
LEMMA PastNext ==
    ASSUME cam.shot \in 0..MaxShots, cam.pos \in Positions
    PROVE  /\ \A n \in 0..MaxShots : Past(n, cam) => Past(n, NextPacket)
           /\ Past(cam.shot, NextPacket)
<1>1. PICK s \in 0..MaxShots, p \in Positions : cam.shot = s /\ cam.pos = p
  OBVIOUS
<1>2. NextShot(s) \in 0..MaxShots /\ s <= NextShot(s)
  BY DVAssumption DEF NextShot
<1>3. \A n \in 0..MaxShots : n <= s => n <= NextShot(s) /\ Mailbox!Later(n, NextShot(s))
  BY DVAssumption DEF NextShot, Mailbox!Later
<1>4. CASE p = Packets - 1
  <2>1. NextPacket.shot = NextShot(s) /\ NextPacket.pos = 0
    BY <1>1, <1>4 DEF NextPacket
  <2>2. QED
    BY <1>1, <1>3, <2>1 DEF Past
<1>5. CASE p # Packets - 1
  <2>1. NextPacket.shot = s /\ NextPacket.pos = p + 1 /\ p + 1 # 0
    BY <1>1, <1>5, DVAssumption DEF NextPacket, Positions
  <2>2. QED
    BY <1>1, <2>1 DEF Past
<1>6. QED
  BY <1>4, <1>5

(* What leaves the reader, the data and the complete frames alone *)
LEMMA AgesKept ==
    ASSUME rpc' = rpc, current_frame' = current_frame, packet' = packet, cam' = cam,
           data' = data, output_queue' = output_queue, taken' = taken
    PROVE  Waiting' = Waiting /\ (Ages => Ages')
<1>1. Filling' = Filling
  BY SameFilling
<1>2. Waiting' = Waiting
  BY DEF Waiting, Number
<1>3. QED
  BY <1>1, <1>2 DEF Ages, Past, NewerThanAll, Starting, Numbered, Number

(* The client takes what waits. *)
LEMMA TakeAges ==
    ASSUME IInv, Ages, WaitTake
    PROVE  Ages' /\ Mailbox!Take
<1>1. TInv /\ rpc' = rpc /\ current_frame' = current_frame /\ packet' = packet /\ cam' = cam
      /\ data' = data /\ output_queue # <<>> /\ output_queue' = <<>>
  BY DEF IInv, WaitTake, reader, bus
<1>2. Filling' = Filling
  BY <1>1, SameFilling
<1>3. Waiting' = 0 /\ taken' = Waiting /\ Waiting # 0
  BY <1>1 DEF WaitTake, Waiting, NewestComplete, Ages
<1>4. /\ \A f \in DVFrames : Number(f) \in 0..MaxShots
      /\ Waiting \in 0..MaxShots /\ taken \in 0..MaxShots
      /\ cam.shot \in 0..MaxShots
  BY <1>1, NumberTypes
<1>5. \A n \in 1..MaxShots : Mailbox!Later(0, n)
  BY DVAssumption DEF Mailbox!Later
<1>6. Past(0, cam)
  BY <1>4, DVAssumption DEF Ages, Past, Mailbox!Later
<1>7. \A n : NewerThanAll(n) => NewerThanAll(n)'
  BY <1>3, <1>5 DEF NewerThanAll, Mailbox!Later
<1>8. Ages'
  <2>1. Past(Waiting, cam)' /\ Past(taken, cam)'
    BY <1>1, <1>3, <1>6 DEF Ages, Past
  <2>2. Starting' => Past(packet.shot, cam)' /\ NewerThanAll(packet.shot)'
    BY <1>1, <1>7 DEF Ages, Starting, Past
  <2>3. Numbered' => Past(Number(Filling), cam)' /\ NewerThanAll(Number(Filling))'
    BY <1>1, <1>2, <1>7 DEF Ages, Numbered, Number, Past
  <2>4. QED
    BY <1>1, <1>2, <2>1, <2>2, <2>3 DEF Ages, Number
<1>9. QED
  BY <1>3, <1>8 DEF Mailbox!Take

(* The thread ends or begins, or the device is opened.                     *)
LEMMA SessionAges ==
    ASSUME IInv, Ages, Open \/ ReaderStart \/ ReaderPutBack \/ ReaderEnd
    PROVE  Ages' /\ Waiting' = Waiting /\ taken' = taken
<1>1. /\ output_queue' = output_queue /\ data' = data /\ taken' = taken
      /\ rpc' \notin {"start_of_frame", "copy"} /\ Filling' = NULL
  BY DEF Open, ReaderStart, ReaderPutBack, ReaderEnd, Filling, frames, queues
<1>2. Waiting' = Waiting
  BY <1>1 DEF Waiting, Number
<1>3. /\ Waiting \in 0..MaxShots /\ taken \in 0..MaxShots /\ cam.shot \in 0..MaxShots
  BY NumberTypes DEF IInv
<1>4. \A n \in 0..MaxShots : Past(n, cam) => Past(n, cam')
  <2>1. CASE Open
    <3>1. cam'.shot = NextShot(cam.shot)
      BY <2>1 DEF Open
    <3>2. QED
      BY <1>3, <3>1, DVAssumption DEF Past, NextShot, Mailbox!Later
  <2>2. CASE ReaderStart \/ ReaderPutBack \/ ReaderEnd
    BY <2>2 DEF ReaderStart, ReaderPutBack, ReaderEnd, bus
  <2>3. QED
    BY <2>1, <2>2
<1>5. Past(Waiting, cam)' /\ Past(taken, cam)'
  BY <1>1, <1>2, <1>3, <1>4 DEF Ages, Past
<1>6. QED
  BY <1>1, <1>2, <1>5 DEF Ages, Starting, Numbered

(* The camera sends a packet, which the bus loses or the reader gets.      *)
LEMMA PacketAges ==
    ASSUME IInv, Ages, Receive \/ LosePacket
    PROVE  Ages' /\ Waiting' = Waiting /\ taken' = taken
<1>1. /\ output_queue' = output_queue /\ data' = data /\ taken' = taken
      /\ current_frame' = current_frame /\ rpc = "loop" /\ cam' = NextPacket
  BY DEF Receive, LosePacket, frames, queues
<1>2. Waiting' = Waiting /\ Filling = current_frame /\ Filling' = Filling
  BY <1>1 DEF Waiting, Number, Filling, Receive, LosePacket, reader
<1>3. /\ Waiting \in 0..MaxShots /\ taken \in 0..MaxShots
      /\ cam.shot \in 0..MaxShots /\ cam.pos \in Positions
      /\ \A f \in DVFrames : Number(f) \in 0..MaxShots
      /\ Filling # NULL => Filling \in DVFrames
  BY NumberTypes, PlaceTypes DEF IInv, DVFrameOrNull
<1>4. /\ \A n \in 0..MaxShots : Past(n, cam) => Past(n, cam')
      /\ Past(cam.shot, cam')
  BY <1>1, <1>3, PastNext
<1>5. Past(Waiting, cam)' /\ Past(taken, cam)'
  BY <1>1, <1>2, <1>3, <1>4 DEF Ages, Past
<1>6. Filling # NULL => Past(Number(Filling), cam) /\ NewerThanAll(Number(Filling))
  BY <1>1 DEF Ages, Numbered
<1>7. \A n : NewerThanAll(n) => NewerThanAll(n)'
  BY <1>1, <1>2 DEF NewerThanAll
<1>8. ASSUME Filling # NULL
      PROVE  Past(Number(Filling), cam)' /\ NewerThanAll(Number(Filling))'
  <2>1. PICK n \in 0..MaxShots : n = Number(Filling)
    BY <1>3, <1>8
  <2>2. Number(Filling)' = n
    BY <1>1, <1>2, <2>1 DEF Number
  <2>3. Past(n, cam') /\ NewerThanAll(n)'
    BY <1>4, <1>6, <1>7, <1>8, <2>1
  <2>4. QED
    BY <2>2, <2>3 DEF Past, NewerThanAll
<1>9. CASE LosePacket
  <2>1. rpc' = "loop" /\ Filling' = Filling
    BY <1>1, <1>9 DEF LosePacket, reader, frames, Filling
  <2>2. QED
    BY <1>1, <1>2, <1>5, <1>8, <2>1 DEF Ages, Starting, Numbered, Number, Past, NewerThanAll
<1>10. CASE Receive /\ cam.pos = 0
  <2>1. PICK s \in 0..MaxShots : s = cam.shot
    BY <1>3
  <2>2. rpc' = "start_of_frame" /\ packet'.shot = s /\ packet'.pos = 0
    BY <1>10, <2>1 DEF Receive
  <2>3. Mailbox!Later(Waiting, s) /\ Mailbox!Later(taken, s)
    BY <1>10, <2>1 DEF Ages, Past
  <2>4. s \in 1..MaxShots
    BY <1>3, <2>3, DVAssumption DEF Mailbox!Later
  <2>5. NewerThanAll(s)' /\ Past(s, cam')
    BY <1>4, <1>7, <2>1, <2>3, <2>4 DEF NewerThanAll
  <2>6. Filling # NULL => Mailbox!Later(Number(Filling), s)
    BY <1>6, <1>10, <2>1 DEF Past
  <2>7. Starting' => Past(packet.shot, cam)' /\ NewerThanAll(packet.shot)'
    BY <2>2, <2>5 DEF Past, NewerThanAll
  <2>8. Filling' # NULL => Mailbox!Later(Number(Filling), packet.shot)'
    BY <1>1, <1>2, <2>2, <2>6 DEF Number, Mailbox!Later
  <2>9. output_queue' # <<>> => Waiting' # 0
    BY <1>1, <1>2 DEF Ages
  <2>10. QED
    BY <1>1, <1>2, <1>5, <1>8, <2>7, <2>8, <2>9 DEF Ages, Numbered
<1>11. CASE Receive /\ cam.pos # 0
  <2>1. rpc' = "copy" /\ packet' = cam
    BY <1>11 DEF Receive
  <2>2. QED
    BY <1>1, <1>2, <1>5, <1>8, <1>11, <2>1
       DEF Ages, Starting, Numbered, Number, Past, NewerThanAll
<1>12. QED
  BY <1>9, <1>10, <1>11

(* A frame starts, and the one before is delivered. *)
LEMMA StartAges ==
    ASSUME IInv, Expected, Ages, StartOfFrame
    PROVE  Ages' /\ (UNCHANGED <<Waiting, taken>> \/ Mailbox!Deliver)
<1>1. /\ rpc = "start_of_frame" /\ rpc' = "copy" /\ packet' = packet /\ packet.pos = 0
      /\ cam' = cam /\ data' = data /\ taken' = taken /\ Filling = current_frame
  BY DEF Expected, StartOfFrame, Filling, bus
<1>2. Starting /\ ~Numbered' /\ Past(packet.shot, cam) /\ NewerThanAll(packet.shot)
  BY <1>1 DEF Ages, Starting, Numbered
<1>3. CASE current_frame = NULL
  <2>1. Waiting' = Waiting /\ output_queue' = output_queue
    BY <1>1, <1>3 DEF StartOfFrame, Waiting, Number
  <2>2. QED
    BY <1>1, <1>2, <2>1 DEF Ages, Past, NewerThanAll
<1>4. CASE current_frame # NULL
  <2>1. PICK f \in DVFrames : f = current_frame
    BY <1>1, <1>4, PlaceTypes DEF IInv, DVFrameOrNull
  <2>2. output_queue' = Append(output_queue, f) /\ output_queue \in Seq(DVFrames)
    BY <1>4, <2>1, PlaceTypes DEF StartOfFrame, IInv
  <2>3. output_queue' # <<>> /\ Last(output_queue') = f
    BY <2>2 DEF Last
  <2>4. PICK n : n = Number(f)
    OBVIOUS
  <2>5. Waiting' = n
    BY <1>1, <2>3, <2>4 DEF Waiting, Number
  <2>6. Past(n, cam) /\ NewerThanAll(n) /\ Mailbox!Later(n, packet.shot)
    BY <1>1, <1>4, <2>1, <2>4 DEF Ages, Numbered
  <2>7. Mailbox!Deliver
    BY <1>1, <2>5, <2>6 DEF NewerThanAll, Mailbox!Deliver
  <2>8. NewerThanAll(packet.shot)'
    BY <1>1, <1>2, <2>5, <2>6 DEF NewerThanAll
  <2>9. Waiting' # 0
    BY <2>5, <2>6 DEF NewerThanAll
  <2>10. Ages'
    BY <1>1, <1>2, <2>5, <2>6, <2>8, <2>9 DEF Ages, Past
  <2>11. QED
    BY <2>7, <2>10
<1>5. QED
  BY <1>3, <1>4

(* The first packet numbers the frame; none is copied to one that waits.   *)
LEMMA CopyAges ==
    ASSUME IInv, Ages, CopyPacket
    PROVE  Ages' /\ Waiting' = Waiting /\ taken' = taken
<1>1. /\ rpc = "copy" /\ rpc' = "loop" /\ packet' = packet /\ cam' = cam /\ taken' = taken
      /\ Filling = current_frame /\ Filling' = current_frame /\ output_queue' = output_queue
  BY DEF CopyPacket, Filling, queues, bus
<1>2. TInv /\ output_queue \in Seq(DVFrames) /\ Filling \in DVFrameOrNull
  BY PlaceTypes DEF IInv
<1>3. CASE current_frame = NULL
  <2>1. data' = data
    BY <1>3 DEF CopyPacket
  <2>2. Waiting' = Waiting
    BY <1>1, <2>1 DEF Waiting, Number
  <2>3. QED
    BY <1>1, <1>3, <2>2 DEF Ages, Past, Starting, Numbered
<1>4. CASE current_frame # NULL
  <2>1. PICK f \in DVFrames : f = current_frame /\ f = Filling /\ f # NULL
    BY <1>1, <1>2, <1>4 DEF DVFrameOrNull
  <2>2. PICK s \in 0..MaxShots, p \in Positions : packet.shot = s /\ packet.pos = p
    BY <1>2 DEF TInv, TypeOK, Packet
  <2>3. /\ data' = [data EXCEPT ![f][p] = s]
        /\ data \in [DVFrames -> [Positions -> 0..MaxShots]]
    BY <1>2, <1>4, <2>1, <2>2 DEF CopyPacket, TInv, TypeOK
  <2>4. 0 \in Positions
    BY PacketsType
  <2>5. /\ \A g \in DVFrames \ {f} : data'[g] = data[g]
        /\ data'[f][0] = IF p = 0 THEN s ELSE data[f][0]
    BY <2>3, <2>4
  <2>6. output_queue # <<>> => Last(output_queue) \in DVFrames \ {f}
    <3>1. f \notin ToSet(output_queue)
      BY <2>1 DEF IInv, Placed
    <3>2. ASSUME output_queue # <<>>
          PROVE  Last(output_queue) \in DVFrames /\ Last(output_queue) \in ToSet(output_queue)
      <4>1. PICK g \in DVFrames : g = Last(output_queue)
        BY <1>2, <3>2, FrontSet
      <4>2. ToSet(output_queue) = ToSet(Front(output_queue)) \cup {g}
        BY <1>2, <3>2, <4>1, FrontSet
      <4>3. QED
        BY <4>1, <4>2
    <3>3. QED
      BY <3>1, <3>2
  <2>7. Waiting' = Waiting
    BY <1>1, <2>5, <2>6 DEF Waiting, Number
  <2>8. PICK n : n = data'[f][0]
    OBVIOUS
  <2>9. Past(n, cam) /\ NewerThanAll(n)
    <3>1. CASE p = 0
      BY <1>1, <2>2, <2>5, <2>8, <3>1 DEF Ages, Starting
    <3>2. CASE p # 0
      BY <1>1, <2>1, <2>2, <2>5, <2>8, <3>2 DEF Ages, Numbered, Number
    <3>3. QED
      BY <3>1, <3>2
  <2>10. Past(Number(Filling), cam)' /\ NewerThanAll(Number(Filling))'
    BY <1>1, <2>1, <2>7, <2>8, <2>9 DEF Number, Past, NewerThanAll
  <2>11. Ages'
    BY <1>1, <2>7, <2>10 DEF Ages, Past, Starting
  <2>12. QED
    BY <1>1, <2>7, <2>11
<1>5. QED
  BY <1>3, <1>4

(* Every step keeps the ages, and is one of the mailbox or none.           *)
LEMMA MailboxStep ==
    ASSUME IInv, Expected, Ages, [Next]_vars
    PROVE  Ages' /\ (Mailbox!Next \/ UNCHANGED <<Waiting, taken>>)
<1>1. CASE Call \/ InitiateAcquire \/ WaitForget \/ Decode \/ ReturnFrame \/ Close
           \/ CloseDone \/ UNCHANGED vars
  <2>1. /\ rpc' = rpc /\ current_frame' = current_frame /\ packet' = packet /\ cam' = cam
        /\ data' = data /\ output_queue' = output_queue /\ taken' = taken
    BY <1>1 DEF Call, InitiateAcquire, WaitForget, Decode, ReturnFrame, Close, CloseDone, vars,
       frames, queues, reader, bus
  <2>2. QED
    BY <2>1, AgesKept
<1>2. CASE WaitTake
  BY <1>2, TakeAges DEF Mailbox!Next
<1>3. CASE Open \/ ReaderStart \/ ReaderPutBack \/ ReaderEnd
  BY <1>3, SessionAges
<1>4. CASE Receive \/ LosePacket
  BY <1>4, PacketAges
<1>5. CASE StartOfFrame
  BY <1>5, StartAges DEF Mailbox!Next
<1>6. CASE CopyPacket
  BY <1>6, CopyAges
<1>7. QED
  BY <1>1, <1>2, <1>3, <1>4, <1>5, <1>6 DEF Next, Client, Reader

(* The two queues, of which the client takes all and keeps the newest,     *)
(* implement a mailbox of one place (FrameMailbox.tla): the frame that     *)
(* waits is later than all taken before, each is taken at most once, and   *)
(* none comes back, whatever the bus loses and across close() and open().  *)
(* It may be older than frames the reader dropped (NewestTaken is about    *)
(* those).                                                                 *)
(* A frame has 250 or 300 packets (DV1394.cc:79).  With a single one there *)
(* would be no middle of a frame for the device to be opened in.           *)
THEOREM MailboxImplemented ==
    ASSUME NBuffers > 1, Packets > 1
    PROVE  Spec => ImplementsMailbox
<1>1. Init => IInv /\ Expected /\ Ages
  <2>1. Init => IInv
    BY InitOK
  <2>2. Init => /\ rpc = "start" /\ Waiting = 0 /\ taken = 0 /\ output_queue = <<>>
                /\ cam.shot = 0 /\ cam.pos # 0
    BY DVAssumption DEF Init, Waiting
  <2>3. Init => Expected /\ Ages
    BY <2>2 DEF Expected, Ages, Past, Starting, Numbered, Filling
  <2>4. QED
    BY <2>1, <2>3
<1>2. Init => Mailbox!Init
  BY DEF Init, Waiting, Mailbox!Init
<1>3. IInv /\ Expected /\ Ages /\ [Next]_vars => IInv' /\ Expected' /\ Ages'
  BY StepOK, ExpectedStep, MailboxStep DEF IInv
<1>4. IInv /\ Expected /\ Ages /\ [Next]_vars => [Mailbox!Next]_(Mailbox!mailbox)
  BY MailboxStep DEF Mailbox!mailbox
<1>5. QED
  BY <1>1, <1>2, <1>3, <1>4, PTL DEF Spec, ImplementsMailbox, Mailbox!Spec
=============================================================================
