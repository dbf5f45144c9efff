------------------------------- MODULE DV1394 --------------------------------
(***************************************************************************)
(* DV1394 (src/Devices/DV1394.{h,cc}): digital video over FireWire.  A     *)
(* reader thread receives the packets of the camera, assembles them in     *)
(* DVFrames and passes these to the client through two queues under        *)
(* g_mutex: buffer_queue holds the unused ones, output_queue the complete  *)
(* ones.  The client takes every complete frame, keeps the newest in       *)
(* frame_ring until the buffer is used again, and decodes it.              *)
(*                                                                         *)
(* A frame of the camera is a number and Packets packets, of which the     *)
(* first starts the frame; a DVFrame remembers, per packet position, the   *)
(* number of the frame its data came from.  A critical section of g_mutex  *)
(* is one step.  bytesInDVFrame and g_buffer_underrun are never read; for  *)
(* the latter, dropped remembers for which frames no DVFrame was unused.   *)
(***************************************************************************)
EXTENDS VideoClient, FiniteSets

CONSTANTS Packets,   \* packets of a frame
          MaxShots,  \* bound: frame numbers; the last stands for all later
          MaxLost,   \* bound: packets the bus loses
          MaxOpens   \* bound: calls of open()

ASSUME DVAssumption ==
    /\ Packets \in Nat \ {0} /\ MaxShots \in Nat \ {0}
    /\ MaxLost \in Nat /\ MaxOpens \in Nat \ {0}

VARIABLES frame_ring,      \* per buffer: the DVFrame it shows, NULL if none
          buffer_queue, output_queue,
          current_frame,   \* the DVFrame the reader fills, NULL if none
          data,            \* per DVFrame and position: the frame's number
          images,          \* per buffer: what was decoded into it
          reader_active, handle,
          rpc,             \* control state of the reader thread
          packet,          \* the packet it handles
          cam,             \* the next packet the camera sends
          lost,            \* number of packets lost
          opens, closing,
          taken,           \* history: number of the frame last taken
          dropped          \* history: the frames for which no DVFrame was unused

queues  == <<buffer_queue, output_queue>>
frames  == <<frame_ring, queues, current_frame, data>>
reader  == <<reader_active, handle, rpc, packet>>
bus     == <<cam, lost>>
session == <<opens, closing, dropped>>
vars    == <<client, frames, images, reader, bus, session, taken>>

NULL      == 0
DVFrames  == 1..NBuffers
Positions == 0..(Packets - 1)

Number(f) == data[f][0]

(* the camera: the next frame's number, and the packet after this one *)
NextShot(n) == IF n < MaxShots THEN n + 1 ELSE n
NextPacket == IF cam.pos = Packets - 1 THEN [shot |-> NextShot(cam.shot), pos |-> 0]
              ELSE [shot |-> cam.shot, pos |-> cam.pos + 1]

(* the constructor: all DVFrames are unused, and open() creates the reader *)
(* in the middle of a frame                                               *)
Init ==
    /\ ClientInit
    /\ frame_ring = [b \in Buffers |-> NULL]
    /\ buffer_queue = [i \in DVFrames |-> i] /\ output_queue = <<>>
    /\ current_frame = NULL
    /\ data = [f \in DVFrames |-> [p \in Positions |-> 0]]
    /\ images = [b \in Buffers |-> [p \in Positions |-> 0]]
    /\ reader_active = FALSE /\ handle = TRUE /\ rpc = "start"
    /\ dropped = {}
    /\ packet = [shot |-> 0, pos |-> 0]
    /\ cam = [shot |-> 0, pos |-> Packets - 1] /\ lost = 0
    /\ opens = 1 /\ closing = FALSE
    /\ taken = 0
-----------------------------------------------------------------------------
(* The client thread *)

Call ==
    /\ handle /\ ~closing
    /\ BeginCall
    /\ UNCHANGED <<frames, images, reader, bus, session, taken>>

(* initiate_acquire(): the buffer's DVFrame is unused from now on *)
InitiateAcquire ==
    /\ Doing("initiate")
    /\ LET b == Head(todo).buf
       IN /\ buffer_queue' = IF frame_ring[b] = NULL THEN buffer_queue
                             ELSE Append(buffer_queue, frame_ring[b])
          /\ frame_ring' = [frame_ring EXCEPT ![b] = NULL]
    /\ Done
    /\ UNCHANGED <<output_queue, current_frame, data, images, reader, bus, session, taken>>

(* wait_for_completion(): first it forgets the buffer's DVFrame *)
WaitForget ==
    /\ Doing("wait")
    /\ frame_ring' = [frame_ring EXCEPT ![Head(todo).buf] = NULL]
    /\ Becomes("take")
    /\ UNCHANGED <<queues, current_frame, data, images, reader, bus, session, taken>>

(* mutation: the older complete frames are not given back *)
DroppedFrames == <<>>
(* mutation: the oldest complete frame is kept *)
OldestComplete == Head(output_queue)

OlderFrames == Front(output_queue)
NewestComplete == Last(output_queue)

(* wait_for_completion(): take all complete frames and keep the newest; as *)
(* long as there is none, the client sleeps and looks again                *)
WaitTake ==
    /\ Doing("take")
    /\ output_queue # <<>>
    /\ frame_ring' = [frame_ring EXCEPT ![Head(todo).buf] = NewestComplete]
    /\ buffer_queue' = buffer_queue \o OlderFrames
    /\ output_queue' = <<>>
    /\ taken' = Number(NewestComplete)
    /\ Becomes("decode")
    /\ UNCHANGED <<current_frame, data, images, reader, bus, session>>

(* decode_frame(), without the lock *)
Decode ==
    /\ Doing("decode")
    /\ LET b == Head(todo).buf
       IN images' = [images EXCEPT ![b] = data[frame_ring[b]]]
    /\ Done
    /\ UNCHANGED <<frames, reader, bus, session, taken>>

ReturnFrame ==
    /\ Doing("return")
    /\ Return(images[Head(todo).buf])
    /\ UNCHANGED <<frames, images, reader, bus, session, taken>>

(* close(), also from open() *)
Close ==
    /\ ~InCall /\ handle /\ ~closing
    /\ reader_active' = FALSE
    /\ closing' = TRUE
    /\ UNCHANGED <<client, frames, images, handle, rpc, packet, bus, opens,
                   dropped, taken>>

(* close() has seen that the handle is gone *)
CloseDone ==
    /\ closing /\ ~handle
    /\ closing' = FALSE
    /\ UNCHANGED <<client, frames, images, reader, bus, opens, dropped, taken>>

(* open() of the closed device, in the middle of a frame or before one *)
Open ==
    /\ ~InCall /\ ~handle /\ ~closing /\ opens < MaxOpens
    /\ handle' = TRUE
    /\ rpc' = "start"
    /\ opens' = opens + 1
    /\ cam' \in [shot : {NextShot(cam.shot)}, pos : Positions]
    /\ UNCHANGED <<client, frames, images, reader_active, packet, lost, closing,
                   dropped, taken>>

Client == InitiateAcquire \/ WaitForget \/ WaitTake \/ Decode \/ ReturnFrame \/ CloseDone

-----------------------------------------------------------------------------
(* The reader thread *)

ReaderStart ==
    /\ rpc = "start"
    /\ reader_active' = TRUE
    /\ current_frame' = NULL
    /\ rpc' = "loop"
    /\ UNCHANGED <<client, frame_ring, queues, data, images, handle, packet, bus,
                   session, taken>>

(* the loop's test, and raw1394_loop_iterate(), which hands a packet to    *)
(* avi_iso_handler()                                                       *)
Receive ==
    /\ rpc = "loop" /\ reader_active
    /\ packet' = cam
    /\ cam' = NextPacket
    /\ rpc' = IF cam.pos = 0 THEN "start_of_frame" ELSE "copy"
    /\ UNCHANGED <<client, frames, images, reader_active, handle, lost, session, taken>>

(* mutation: g_current_frame is not reset when no DVFrame is unused *)
KeptCurrent == IF buffer_queue = <<>> THEN current_frame ELSE Head(buffer_queue)
NextCurrent == IF buffer_queue = <<>> THEN NULL ELSE Head(buffer_queue)

(* the first packet: output the frame before and get an unused DVFrame; if *)
(* there is none, the frame that starts is dropped                         *)
StartOfFrame ==
    /\ rpc = "start_of_frame"
    /\ output_queue' = IF current_frame = NULL THEN output_queue
                       ELSE Append(output_queue, current_frame)
    /\ current_frame' = NextCurrent
    /\ buffer_queue' = IF buffer_queue = <<>> THEN <<>> ELSE Tail(buffer_queue)
    /\ dropped' = IF buffer_queue = <<>> THEN dropped \cup {packet.shot} ELSE dropped
    /\ rpc' = "copy"
    /\ UNCHANGED <<client, frame_ring, data, images, reader_active, handle, packet,
                   bus, opens, closing, taken>>

(* copy the packet's data to its place, without the lock *)
CopyPacket ==
    /\ rpc = "copy"
    /\ data' = IF current_frame = NULL THEN data
               ELSE [data EXCEPT ![current_frame][packet.pos] = packet.shot]
    /\ rpc' = "loop"
    /\ UNCHANGED <<client, frame_ring, queues, current_frame, images, reader_active,
                   handle, packet, bus, session, taken>>

(* mutation: the frame in use is forgotten *)
NotPutBack == buffer_queue
PutBack == IF current_frame = NULL THEN buffer_queue
           ELSE Append(buffer_queue, current_frame)

(* the loop has ended: put the frame in use back *)
ReaderPutBack ==
    /\ rpc = "loop" /\ ~reader_active
    /\ buffer_queue' = PutBack
    /\ rpc' = "end"
    /\ UNCHANGED <<client, frame_ring, output_queue, current_frame, data, images,
                   reader_active, handle, packet, bus, session, taken>>

Reset == FALSE

(* the last statement, for which close() waits *)
ReaderEnd ==
    /\ rpc = "end"
    /\ handle' = Reset
    /\ rpc' = "none"
    /\ UNCHANGED <<client, frames, images, reader_active, packet, bus, session, taken>>

Reader == ReaderStart \/ Receive \/ StartOfFrame \/ CopyPacket
          \/ ReaderPutBack \/ ReaderEnd

(* The bus loses a packet *)
LosePacket ==
    /\ rpc = "loop"
    /\ lost < MaxLost
    /\ lost' = lost + 1
    /\ cam' = NextPacket
    /\ UNCHANGED <<client, frames, images, reader, session, taken>>

Next == Call \/ Client \/ Close \/ Open \/ Reader \/ LosePacket

Spec == Init /\ [][Next]_vars

(* Both threads run and the camera sends; what is called is the user's     *)
(* affair, and packets are lost only now and then.                         *)
FairSpec == Spec /\ WF_vars(Client) /\ WF_vars(Reader)
-----------------------------------------------------------------------------
DVFrameOrNull == DVFrames \cup {NULL}
Packet == [shot : 0..MaxShots, pos : Positions]

TypeOK ==
    /\ ClientOK
    /\ frame_ring \in [Buffers -> DVFrameOrNull]
    /\ buffer_queue \in Seq(DVFrames) /\ output_queue \in Seq(DVFrames)
    /\ current_frame \in DVFrameOrNull
    /\ data \in [DVFrames -> [Positions -> 0..MaxShots]]
    /\ images \in [Buffers -> [Positions -> 0..MaxShots]]
    /\ reader_active \in BOOLEAN /\ handle \in BOOLEAN /\ closing \in BOOLEAN
    /\ rpc \in {"none", "start", "loop", "start_of_frame", "copy", "end"}
    /\ cam \in Packet /\ packet \in Packet
    /\ taken \in 0..MaxShots /\ lost \in 0..MaxLost
    /\ dropped \subseteq 0..MaxShots

(* the DVFrame the reader fills; after ReaderPutBack g_current_frame is    *)
(* a stale pointer                                                         *)
Filling == IF rpc \in {"none", "start", "end"} THEN NULL ELSE current_frame

(* where DVFrame f is: once for each place *)
Places(f) ==
    {<<"ring", b>> : b \in {c \in Buffers : frame_ring[c] = f}}
    \cup {<<"buffer", i>> : i \in {j \in DOMAIN buffer_queue : buffer_queue[j] = f}}
    \cup {<<"output", i>> : i \in {j \in DOMAIN output_queue : output_queue[j] = f}}
    \cup (IF Filling = f THEN {<<"filled", 0>>} ELSE {})

(* No DVFrame is ever lost or used twice: it is unused, being filled,      *)
(* complete or shown in exactly one place, whatever functions of XVVideo   *)
(* the client mixes, and across close() and open().  So the reader fills   *)
(* no frame that the client decodes, although neither holds the lock then. *)
Conservation == \A f \in DVFrames : Cardinality(Places(f)) = 1

(* The parts of an image were captured together, whatever the client does  *)
(* meanwhile, as long as the bus loses nothing: there is no trace in the   *)
(* code of a lost packet.                                                  *)
OneShot(img) == \A p \in Positions : img[p] = img[0]
Whole ==
    lost = 0 =>
        /\ result.call # "none" => OneShot(result.stamp)
        /\ \A i \in DOMAIN output_queue : OneShot(data[output_queue[i]])

(* The mailbox: what waits is the newest frame of the output queue. *)
Waiting == IF output_queue = <<>> THEN 0 ELSE Number(Last(output_queue))
Mailbox == INSTANCE FrameMailbox WITH waiting <- Waiting
(* The two queues and the recycling of older frames implement a mailbox of *)
(* one place: every frame a call takes was captured after all that were    *)
(* taken before, whatever is lost, dropped or reopened.  It says nothing   *)
(* of the frames that are dropped; NewestTaken does.                       *)
ImplementsMailbox == Mailbox!Spec

(* the newest frame of which the reader has handled every packet, in the   *)
(* first session and while the bus loses nothing                           *)
Received == IF rpc = "start_of_frame" THEN packet.shot - 2 ELSE packet.shot - 1

(* wait_for_completion() takes the newest of all frames received so far    *)
(* but for those that were dropped for want of an unused DVFrame.  (These  *)
(* are the newest ones, so a client that was away gets a frame from before *)
(* its pause, although the comment in DV1394.cc:290 says "wait until the   *)
(* most recent frame".)                                                    *)
NewestTaken ==
    [][WaitTake /\ opens = 1 /\ lost = 0
          => \A shot \in 1..Received \ dropped : taken' >= shot]_vars

(* A call returns as long as packets arrive: there is always a DVFrame     *)
(* left to fill, however many the client's buffers hold.  close() returns  *)
(* if the reader thread had begun to run.  (If it had not, its first       *)
(* statement undoes what close() has written, and the loop that waits "for *)
(* the child to die", DV1394.cc:334, need not end.)                        *)
EveryCallReturns ==
    /\ InCall ~> ~InCall
    /\ closing /\ ~reader_active /\ rpc # "start" ~> ~closing
=============================================================================
