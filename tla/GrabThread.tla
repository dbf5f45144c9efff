----------------------------- MODULE GrabThread ------------------------------
(***************************************************************************)
(* The grab threads of XVFlea2G and of XVDig1394 (version 2 library):      *)
(* initiate_acquire locks the buffer's wait_grab mutex and pushes the      *)
(* buffer on `requests'; a thread that dequeues every captured frame takes *)
(* the oldest request, if there is one, copies the frame to its buffer and *)
(* unlocks the mutex, for which wait_for_completion waits.  The two        *)
(* classes differ in how the thread ends: XVFlea2G has a stop_flag,        *)
(* XVDig1394 loops for ever.                                               *)
(***************************************************************************)
EXTENDS VideoClient

CONSTANTS Stoppable,   \* the loop tests stop_flag (XVFlea2G)
          TornReads    \* the unlocked empty() and back() can meet push_front

ASSUME GrabAssumption == Stoppable \in BOOLEAN /\ TornReads \in BOOLEAN

VARIABLES wait_grab,   \* per buffer: is its mutex locked?
          requests,    \* the list, newest first
          linking,     \* push_front is half done
          gpc,         \* control state of the grab thread
          i_frame,     \* its local variable
          images,      \* per buffer: the number of the frame it holds
          captured,    \* frames copied to a buffer so far
          torn,        \* history: a half linked list has been read
          stop_flag, nowait_flag,
          first,       \* static of ~XVFlea2G: no object of the class was destroyed yet
          dpc          \* control state of the destructor

grabber == <<gpc, i_frame, images, captured, torn>>
shared  == <<wait_grab, requests, linking>>
ending  == <<stop_flag, dpc, first>>
vars    == <<client, grabber, shared, ending, nowait_flag>>

Init ==
    /\ ClientInit
    /\ wait_grab = [b \in Buffers |-> FALSE]
    /\ requests = <<>> /\ linking = FALSE
    /\ gpc = "test" /\ i_frame = 0
    /\ images = [b \in Buffers |-> 0] /\ captured = 0 /\ torn = FALSE
    /\ stop_flag = FALSE /\ dpc = "alive" /\ first \in BOOLEAN
    /\ nowait_flag = FALSE

-----------------------------------------------------------------------------
(* The client thread *)

(* current_frame_continuous(): buffer_index never leaves 0, so only the    *)
(* first call acquires; a buffer number out of range is not acquired       *)
CurrentFrameContinuous ==
    /\ Begin
    /\ nowait_flag' = TRUE
    /\ todo' = IF nowait_flag THEN <<Do("return", 0, "current")>>
               ELSE <<Do("initiate", 0, "current")>>
                    \o (IF 1 \in Buffers THEN <<Do("initiate", 1, "current")>> ELSE <<>>)
                    \o <<Do("wait", 0, "current"), Do("return", 0, "current")>>
    /\ UNCHANGED <<current_buffer, frame_count, capture_mode, shared, grabber, ending>>

Call ==
    /\ dpc = "alive"
    /\ \/ BeginCall /\ UNCHANGED <<shared, grabber, ending, nowait_flag>>
       \/ CurrentFrameContinuous

(* mutation: wait_grab is not taken *)
AlwaysUnlocked(b) == TRUE
Unlocked(b) == ~wait_grab[b]

(* initiate_acquire(): lock wait_grab[i_frame] *)
InitiateLock ==
    /\ Doing("initiate")
    /\ Unlocked(Head(todo).buf)
    /\ wait_grab' = [wait_grab EXCEPT ![Head(todo).buf] = TRUE]
    /\ Becomes("push")
    /\ UNCHANGED <<requests, linking, grabber, ending, nowait_flag>>

(* mutation: push_back, so that the newest request is served first *)
PushBack(b) == Append(requests, b)
PushFront(b) == <<b>> \o requests

(* initiate_acquire(): requests.push_front() under job_mutex.  On an empty *)
(* list the new node is reachable from the front before it is from the     *)
(* back, which the grab thread, holding no lock, can observe.              *)
InitiateHook ==
    /\ Doing("push")
    /\ TornReads /\ requests = <<>> /\ ~linking
    /\ linking' = TRUE
    /\ UNCHANGED <<client, wait_grab, requests, grabber, ending, nowait_flag>>

InitiatePush ==
    /\ Doing("push")
    /\ TornReads /\ requests = <<>> => linking
    /\ requests' = PushFront(Head(todo).buf)
    /\ linking' = FALSE
    /\ Done
    /\ UNCHANGED <<wait_grab, grabber, ending, nowait_flag>>

(* wait_for_completion(): lock and unlock wait_grab[i_frame] *)
WaitForCompletion ==
    /\ Doing("wait")
    /\ Unlocked(Head(todo).buf)
    /\ Done
    /\ UNCHANGED <<shared, grabber, ending, nowait_flag>>

ReturnFrame ==
    /\ Doing("return")
    /\ Return(images[Head(todo).buf])
    /\ UNCHANGED <<shared, grabber, ending, nowait_flag>>

StopRequest == Stoppable

(* ~XVDig1394 has no such test *)
Closes == Stoppable => first

(* the destructor: set stop_flag if there is one, and join *)
Delete ==
    /\ dpc = "alive" /\ ~InCall /\ Closes
    /\ stop_flag' = StopRequest /\ first' = FALSE
    /\ dpc' = "join"
    /\ UNCHANGED <<client, shared, grabber, nowait_flag>>

(* the destructor where another object was destroyed before: it returns,   *)
(* and the thread runs on with what is left of this one                    *)
DeleteLater ==
    /\ dpc = "alive" /\ ~InCall /\ ~Closes
    /\ dpc' = "deleted"
    /\ UNCHANGED <<client, shared, grabber, stop_flag, first, nowait_flag>>

Joined == gpc = "ended"

(* the destructor: the thread is joined, mutexes and camera are destroyed *)
DeleteJoined ==
    /\ dpc = "join"
    /\ Joined
    /\ dpc' = "deleted"
    /\ UNCHANGED <<client, shared, grabber, stop_flag, first, nowait_flag>>

Client == InitiateLock \/ InitiateHook \/ InitiatePush \/ WaitForCompletion
          \/ ReturnFrame \/ DeleteJoined

-----------------------------------------------------------------------------
(* The grab thread *)

(* the loop's condition, and dc1394_capture_dequeue() with POLICY_WAIT *)
GrabTest ==
    /\ gpc = "test"
    /\ gpc' = IF stop_flag THEN "ended" ELSE "look"
    /\ UNCHANGED <<client, shared, i_frame, images, captured, torn, ending, nowait_flag>>

(* mutation: the front, not the back, of the list is read *)
NewestRequest == IF linking THEN 0 ELSE Head(requests)
(* back(); on a half linked list the list's header is read as a node,      *)
(* whose payload there is the list's size, 0                               *)
OldestRequest == IF linking THEN 0 ELSE Last(requests)

(* requests.empty() and requests.back(), without job_mutex *)
GrabLook ==
    /\ gpc = "look"
    /\ IF requests = <<>> /\ ~linking
       THEN gpc' = "test" /\ UNCHANGED i_frame
       ELSE gpc' = "pop" /\ i_frame' = OldestRequest
    /\ torn' = (torn \/ linking)
    /\ UNCHANGED <<client, shared, images, captured, ending, nowait_flag>>

(* requests.pop_back() under job_mutex *)
GrabPop ==
    /\ gpc = "pop"
    /\ ~linking
    /\ requests' = Front(requests)
    /\ gpc' = "fill"
    /\ UNCHANGED <<client, wait_grab, linking, i_frame, images, captured, torn, ending,
                   nowait_flag>>

(* convert the captured frame into frame(i_frame) *)
GrabFill ==
    /\ gpc = "fill"
    /\ captured' = captured + 1
    /\ images' = [images EXCEPT ![i_frame] = captured + 1]
    /\ gpc' = "unlock"
    /\ UNCHANGED <<client, shared, i_frame, torn, ending, nowait_flag>>

(* mutation: the mutex is not unlocked *)
StillLocked == wait_grab
Served == [wait_grab EXCEPT ![i_frame] = FALSE]

(* unlock wait_grab[i_frame], and dc1394_capture_enqueue() *)
GrabUnlock ==
    /\ gpc = "unlock"
    /\ wait_grab' = Served
    /\ gpc' = "test"
    /\ UNCHANGED <<client, requests, linking, i_frame, images, captured, torn, ending,
                   nowait_flag>>

Grabber == GrabTest \/ GrabLook \/ GrabPop \/ GrabFill \/ GrabUnlock

Next == Call \/ Client \/ Delete \/ DeleteLater \/ Grabber

Spec == Init /\ [][Next]_vars

(* Both threads run and the camera captures; whether the client calls or   *)
(* deletes anything is its own affair.                                     *)
FairSpec == Spec /\ WF_vars(Client) /\ WF_vars(Grabber)
-----------------------------------------------------------------------------
Serving == gpc \in {"pop", "fill", "unlock"}

ResultOK == result \in [call : Calls \cup {"none"}, buf : Buffers, stamp : Nat]
SharedOK ==
    /\ wait_grab \in [Buffers -> BOOLEAN]
    /\ requests \in Seq(Buffers) /\ linking \in BOOLEAN
GrabberOK ==
    /\ gpc \in {"test", "look", "pop", "fill", "unlock", "ended"}
    /\ i_frame \in Buffers
    /\ images \in [Buffers -> Nat] /\ captured \in Nat /\ torn \in BOOLEAN
EndingOK ==
    /\ stop_flag \in BOOLEAN /\ dpc \in {"alive", "join", "deleted"}
    /\ first \in BOOLEAN /\ nowait_flag \in BOOLEAN

TypeOK == ClientOK /\ ResultOK /\ SharedOK /\ GrabberOK /\ EndingOK

(* wait_grab is a mutex used as a semaphore: the client locks it, the grab *)
(* thread unlocks it.  A locked one is owed exactly one unlock: its buffer *)
(* is about to be pushed, is in requests, or is being served, and is in    *)
(* only one of these, once.                                                *)
Pushing(b)  == Doing("push") /\ Head(todo).buf = b
Queued(b)   == \E i \in DOMAIN requests : requests[i] = b
InGrab(b)   == gpc \in {"fill", "unlock"} /\ i_frame = b
OneUnlockOwed ==
    /\ \A b \in Buffers :
          /\ wait_grab[b] <=> Pushing(b) \/ Queued(b) \/ InGrab(b)
          /\ ~(Pushing(b) /\ Queued(b)) /\ ~(InGrab(b) /\ (Pushing(b) \/ Queued(b)))
    /\ \A i, j \in DOMAIN requests : i # j => requests[i] # requests[j]

(* The unlocked read and the locked pop of the grab thread agree: the      *)
(* request it takes off the list is the one it serves.                     *)
PopsWhatItRead == gpc = "pop" => requests # <<>> /\ Last(requests) = i_frame

(* A frame the client was given does not change until its next call, even  *)
(* though one acquisition is always under way in continuous mode, as long  *)
(* as the client does not mix in current_frame_continuous, which leaves an *)
(* acquisition of buffer 1 behind that the other functions know nothing of *)
HandedOutStable ==
    ~InCall /\ result.call # "none" /\ ~nowait_flag
        => images[result.buf] = result.stamp

(* Each frame of next_frame_continuous was captured after the frame the    *)
(* client had before, whatever function that came from (with the same      *)
(* exception).                                                             *)
Newer ==
    result' # result /\ result'.call = "continuous" /\ ~nowait_flag
        => result'.stamp > result.stamp
EachFrameNewer == [][Newer]_result

(* The unlocked read of a half linked list is the only thing that can keep *)
(* a call from returning, whatever modes the client changes between.  A    *)
(* destructor that joins the thread returns even then.                     *)
EveryCallReturns ==
    /\ InCall ~> ~InCall \/ torn
    /\ dpc = "join" ~> dpc = "deleted"

(* The queue of the specification of frame grabbers: what the grab thread  *)
(* holds and has not yet copied, then the list from its back to its front. *)
Pending == (IF gpc = "fill" THEN <<i_frame>> ELSE <<>>) \o Reverse(requests)
Queue == INSTANCE Acquisition WITH pending <- Pending

(* Requests are completed in the order they were made, each exactly once   *)
(* and with a newer frame: the list, the unlocked read, the locked pop and *)
(* the semaphores implement the queue of module Acquisition.               *)
ImplementsAcquisition == Queue!Spec
=============================================================================
