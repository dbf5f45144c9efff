-------------------------------- MODULE V4L2 ---------------------------------
(***************************************************************************)
(* XVV4L2 and XVPwc (src/Devices/XVV4L2.{h,cc}, XVPwc.{h,cc}): grabbers on *)
(* the Video4Linux 2 streaming interface.  initiate_acquire queues a       *)
(* buffer in the driver (QBUF), wait_for_completion takes whichever buffer *)
(* is done first (DQBUF) and never looks at its index.  XVPwc, and XVV4L2  *)
(* with YCbCr images, show the driver's memory itself; other images of     *)
(* XVV4L2 are filled from the memory of the buffer that was asked for.     *)
(*                                                                         *)
(* The driver is external: queued buffers are filled in order and given    *)
(* back in order; DQBUF blocks while none is done; a signal or an I/O      *)
(* error can make DQBUF fail; open() may be granted fewer buffers than it  *)
(* asked for.  The return values of both functions are ignored by XVVideo. *)
(***************************************************************************)
EXTENDS VideoClient

CONSTANTS MaxFailures,  \* bound: failing DQBUFs
          MaxOpens      \* bound: calls of open()

ASSUME V4L2Assumption == MaxFailures \in Nat /\ MaxOpens \in Nat

VARIABLES queued, done,   \* the driver's queues of empty and of full buffers
          mm_buf,         \* per buffer: the number of the frame in its memory
          granted,        \* req.count: buffers the driver has allocated
          images,         \* per buffer: the frame copied to its image
          remapped,       \* do the images show the driver's memory?
          captured, failures, opens,
          troubles        \* history: what has gone wrong so far

driver == <<queued, done, mm_buf, granted, captured>>
world  == <<remapped, failures, opens, troubles>>
vars   == <<client, driver, images, world>>

Troubles == {"short", "failed_polling", "failed_ahead", "reopened_ahead"}

buf == Head(todo).buf
Members(s) == {s[i] : i \in DOMAIN s}
InDriver == Members(queued) \cup Members(done)

(* fewer buffers granted than n_buffers, which is not corrected *)
Short(count) == IF count < NBuffers THEN {"short"} ELSE {}

(* the constructor opens the device and starts streaming *)
Init ==
    /\ ClientInit
    /\ queued = <<>> /\ done = <<>> /\ captured = 0
    /\ mm_buf = [b \in Buffers |-> 0]
    /\ images = [b \in Buffers |-> 0]
    /\ granted \in 1..NBuffers
    /\ remapped \in BOOLEAN
    /\ failures = 0 /\ opens = 1
    /\ troubles = Short(granted)
-----------------------------------------------------------------------------
(* history: a DQBUF fails in this call or has failed before *)
FailedIn(call) == IF call = "continuous" THEN {"failed_ahead"} ELSE {"failed_polling"}

Call ==
    /\ BeginCall
    /\ troubles' = troubles \cup
         (IF failures = 0 THEN {} ELSE FailedIn(Head(todo').call))
    /\ UNCHANGED <<driver, images, remapped, failures, opens>>

(* mutation: the buffer is not handed to the driver *)
NotScheduled(b) == queued
Scheduled(b) == Append(queued, b)

(* initiate_acquire(): QBUF fails for a buffer that the driver does not    *)
(* have or has already, and the failure is ignored                         *)
InitiateAcquire ==
    /\ Doing("initiate")
    /\ queued' = IF buf < granted /\ buf \notin InDriver THEN Scheduled(buf) ELSE queued
    /\ Done
    /\ UNCHANGED <<done, mm_buf, granted, captured, images, world>>

(* wait_for_completion(): DQBUF, whose index is not read *)
WaitForCompletion ==
    /\ Doing("wait")
    /\ done # <<>>
    /\ done' = Tail(done)
    /\ IF remapped THEN Done ELSE Becomes("decode")
    /\ UNCHANGED <<queued, mm_buf, granted, captured, images, world>>

(* copy_pixels() from the memory of the buffer that was asked for; where   *)
(* the driver granted none the address is not set and the program is lost  *)
CopyPixels ==
    /\ Doing("decode")
    /\ buf < granted
    /\ images' = [images EXCEPT ![buf] = mm_buf[buf]]
    /\ Done
    /\ UNCHANGED <<driver, world>>

(* wait_for_completion() returns 0 *)
DequeueFails ==
    /\ Doing("wait")
    /\ failures < MaxFailures
    /\ failures' = failures + 1
    /\ troubles' = troubles \cup FailedIn(Head(todo).call)
    /\ Done
    /\ UNCHANGED <<driver, images, remapped, opens>>

Shown(b) == IF remapped THEN mm_buf[b] ELSE images[b]

ReturnFrame ==
    /\ Doing("return")
    /\ remapped => buf < granted
    /\ Return(Shown(buf))
    /\ UNCHANGED <<driver, images, world>>

(* open() of the open device: close() and new buffers; the ring and the    *)
(* mode of XVVideo stay as they are, the frame handed out is gone          *)
Open ==
    /\ ~InCall /\ opens < MaxOpens
    /\ opens' = opens + 1
    /\ queued' = <<>> /\ done' = <<>>
    /\ mm_buf' = [b \in Buffers |-> 0]
    /\ images' = [b \in Buffers |-> 0]
    /\ granted' \in 1..NBuffers
    /\ troubles' = troubles \cup Short(granted') \cup
         (IF capture_mode = "MODE_CAP_CONTINUOUS" THEN {"reopened_ahead"} ELSE {})
    /\ result' = [result EXCEPT !.call = "none"]
    /\ UNCHANGED <<current_buffer, frame_count, capture_mode, todo, calls,
                   captured, remapped, failures>>

Client == InitiateAcquire \/ WaitForCompletion \/ CopyPixels \/ ReturnFrame

(* The driver fills the oldest queued buffer *)
Capture ==
    /\ queued # <<>>
    /\ captured' = captured + 1
    /\ mm_buf' = [mm_buf EXCEPT ![Head(queued)] = captured + 1]
    /\ queued' = Tail(queued)
    /\ done' = Append(done, Head(queued))
    /\ UNCHANGED <<client, granted, images, world>>

Next == Call \/ Client \/ DequeueFails \/ Open \/ Capture

Spec == Init /\ [][Next]_vars

(* The client's calls go on when they can and the camera delivers. *)
FairSpec == Spec /\ WF_vars(Client) /\ WF_vars(Capture)
-----------------------------------------------------------------------------
TypeOK ==
    /\ ClientOK
    /\ result \in [call : Calls \cup {"none"}, buf : Buffers, stamp : Nat]
    /\ queued \in Seq(Buffers) /\ done \in Seq(Buffers)
    /\ mm_buf \in [Buffers -> Nat] /\ images \in [Buffers -> Nat]
    /\ granted \in 1..NBuffers /\ remapped \in BOOLEAN
    /\ captured \in Nat /\ failures \in 0..MaxFailures /\ opens \in Nat
    /\ troubles \subseteq Troubles

(* The driver gives back the buffer that was asked for although its index  *)
(* is not looked at: XVVideo waits for buffers in the order in which it    *)
(* scheduled them, and between calls the driver has exactly the buffer     *)
(* that continuous mode scheduled ahead.                                   *)
GivesWhatIsAsked ==
    troubles = {} =>
       /\ Doing("wait") /\ done # <<>> => Head(done) = buf
       /\ ~InCall => done \o queued = IF capture_mode = "MODE_CAP_CONTINUOUS"
                                      THEN <<current_buffer>> ELSE <<>>

(* Memory that is being read is not the driver's to write: the one being   *)
(* copied, and the one that a remapped image shows to the user between     *)
(* calls.  Until a DQBUF fails this is so, also with buffers missing and   *)
(* after any reopening; after a failure the driver holds one too many.     *)
Reading(b) == \/ Doing("decode") /\ buf = b
              \/ remapped /\ ~InCall /\ result.call # "none" /\ result.buf = b
ReadsItsOwn == failures = 0 => \A b \in InDriver : ~Reading(b)

(* Each frame of next_frame_continuous was captured after the frame before *)
Newer == result' # result /\ result'.call = "continuous" /\ troubles = {}
            => result'.stamp > result.stamp
EachFrameNewer == [][Newer]_result

(* A call returns, however often DQBUF fails in polling mode, and after    *)
(* reopening in it: the driver never has fewer buffers than the client     *)
(* waits for.  Continuous mode after a failure, and reopening in it, end   *)
(* that: a buffer the driver has kept cannot be scheduled again.           *)
EveryCallReturns ==
    InCall ~> ~InCall \/ troubles \cap {"short", "failed_ahead", "reopened_ahead"} # {}
=============================================================================
