---------------------------- MODULE VideoManager -----------------------------
(***************************************************************************)
(* VideoManager (src/Devices/VideoManager.{h,cc}): a grabber that acquires *)
(* all the time, in a thread of its own, into the buffers that the client  *)
(* does not hold.  Buffers go from free_buffer through the grabber it is   *)
(* derived from to ready_buffer if the client has locked them meanwhile,   *)
(* and back to free_buffer if not.  The client blocks on frame_message,    *)
(* the thread on free_message.                                             *)
(*                                                                         *)
(* Each call of front(), pop_front(), push_back(), push_front() and size() *)
(* is a step of its own.  No lock keeps the two threads from being inside  *)
(* calls on the same deque at once: wherever both come to such calls, they *)
(* either happen one after the other or overlap (DequeRace), and after an  *)
(* overlap the content of the deque is undefined and the model ends.  What *)
(* is claimed below is claimed of the behaviours up to the first overlap.  *)
(*                                                                         *)
(* The grabber underneath is the queue of module Acquisition, which the    *)
(* threads of XVFlea2G and XVDig1394 implement (module GrabThread).        *)
(***************************************************************************)
EXTENDS VideoClient

CONSTANT MaxShots   \* bound: frames captured

ASSUME ManagerAssumption == MaxShots \in Nat

VARIABLES free_buffer, ready_buffer, lock_count,
          act_grabbed, next_queued,
          read_buffer,                \* local of wait_for_completion()
          apc,                        \* control state of acquisition_task()
          free_flag, frame_flag,      \* the mutexes: are they locked?
          undefined,                  \* front() of an empty deque was read, or
                                      \* two calls on one deque overlapped
          pending, images, captured   \* the grabber underneath

Grabber == INSTANCE Acquisition

deques == <<free_buffer, ready_buffer>>
task   == <<act_grabbed, next_queued, apc>>
flags  == <<free_flag, frame_flag>>
device == <<pending, images, captured>>
vars   == <<client, read_buffer, deques, lock_count, task, flags, undefined, device>>

NoBuffer == -1

Init ==
    /\ ClientInit
    /\ free_buffer = [i \in 1..NBuffers |-> i - 1] /\ ready_buffer = <<>>
    /\ lock_count = [b \in Buffers |-> 0]
    /\ act_grabbed = NoBuffer /\ next_queued = NoBuffer /\ read_buffer = NoBuffer
    /\ apc = "begin"
    /\ free_flag = FALSE /\ frame_flag = FALSE
    /\ undefined = FALSE
    /\ Grabber!Init
-----------------------------------------------------------------------------
(* The client thread *)

buf == Head(todo).buf

Call ==
    /\ BeginCall
    /\ UNCHANGED <<read_buffer, deques, lock_count, task, flags, undefined, device>>

(* initiate_acquire(): release_buffer(); a buffer that is not locked is    *)
(* left as it is, one whose last lock goes is given back                   *)
ReleaseBuffer ==
    /\ Doing("initiate")
    /\ lock_count' = [lock_count EXCEPT ![buf] = IF @ = 0 THEN 0 ELSE @ - 1]
    /\ Becomes(IF lock_count[buf] = 1 THEN "give" ELSE "lock")
    /\ UNCHANGED <<read_buffer, deques, task, flags, undefined, device>>

(* free_buffer.push_back() *)
GiveBuffer ==
    /\ Doing("give")
    /\ free_buffer' = Append(free_buffer, buf)
    /\ Becomes("nudge_released")
    /\ UNCHANGED <<read_buffer, ready_buffer, lock_count, task, flags, undefined, device>>

(* initiate_acquire(): lock_buffer() *)
LockBuffer ==
    /\ Doing("lock")
    /\ lock_count' = [lock_count EXCEPT ![buf] = @ + 1]
    /\ Becomes("nudge_locked")
    /\ UNCHANGED <<read_buffer, deques, task, flags, undefined, device>>

(* while(!pthread_mutex_trylock(&free_flag)) pthread_cond_broadcast(): if  *)
(* the mutex was free, this locks it, broadcasts, fails to lock it again   *)
(* and unlocks it.  If the thread had it, nothing is broadcast, and the    *)
(* unlock that follows undoes the lock of the thread.                      *)
Nudge(op, unlock, Continue) ==
    /\ \/ /\ Doing(op) /\ ~free_flag
          /\ apc' = IF apc = "asleep" THEN "relock" ELSE apc
          /\ Continue
          /\ UNCHANGED free_flag
       \/ /\ Doing(op) /\ free_flag
          /\ Becomes(unlock)
          /\ UNCHANGED <<apc, free_flag>>
       \/ /\ Doing(unlock)
          /\ free_flag' = FALSE
          /\ Continue
          /\ UNCHANGED apc
    /\ UNCHANGED <<read_buffer, deques, lock_count, act_grabbed, next_queued, frame_flag,
                   undefined, device>>

(* once at the end of release_buffer(), once at that of initiate_acquire() *)
NudgeReleased == Nudge("nudge_released", "unlock_released", Becomes("lock"))
NudgeLocked   == Nudge("nudge_locked", "unlock_locked", Done)

(* wait_for_completion(): ready_buffer.size() *)
WaitTest ==
    /\ Doing("wait")
    /\ Becomes(IF ready_buffer = <<>> THEN "lockframe" ELSE "take")
    /\ UNCHANGED <<read_buffer, deques, lock_count, task, flags, undefined, device>>

WaitLock ==
    /\ Doing("lockframe")
    /\ ~frame_flag
    /\ frame_flag' = TRUE
    /\ Becomes("condwait")
    /\ UNCHANGED <<read_buffer, deques, lock_count, task, free_flag, undefined, device>>

(* pthread_cond_wait(), called once *)
WaitSleep ==
    /\ Doing("condwait")
    /\ frame_flag' = FALSE
    /\ Becomes("asleep")
    /\ UNCHANGED <<read_buffer, deques, lock_count, task, free_flag, undefined, device>>

(* read_buffer = ready_buffer.front() *)
WaitFront ==
    /\ Doing("take")
    /\ ready_buffer # <<>>
    /\ read_buffer' = Head(ready_buffer)
    /\ Becomes("pop")
    /\ UNCHANGED <<deques, lock_count, task, flags, undefined, device>>

(* the deque may be empty again, or still: its front() is undefined, and   *)
(* the program goes on with anything                                       *)
WaitFrontOfNothing ==
    /\ Doing("take")
    /\ ready_buffer = <<>>
    /\ undefined' = TRUE
    /\ UNCHANGED <<client, read_buffer, deques, lock_count, task, flags, device>>

(* ready_buffer.pop_front(), and the comparison *)
WaitPop ==
    /\ Doing("pop")
    /\ ready_buffer' = Tail(ready_buffer)
    /\ IF read_buffer = buf THEN Done ELSE Becomes("putback")
    /\ UNCHANGED <<read_buffer, free_buffer, lock_count, task, flags, undefined, device>>

(* another buffer's frame goes to the end *)
WaitPutBack ==
    /\ Doing("putback")
    /\ ready_buffer' = Append(ready_buffer, read_buffer)
    /\ Becomes("wait")
    /\ UNCHANGED <<read_buffer, free_buffer, lock_count, task, flags, undefined, device>>

ReturnFrame ==
    /\ Doing("return")
    /\ Return(images[buf])
    /\ UNCHANGED <<read_buffer, deques, lock_count, task, flags, undefined, device>>

Client == \/ ReleaseBuffer \/ GiveBuffer \/ LockBuffer \/ NudgeReleased \/ NudgeLocked
          \/ WaitTest \/ WaitLock \/ WaitSleep
          \/ WaitFront \/ WaitFrontOfNothing \/ WaitPop \/ WaitPutBack
          \/ ReturnFrame
-----------------------------------------------------------------------------
(* The thread: acquisition_task() *)

At(label) == apc = label
Go(label) == apc' = label

(* free_buffer.front() *)
TakeFront == free_buffer # <<>> /\ next_queued' = Head(free_buffer)

(* mutation: the buffer that is queued next stays in free_buffer *)
NotPopped == free_buffer
(* free_buffer.pop_front() *)
Popped == Tail(free_buffer)

(* the first buffer is popped, then queued in the grabber, which at that   *)
(* time nobody else knows of *)
TaskBegin ==
    /\ At("begin") /\ TakeFront
    /\ Go("first")
    /\ UNCHANGED <<client, read_buffer, deques, lock_count, act_grabbed, flags, undefined,
                   device>>

TaskFirst ==
    /\ At("first")
    /\ free_buffer' = Popped
    /\ Grabber!Schedule(next_queued)
    /\ Go("top")
    /\ UNCHANGED <<client, read_buffer, ready_buffer, lock_count, act_grabbed,
                   next_queued,
                   flags, undefined>>

TaskLock ==
    /\ At("top") /\ ~free_flag
    /\ free_flag' = TRUE
    /\ act_grabbed' = next_queued
    /\ Go("test")
    /\ UNCHANGED <<client, read_buffer, deques, lock_count, next_queued, frame_flag,
                   undefined, device>>

(* while (free_buffer.size()==0) *)
TaskTest ==
    /\ At("test")
    /\ Go(IF free_buffer = <<>> THEN "condwait" ELSE "unlock")
    /\ UNCHANGED <<client, read_buffer, deques, lock_count, act_grabbed, next_queued,
                   flags,
                   undefined, device>>

TaskSleep ==
    /\ At("condwait")
    /\ free_flag' = FALSE
    /\ Go("asleep")
    /\ UNCHANGED <<client, read_buffer, deques, lock_count, act_grabbed, next_queued,
                   frame_flag,
                   undefined, device>>

TaskWake ==
    /\ At("relock") /\ ~free_flag
    /\ free_flag' = TRUE
    /\ Go("test")
    /\ UNCHANGED <<client, read_buffer, deques, lock_count, act_grabbed, next_queued,
                   frame_flag,
                   undefined, device>>

TaskUnlock ==
    /\ At("unlock")
    /\ free_flag' = FALSE
    /\ Go("queue")
    /\ UNCHANGED <<client, read_buffer, deques, lock_count, act_grabbed, next_queued,
                   frame_flag,
                   undefined, device>>

(* the ones that follow are queued in the grabber before they are popped *)
TaskQueue ==
    /\ At("queue") /\ TakeFront
    /\ Grabber!Schedule(Head(free_buffer))
    /\ Go("pop")
    /\ UNCHANGED <<client, read_buffer, deques, lock_count, act_grabbed, flags,
                   undefined>>

TaskPop ==
    /\ At("pop")
    /\ free_buffer' = Popped
    /\ Go("wait")
    /\ UNCHANGED <<client, read_buffer, ready_buffer, lock_count, act_grabbed,
                   next_queued,
                   flags, undefined, device>>

Completed == ~Contains(pending, act_grabbed)

(* the grabber's wait_for_completion(act_grabbed), then the test whether   *)
(* the client has locked the buffer                                        *)
TaskWait ==
    /\ At("wait")
    /\ Completed
    /\ Go(IF lock_count[act_grabbed] = 0 THEN "lockfree" ELSE "ready")
    /\ UNCHANGED <<client, read_buffer, deques, lock_count, act_grabbed, next_queued,
                   flags,
                   undefined, device>>

TaskLockFree ==
    /\ At("lockfree") /\ ~free_flag
    /\ free_flag' = TRUE
    /\ Go("free")
    /\ UNCHANGED <<client, read_buffer, deques, lock_count, act_grabbed, next_queued,
                   frame_flag,
                   undefined, device>>

(* mutation: a buffer nobody wants is not given back *)
NotGivenBack == free_buffer
GivenBack == <<act_grabbed>> \o free_buffer

(* free_buffer.push_front(), unlock free_flag *)
TaskFree ==
    /\ At("free")
    /\ free_buffer' = GivenBack
    /\ free_flag' = FALSE
    /\ Go("top")
    /\ UNCHANGED <<client, read_buffer, ready_buffer, lock_count, act_grabbed,
                   next_queued,
                   frame_flag, undefined, device>>

TaskReady ==
    /\ At("ready")
    /\ ready_buffer' = Append(ready_buffer, act_grabbed)
    /\ Go("nudge")
    /\ UNCHANGED <<client, read_buffer, free_buffer, lock_count, act_grabbed,
                   next_queued, flags,
                   undefined, device>>

(* the same loop on frame_flag, which the client may hold *)
TaskNudge ==
    /\ At("nudge") /\ ~frame_flag
    /\ IF Doing("asleep") THEN Becomes("take") ELSE UNCHANGED client
    /\ Go("top")
    /\ UNCHANGED <<read_buffer, deques, lock_count, act_grabbed, next_queued, flags,
                   undefined, device>>

TaskNudgeFails ==
    /\ At("nudge") /\ frame_flag
    /\ Go("unlockother")
    /\ UNCHANGED <<client, read_buffer, deques, lock_count, act_grabbed, next_queued,
                   flags,
                   undefined, device>>

TaskUnlockOther ==
    /\ At("unlockother")
    /\ frame_flag' = FALSE
    /\ Go("top")
    /\ UNCHANGED <<client, read_buffer, deques, lock_count, act_grabbed, next_queued,
                   free_flag,
                   undefined, device>>

Task == \/ TaskBegin \/ TaskFirst \/ TaskLock \/ TaskTest \/ TaskSleep \/ TaskWake \/ TaskUnlock
        \/ TaskQueue \/ TaskPop \/ TaskWait \/ TaskLockFree \/ TaskFree \/ TaskReady
        \/ TaskNudge \/ TaskNudgeFails \/ TaskUnlockOther

(* the grabber underneath captures a frame *)
Capture ==
    /\ captured < MaxShots
    /\ Grabber!Complete
    /\ UNCHANGED <<client, read_buffer, deques, lock_count, task, flags, undefined>>

(* both waits may return without a broadcast *)
SpuriousWakeup ==
    \/ /\ Doing("asleep") /\ ~frame_flag
       /\ Becomes("take")
       /\ UNCHANGED <<read_buffer, deques, lock_count, task, flags, undefined, device>>
    \/ /\ At("asleep")
       /\ Go("relock")
       /\ UNCHANGED <<client, read_buffer, deques, lock_count, act_grabbed,
                      next_queued, flags,
                      undefined, device>>

(* Both threads come to calls on the same deque, of which one changes it. *)
Racing == \/ Doing("give") /\ apc \in {"begin", "first", "test", "queue", "pop", "free"}
          \/ (\E op \in {"wait", "take", "pop", "putback"} : Doing(op)) /\ At("ready")

(* The calls overlap: the deque may then hold anything. *)
DequeRace ==
    /\ Racing
    /\ undefined' = TRUE
    /\ UNCHANGED <<client, read_buffer, deques, lock_count, task, flags, device>>

Next == ~undefined /\ (Call \/ Client \/ Task \/ Capture \/ SpuriousWakeup \/ DequeRace)

Spec == Init /\ [][Next]_vars
-----------------------------------------------------------------------------
TypeOK ==
    /\ ClientOK
    /\ free_buffer \in Seq(Buffers) /\ ready_buffer \in Seq(Buffers)
    /\ lock_count \in [Buffers -> Nat]
    /\ act_grabbed \in Buffers \cup {NoBuffer} /\ next_queued \in Buffers \cup {NoBuffer}
    /\ read_buffer \in Buffers \cup {NoBuffer}
    /\ apc \in {"begin", "first", "top", "test", "condwait", "asleep", "relock", "unlock",
                "queue", "pop", "wait", "lockfree", "free", "ready", "nudge", "unlockother"}
    /\ free_flag \in BOOLEAN /\ frame_flag \in BOOLEAN /\ undefined \in BOOLEAN
    /\ pending \in Seq(Buffers) /\ images \in [Buffers -> Nat] /\ captured \in Nat

(* the buffers in the thread's hands, those left in free_buffer, and the   *)
(* one that the client has between two calls on the deques                 *)
Delivered == At("top") \/ At("begin") \/ At("first") \/ At("nudge") \/ At("unlockother")
InTask(b) == b = next_queued \/ (b = act_grabbed /\ ~Delivered)
Popping   == At("first") \/ At("pop")
Left      == IF Popping THEN Tail(free_buffer) ELSE free_buffer
Held(b)   == \/ Doing("give") /\ b = buf
             \/ Doing("putback") /\ b = read_buffer

Place(b) == {<<"free", i>> : i \in {j \in DOMAIN Left : Left[j] = b}}
            \cup {<<"ready", i>> : i \in {j \in DOMAIN ready_buffer : ready_buffer[j] = b}}
            \cup (IF InTask(b) THEN {<<"task", 0>>} ELSE {})
            \cup (IF Held(b) THEN {<<"held", 0>>} ELSE {})

(* As long as no two calls on a deque have overlapped, every buffer is     *)
(* free, in the thread, ready, on its way between the deques in the        *)
(* client's hands, or the client's, and in one of these only once: one     *)
(* that is in no place has been locked by the client, once.  What is       *)
(* captured next goes to buffers in the thread, never to the client's.     *)
Conservation ==
    ~undefined =>
       /\ \A b \in Buffers :
             \/ \E p \in Place(b) : Place(b) = {p}
             \/ Place(b) = {} /\ lock_count[b] = 1
       /\ \A i \in DOMAIN pending : InTask(pending[i])

(* As long as no two calls on a deque have overlapped, a frame the client  *)
(* was given is not overwritten before its next call, if it is one it has  *)
(* acquired: request_frame_poll() of a number already reached hands out a  *)
(* buffer that the thread may be filling.                                  *)
HandedOutStable ==
    ~undefined /\ ~InCall /\ result.call # "none" /\ lock_count[result.buf] > 0
        => images[result.buf] = result.stamp

(* "The second waits for its completion" (XVVideo.h:109-110): the client   *)
(* does not wait for a frame that is captured, in the hands of a thread    *)
(* that sleeps until the client frees another buffer.                      *)
Standoff == /\ Doing("asleep")
            /\ At("asleep") /\ act_grabbed = buf /\ free_buffer = <<>>
            /\ Completed
CompletionReturned == ~Standoff
=============================================================================
