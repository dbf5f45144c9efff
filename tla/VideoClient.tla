----------------------------- MODULE VideoClient -----------------------------
(***************************************************************************)
(* The "next frame" functions of XVVideo (src/Devices/XVVideo.h), which    *)
(* every frame grabber inherits: a ring of n_buffers images, of which      *)
(* continuous mode always keeps one acquisition scheduled ahead, and a     *)
(* single (polling) mode that schedules and waits.                         *)
(*                                                                         *)
(* A call of one of these functions is the sequence of virtual calls it    *)
(* makes on the device, kept in `todo'; the device modules that extend     *)
(* this one say what initiate_acquire and wait_for_completion do, and when *)
(* they return.  All of this module's state is private to the client.      *)
(***************************************************************************)
EXTENDS Integers, Sequences, SequencesExt

CONSTANTS NBuffers,  \* n_buffers, set by init_map() or remap()
          MaxCalls   \* bound: calls of the client

ASSUME RingAssumption == NBuffers \in Nat \ {0} /\ MaxCalls \in Nat

VARIABLES current_buffer, frame_count, capture_mode,
          todo,      \* what is left to do of the client's current call
          result,    \* the last frame the client was given
          calls

client == <<current_buffer, frame_count, capture_mode, todo, result, calls>>

Buffers == 0..(NBuffers - 1)
Calls   == {"continuous", "request_poll", "next_poll", "current"}
(* the steps of a call, and what the devices make of them on the way *)
Ops     == {"initiate", "wait", "return"}
           \cup {"push", "take", "decode"}
           \cup {"give", "lock", "nudge_released", "unlock_released", "nudge_locked",
                 "unlock_locked", "lockframe", "condwait", "asleep", "pop", "putback"}
Step    == [op : Ops, buf : Buffers, call : Calls]
Modes   == {"MODE_CAP_SINGLE", "MODE_CAP_CONTINUOUS"}
(* the steps a call consists of when it begins *)
PlanStep == [op : {"initiate", "wait", "return"}, buf : Buffers, call : Calls]

(* mutation: next_buffer() forgets the modulus *)
Unwrapped(b, i) == b + i
(* next_buffer() called i times on buffer b; i = -1 is current_frame() *)
After(b, i) == (b + i) % NBuffers

Do(op, b, call) == [op |-> op, buf |-> b, call |-> call]

ClientInit ==
    /\ current_buffer = 0
    /\ frame_count = 0
    /\ capture_mode = "MODE_CAP_SINGLE"
    /\ todo = <<>>
    /\ result = [call |-> "none", buf |-> 0, stamp |-> 0]
    /\ calls = 0

Begin == todo = <<>> /\ calls < MaxCalls /\ calls' = calls + 1 /\ UNCHANGED result

(* mutation: the buffer to return is read after next_buffer() *)
AheadPlan(b) ==
    << Do("initiate", After(b, 1), "continuous"), Do("wait", b, "continuous"),
       Do("return", After(b, 1), "continuous") >>
(* initiate_acquire(next_buffer()), wait_for_completion(temp), frame(temp) *)
ContinuousPlan(b) ==
    << Do("initiate", After(b, 1), "continuous"), Do("wait", b, "continuous"),
       Do("return", b, "continuous") >>

(* next_frame_continuous(), also the body of request_frame_continuous() *)
NextFrameContinuous ==
    /\ Begin
    /\ todo' = IF capture_mode # "MODE_CAP_CONTINUOUS"
               THEN <<Do("initiate", current_buffer, "continuous")>>
                    \o ContinuousPlan(current_buffer)
               ELSE ContinuousPlan(current_buffer)
    /\ capture_mode' = "MODE_CAP_CONTINUOUS"
    /\ current_buffer' = After(current_buffer, 1)
    /\ frame_count' = frame_count + 1

(* The polling loop, `left' rounds of it, from buffer b on: each round     *)
(* initiates the next buffer and waits for it                              *)
PollPlan(b, left, call) ==
    [j \in 1..(2 * left) |-> IF j % 2 = 1
                             THEN Do("initiate", After(b, (j + 1) \div 2), call)
                             ELSE Do("wait", After(b, j \div 2), call)]

(* mutation: the acquisition scheduled ahead is forgotten *)
NoDrain(call) == <<>>
(* leaving continuous mode: wait for the acquisition scheduled ahead *)
Drain(call) == IF capture_mode # "MODE_CAP_SINGLE"
               THEN <<Do("wait", current_buffer, call)>> ELSE <<>>

(* request_frame_poll(framenum), entered with frame_count = count; the     *)
(* caller returns the buffer `offset' away from the one it gets            *)
Poll(framenum, count, call, offset) ==
    LET reached == IF capture_mode # "MODE_CAP_SINGLE" THEN count + 1 ELSE count
        left    == IF framenum > reached THEN framenum - reached ELSE 0
        last    == After(current_buffer, left)
    IN /\ Begin
       /\ todo' = Drain(call) \o PollPlan(current_buffer, left, call)
                  \o <<Do("return", After(last, offset), call)>>
       /\ capture_mode' = "MODE_CAP_SINGLE"
       /\ current_buffer' = last
       /\ frame_count' = reached + left

RequestFramePoll(framenum) ==
    Poll(framenum, frame_count, "request_poll", 0)

(* next_frame_poll(): request_frame_poll(frame_count++), which gets the    *)
(* count from before the increment, then current_frame().  When the        *)
(* request returns buffer 0 the function ends without a return statement:  *)
(* what it then returns is undefined, and is left out.                     *)
NextFramePoll ==
    Poll(frame_count, frame_count + 1, "next_poll", -1)

(* The call returns the image of its buffer, whose content is `stamp' *)
Return(stamp) ==
    /\ todo # <<>>
    /\ Head(todo).op = "return"
    /\ result' = [call |-> Head(todo).call, buf |-> Head(todo).buf, stamp |-> stamp]
    /\ todo' = Tail(todo)
    /\ UNCHANGED <<current_buffer, frame_count, capture_mode, calls>>

BeginCall == \/ NextFrameContinuous
             \/ NextFramePoll
             \/ \E ahead \in 0..2 : RequestFramePoll(frame_count + ahead)

(* the device has done the head of todo *)
Done == /\ todo' = Tail(todo)
        /\ UNCHANGED <<current_buffer, frame_count, capture_mode, result, calls>>

(* the device goes on with the head of todo in another step *)
Becomes(op) ==
    /\ todo' = <<Do(op, Head(todo).buf, Head(todo).call)>> \o Tail(todo)
    /\ UNCHANGED <<current_buffer, frame_count, capture_mode, result, calls>>

Doing(op) == todo # <<>> /\ Head(todo).op = op
InCall == todo # <<>>

(* The client's variables hold values of their types; only the head of     *)
(* todo can be under way in the device.                                    *)
ClientOK ==
    /\ current_buffer \in Buffers /\ frame_count \in Nat /\ calls \in Nat
    /\ capture_mode \in Modes
    /\ todo \in Seq(Step)
    /\ InCall => Tail(todo) \in Seq(PlanStep)
=============================================================================
