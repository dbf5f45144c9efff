------------------------- MODULE VideoManager_proofs -------------------------
(* No buffer of VideoManager is lost, used twice or overwritten while the  *)
(* client has it (VideoManager.tla), for any number of buffers, calls and  *)
(* frames.                                                                 *)
EXTENDS VideoManager, VideoClient_proofs

(* What the thread has in its hands, from where it is *)
Control ==
    /\ apc = "begin" => next_queued = NoBuffer
    /\ apc # "begin" => next_queued \in Buffers
    /\ apc \in {"test", "condwait", "asleep", "relock", "unlock", "queue"}
          => act_grabbed = next_queued
    /\ apc \in {"pop", "wait", "lockfree", "free", "ready"} => act_grabbed \in Buffers

(* What is to be popped, or put back, is there. *)
Fronts ==
    /\ Popping => free_buffer # <<>>
    /\ Doing("pop") => ready_buffer # <<>> /\ read_buffer = Head(ready_buffer)
    /\ Doing("pop") \/ Doing("putback") => read_buffer \in Buffers
TInv == TypeOK /\ Control /\ Fronts

(* The operations in which the client has a buffer between two calls on    *)
(* the deques, or is about to *)
MidOps == {"give", "pop", "putback"}

(* A plan does not begin with one of them. *)
LEMMA PlannedFresh ==
    ASSUME todo' \in Seq(PlanStep)
    PROVE  \A op \in MidOps : ~Doing(op)'
<1>1. CASE todo' = <<>>
  BY <1>1 DEF Doing
<1>2. CASE todo' # <<>>
  <2>1. Head(todo') \in PlanStep
    BY <1>2
  <2>2. Head(todo').op \in {"initiate", "wait", "return"}
    BY <2>1 DEF PlanStep
  <2>3. QED
    BY <2>2 DEF Doing, MidOps
<1>3. QED
  BY <1>1, <1>2

(* Nor does what is left of one. *)
LEMMA DoneFresh ==
    ASSUME ClientOK, InCall, todo' = Tail(todo)
    PROVE  \A op \in MidOps : ~Doing(op)'
<1>1. todo' \in Seq(PlanStep)
  BY DEF ClientOK
<1>2. QED
  BY <1>1, PlannedFresh

(* An operation becomes another one. *)
LEMMA BecomesDoing ==
    ASSUME ClientOK, InCall, NEW op \in Ops, Becomes(op)
    PROVE  \A x : Doing(x)' <=> x = op
  BY BecomesSame DEF Doing

(* Nothing to be popped or put back by the client *)
LEMMA FreshFronts ==
    ASSUME ~Doing("pop")', ~Doing("putback")', Popping' => free_buffer' # <<>>
    PROVE  Fronts'
  BY DEF Fronts

(* What leaves the client and the deques alone leaves the fronts. *)
LEMMA SameFronts ==
    ASSUME Fronts, UNCHANGED <<client, read_buffer, ready_buffer>>,
           Popping' => free_buffer' # <<>>
    PROVE  Fronts'
  BY DEF Fronts, client, Doing

(* A step of the client's is for one of the buffers. *)
LEMMA HeadOK ==
    ASSUME ClientOK, InCall
    PROVE  buf \in Buffers
<1>1. Head(todo) \in Step
  BY DEF ClientOK, InCall
<1>2. QED
  BY <1>1 DEF Step, buf

(* The client's variables are left alone. *)
LEMMA SameClient == ClientOK /\ UNCHANGED client => ClientOK'
  BY DEF ClientOK, client, InCall

(* The constructor *)
LEMMA InitType == Init => TInv
<1> SUFFICES ASSUME Init
             PROVE  TInv
  OBVIOUS
<1>1. ClientOK
  BY ClientInitType DEF Init
<1>2. free_buffer \in Seq(Buffers)
  <2>1. PICK n \in Nat : n = NBuffers
    BY RingAssumption
  <2>2. \A i \in 1..n : i - 1 \in 0..(n - 1)
    OBVIOUS
  <2>3. [i \in 1..n |-> i - 1] \in Seq(0..(n - 1))
    BY <2>2
  <2>4. QED
    BY <2>1, <2>3 DEF Init, Buffers
<1>3. pending \in Seq(Buffers) /\ images \in [Buffers -> Nat] /\ captured \in Nat
  BY DEF Init, Grabber!Init
<1>4. lock_count \in [Buffers -> Nat]
  BY DEF Init
<1>5. ready_buffer \in Seq(Buffers)
  BY DEF Init
<1>6. /\ act_grabbed \in Buffers \cup {NoBuffer} /\ next_queued \in Buffers \cup {NoBuffer}
      /\ read_buffer \in Buffers \cup {NoBuffer} /\ apc = "begin" /\ next_queued = NoBuffer
      /\ free_flag \in BOOLEAN /\ frame_flag \in BOOLEAN /\ undefined \in BOOLEAN
  BY DEF Init
<1>7. Fronts
  BY DEF Init, ClientInit, Fronts, Popping, At, Doing
<1>8. QED
  BY <1>1, <1>2, <1>3, <1>4, <1>5, <1>6, <1>7 DEF TInv, TypeOK, Control

(* A call begins. *)
LEMMA CallType ==
    ASSUME TInv, Call
    PROVE  TInv'
<1>1. ClientOK' /\ todo' \in Seq(PlanStep)
  BY BeginCallType, BeginCallPlans DEF TInv, TypeOK, Call
<1>2. UNCHANGED <<read_buffer, deques, lock_count, task, flags, undefined, device>>
  BY DEF Call
<1>3. Fronts'
  <2>1. ~Doing("pop")' /\ ~Doing("putback")'
    BY <1>1, PlannedFresh DEF MidOps
  <2>2. Popping' => free_buffer' # <<>>
    BY <1>2 DEF TInv, Fronts, Popping, At, task, deques
  <2>3. QED
    BY <2>1, <2>2, FreshFronts
<1>4. QED
  BY <1>1, <1>2, <1>3 DEF TInv, TypeOK, Control, deques, task, flags, device

(* release_buffer() *)
LEMMA ReleaseBufferType ==
    ASSUME TInv, ReleaseBuffer
    PROVE  TInv'
<1>1. ClientOK /\ InCall
  BY DEF TInv, TypeOK, ReleaseBuffer, Doing, InCall
<1>2. PICK b \in Buffers : b = buf
  BY <1>1, HeadOK
<1>3. PICK op \in {"lock", "give"} : Becomes(op)
  BY DEF ReleaseBuffer
<1>4. op \in Ops
  BY DEF Ops
<1>5. ClientOK'
  BY <1>1, <1>3, <1>4, BecomesType
<1>6. UNCHANGED <<read_buffer, deques, task, flags, undefined, device>>
  BY DEF ReleaseBuffer
<1>7. lock_count' \in [Buffers -> Nat]
  <2>1. PICK n \in Nat : n = lock_count[b]
    BY DEF TInv, TypeOK
  <2>2. PICK m \in Nat : m = IF n = 0 THEN 0 ELSE n - 1
    OBVIOUS
  <2>3. lock_count' = [lock_count EXCEPT ![b] = m]
    BY <1>2, <2>1, <2>2 DEF ReleaseBuffer
  <2>4. QED
    BY <2>3 DEF TInv, TypeOK
<1>8. Fronts'
  <2>1. ~Doing("pop")' /\ ~Doing("putback")'
    BY <1>1, <1>3, <1>4, BecomesDoing
  <2>2. Popping' => free_buffer' # <<>>
    BY <1>6 DEF TInv, Fronts, Popping, At, task, deques
  <2>3. QED
    BY <2>1, <2>2, FreshFronts
<1>9. QED
  BY <1>5, <1>6, <1>7, <1>8 DEF TInv, TypeOK, Control, deques, task, flags, device

(* free_buffer.push_back() *)
LEMMA GiveBufferType ==
    ASSUME TInv, GiveBuffer
    PROVE  TInv'
<1>1. ClientOK /\ InCall /\ Becomes("nudge_released")
  BY DEF TInv, TypeOK, GiveBuffer, Doing, InCall
<1>2. PICK b \in Buffers : b = buf
  BY <1>1, HeadOK
<1>3. "nudge_released" \in Ops
  BY DEF Ops
<1>4. ClientOK'
  BY <1>1, <1>3, BecomesType
<1>5. UNCHANGED <<read_buffer, ready_buffer, lock_count, task, flags, undefined, device>>
  BY DEF GiveBuffer
<1>6. free_buffer' \in Seq(Buffers) /\ free_buffer' # <<>>
  <2>1. free_buffer \in Seq(Buffers) /\ free_buffer' = Append(free_buffer, b)
    BY <1>2 DEF TInv, TypeOK, GiveBuffer
  <2>2. QED
    BY <2>1
<1>7. Fronts'
  <2>1. ~Doing("pop")' /\ ~Doing("putback")'
    BY <1>1, <1>3, BecomesDoing
  <2>2. QED
    BY <1>6, <2>1, FreshFronts
<1>8. QED
  BY <1>4, <1>5, <1>6, <1>7 DEF TInv, TypeOK, Control, task, flags, device

(* lock_buffer() *)
LEMMA LockBufferType ==
    ASSUME TInv, LockBuffer
    PROVE  TInv'
<1>1. ClientOK /\ InCall /\ Becomes("nudge_locked")
  BY DEF TInv, TypeOK, LockBuffer, Doing, InCall
<1>2. "nudge_locked" \in Ops
  BY DEF Ops
<1>3. ClientOK'
  BY <1>1, <1>2, BecomesType
<1>4. PICK b \in Buffers : b = buf
  BY <1>1, HeadOK
<1>5. lock_count' = [lock_count EXCEPT ![b] = lock_count[b] + 1]
  BY <1>4 DEF LockBuffer
<1>6. lock_count' \in [Buffers -> Nat]
  BY <1>5 DEF TInv, TypeOK
<1>7. UNCHANGED <<read_buffer, deques, task, flags, undefined, device>>
  BY DEF LockBuffer
<1>8. Fronts'
  <2>1. ~Doing("pop")' /\ ~Doing("putback")'
    BY <1>1, <1>2, BecomesDoing
  <2>2. Popping' => free_buffer' # <<>>
    BY <1>7 DEF TInv, Fronts, Popping, At, task, deques
  <2>3. QED
    BY <2>1, <2>2, FreshFronts
<1>9. QED
  BY <1>3, <1>6, <1>7, <1>8 DEF TInv, TypeOK, Control, deques, task, flags, device

(* The two broadcasts of initiate_acquire() *)
NudgeStep == NudgeReleased \/ NudgeLocked

(* They are steps of the call's. *)
LEMMA NudgeClient ==
    ASSUME ClientOK, NudgeStep
    PROVE  /\ InCall /\ ClientOK'
           /\ \A op \in MidOps : ~Doing(op) /\ ~Doing(op)'
           /\ UNCHANGED <<read_buffer, deques, lock_count, act_grabbed, next_queued,
                          frame_flag, undefined, device>>
           /\ apc' = apc \/ (apc = "asleep" /\ apc' = "relock")
           /\ free_flag' = free_flag \/ free_flag' = FALSE
<1>1. InCall
  BY DEF NudgeStep, NudgeReleased, NudgeLocked, Nudge, Doing, InCall
<1>2. Done \/ \E op \in {"lock", "unlock_released", "unlock_locked"} : Becomes(op)
  BY DEF NudgeStep, NudgeReleased, NudgeLocked, Nudge
<1>3. {"lock", "unlock_released", "unlock_locked"} \subseteq Ops
  BY DEF Ops
<1>4. ClientOK'
  BY <1>1, <1>2, <1>3, DoneType, BecomesType
<1>5. \A op \in MidOps : ~Doing(op)
  BY DEF NudgeStep, NudgeReleased, NudgeLocked, Nudge, Doing, MidOps
<1>6. \A op \in MidOps : ~Doing(op)'
  <2>1. CASE Done
    BY <1>1, <2>1, DoneFresh DEF Done
  <2>2. ASSUME NEW op \in {"lock", "unlock_released", "unlock_locked"}, Becomes(op)
        PROVE  \A x \in MidOps : ~Doing(x)'
    BY <1>1, <1>3, <2>2, BecomesDoing DEF MidOps
  <2>3. QED
    BY <1>2, <2>1, <2>2
<1>7. QED
  BY <1>1, <1>4, <1>5, <1>6 DEF NudgeStep, NudgeReleased, NudgeLocked, Nudge

(* They may wake the thread. *)
LEMMA NudgeType ==
    ASSUME TInv, NudgeStep
    PROVE  TInv'
<1>1. ClientOK
  BY DEF TInv, TypeOK
<1>2. /\ ClientOK'
      /\ UNCHANGED <<read_buffer, deques, lock_count, act_grabbed, next_queued,
                     frame_flag, undefined, device>>
      /\ apc' = apc \/ (apc = "asleep" /\ apc' = "relock")
      /\ free_flag' = free_flag \/ free_flag' = FALSE
  BY <1>1, NudgeClient
<1>3. Fronts'
  <2>1. ~Doing("pop")' /\ ~Doing("putback")'
    BY <1>1, NudgeClient DEF MidOps
  <2>2. Popping' => free_buffer' # <<>>
    BY <1>2 DEF TInv, Fronts, Popping, At, deques
  <2>3. QED
    BY <2>1, <2>2, FreshFronts
<1>4. TypeOK'
  BY <1>2 DEF TInv, TypeOK, deques, device
<1>5. Control'
  BY <1>2 DEF TInv, Control
<1>6. QED
  BY <1>3, <1>4, <1>5 DEF TInv

(* The steps of wait_for_completion() before a buffer is popped *)
WaitingStep == WaitTest \/ WaitLock \/ WaitSleep \/ WaitFrontOfNothing

(* They are steps of the call's, *)
LEMMA WaitingClient ==
    ASSUME ClientOK, WaitingStep
    PROVE  /\ InCall /\ ClientOK'
           /\ Head(todo).op \in WaitOps
           /\ UNCHANGED client \/ \E op \in WaitOps : Becomes(op)
           /\ \A op \in MidOps : ~Doing(op) /\ ~Doing(op)'
           /\ UNCHANGED <<read_buffer, deques, lock_count, task, free_flag, device>>
<1>1. InCall /\ Head(todo).op \in {"wait", "lockframe", "condwait", "take"}
  BY DEF WaitingStep, WaitTest, WaitLock, WaitSleep, WaitFrontOfNothing, Doing, InCall
<1>2. \/ \E op \in {"lockframe", "take", "condwait", "asleep"} : Becomes(op)
      \/ UNCHANGED client
  BY DEF WaitingStep, WaitTest, WaitLock, WaitSleep, WaitFrontOfNothing
<1>3. {"lockframe", "take", "condwait", "asleep"} \subseteq Ops
  BY DEF Ops
<1>4. ClientOK'
  BY <1>1, <1>2, <1>3, BecomesType, SameClient
<1>5. \A op \in MidOps : ~Doing(op)
  BY <1>1 DEF Doing, MidOps
<1>6. \A op \in MidOps : ~Doing(op)'
  <2>1. ASSUME NEW op \in {"lockframe", "take", "condwait", "asleep"}, Becomes(op)
        PROVE  \A x \in MidOps : ~Doing(x)'
    BY <1>1, <1>3, <2>1, BecomesDoing DEF MidOps
  <2>2. CASE UNCHANGED client
    BY <1>5, <2>2 DEF client, Doing
  <2>3. QED
    BY <1>2, <2>1, <2>2
<1>7. UNCHANGED <<read_buffer, deques, lock_count, task, free_flag, device>>
  BY DEF WaitingStep, WaitTest, WaitLock, WaitSleep, WaitFrontOfNothing, flags
<1>8. QED
  BY <1>1, <1>2, <1>4, <1>5, <1>6, <1>7 DEF WaitOps

(* and change nothing but frame_flag. *)
LEMMA WaitingType ==
    ASSUME TInv, WaitingStep
    PROVE  TInv'
<1>1. /\ ClientOK' /\ \A op \in MidOps : ~Doing(op)'
      /\ UNCHANGED <<read_buffer, deques, lock_count, task, free_flag, device>>
  BY WaitingClient DEF TInv, TypeOK
<1>2. frame_flag' \in BOOLEAN /\ undefined' \in BOOLEAN
  BY DEF TInv, TypeOK, WaitingStep, WaitTest, WaitLock, WaitSleep, WaitFrontOfNothing, flags
<1>3. Fronts'
  <2>1. ~Doing("pop")' /\ ~Doing("putback")'
    BY <1>1 DEF MidOps
  <2>2. Popping' => free_buffer' # <<>>
    BY <1>1 DEF TInv, Fronts, Popping, At, deques, task
  <2>3. QED
    BY <2>1, <2>2, FreshFronts
<1>4. QED
  BY <1>1, <1>2, <1>3 DEF TInv, TypeOK, Control, deques, task, device

(* The front is read. *)
LEMMA WaitFrontType ==
    ASSUME TInv, WaitFront
    PROVE  TInv'
<1>1. ClientOK /\ InCall /\ Becomes("pop")
  BY DEF TInv, TypeOK, WaitFront, Doing, InCall
<1>2. "pop" \in Ops
  BY DEF Ops
<1>3. ClientOK'
  BY <1>1, <1>2, BecomesType
<1>4. UNCHANGED <<deques, lock_count, task, flags, undefined, device>>
  BY DEF WaitFront
<1>5. read_buffer' = Head(ready_buffer) /\ ready_buffer # <<>> /\ read_buffer' \in Buffers
  <2>1. ready_buffer \in Seq(Buffers) /\ ready_buffer # <<>>
    BY DEF TInv, TypeOK, WaitFront
  <2>2. Head(ready_buffer) \in Buffers
    BY <2>1
  <2>3. QED
    BY <2>1, <2>2 DEF WaitFront
<1>6. Fronts'
  <2>1. Popping' => free_buffer' # <<>>
    BY <1>4 DEF TInv, Fronts, Popping, At, deques, task
  <2>2. QED
    BY <1>4, <1>5, <2>1 DEF Fronts, deques
<1>7. QED
  BY <1>3, <1>4, <1>5, <1>6 DEF TInv, TypeOK, Control, deques, task, flags, device

(* A buffer is taken, *)
LEMMA WaitPopType ==
    ASSUME TInv, WaitPop
    PROVE  TInv'
<1>1. ClientOK /\ InCall /\ Doing("pop") /\ (Done \/ Becomes("putback"))
  BY DEF TInv, TypeOK, WaitPop, Doing, InCall
<1>2. "putback" \in Ops
  BY DEF Ops
<1>3. ClientOK'
  BY <1>1, <1>2, DoneType, BecomesType
<1>4. UNCHANGED <<read_buffer, free_buffer, lock_count, task, flags, undefined, device>>
  BY DEF WaitPop
<1>5. read_buffer \in Buffers
  BY <1>1 DEF TInv, Fronts
<1>6. ready_buffer' \in Seq(Buffers)
  <2>1. ready_buffer \in Seq(Buffers) /\ ready_buffer # <<>>
    BY <1>1 DEF TInv, TypeOK, Fronts
  <2>2. QED
    BY <2>1 DEF WaitPop
<1>7. Fronts'
  <2>1. ~Doing("pop")'
    <3>1. CASE Done
      BY <1>1, <3>1, DoneFresh DEF Done, MidOps
    <3>2. CASE Becomes("putback")
      BY <1>1, <1>2, <3>2, BecomesDoing
    <3>3. QED
      BY <1>1, <3>1, <3>2
  <2>2. Popping' => free_buffer' # <<>>
    BY <1>4 DEF TInv, Fronts, Popping, At, task
  <2>3. QED
    BY <1>4, <1>5, <2>1, <2>2 DEF Fronts
<1>8. QED
  BY <1>3, <1>4, <1>6, <1>7 DEF TInv, TypeOK, Control, task, flags, device

(* or goes to the end. *)
LEMMA WaitPutBackType ==
    ASSUME TInv, WaitPutBack
    PROVE  TInv'
<1>1. ClientOK /\ InCall /\ Doing("putback") /\ Becomes("wait")
  BY DEF TInv, TypeOK, WaitPutBack, Doing, InCall
<1>2. "wait" \in Ops
  BY DEF Ops
<1>3. ClientOK'
  BY <1>1, <1>2, BecomesType
<1>4. UNCHANGED <<read_buffer, free_buffer, lock_count, task, flags, undefined, device>>
  BY DEF WaitPutBack
<1>5. ready_buffer' \in Seq(Buffers)
  <2>1. ready_buffer \in Seq(Buffers) /\ read_buffer \in Buffers
    BY <1>1 DEF TInv, TypeOK, Fronts
  <2>2. QED
    BY <2>1 DEF WaitPutBack
<1>6. Fronts'
  <2>1. ~Doing("pop")' /\ ~Doing("putback")'
    BY <1>1, <1>2, BecomesDoing
  <2>2. Popping' => free_buffer' # <<>>
    BY <1>4 DEF TInv, Fronts, Popping, At, task
  <2>3. QED
    BY <2>1, <2>2, FreshFronts
<1>7. QED
  BY <1>3, <1>4, <1>5, <1>6 DEF TInv, TypeOK, Control, task, flags, device

(* The frame is handed out. *)
LEMMA ReturnFrameType ==
    ASSUME TInv, ReturnFrame
    PROVE  TInv'
<1>1. PICK stamp : Return(stamp)
  BY DEF ReturnFrame
<1>2. ClientOK' /\ ClientOK /\ InCall /\ todo' = Tail(todo)
  BY <1>1, ReturnType DEF TInv, TypeOK, Return, InCall
<1>3. UNCHANGED <<read_buffer, deques, lock_count, task, flags, undefined, device>>
  BY DEF ReturnFrame
<1>4. Fronts'
  <2>1. ~Doing("pop")' /\ ~Doing("putback")'
    BY <1>2, DoneFresh DEF MidOps
  <2>2. Popping' => free_buffer' # <<>>
    BY <1>3 DEF TInv, Fronts, Popping, At, deques, task
  <2>3. QED
    BY <2>1, <2>2, FreshFronts
<1>5. QED
  BY <1>2, <1>3, <1>4 DEF TInv, TypeOK, Control, deques, task, flags, device
-----------------------------------------------------------------------------
(* The thread reads the first free buffer. *)
LEMMA TakeFrontType ==
    ASSUME TInv, TakeFront
    PROVE  /\ free_buffer \in Seq(Buffers) /\ free_buffer # <<>>
           /\ next_queued' \in Buffers /\ next_queued' = Head(free_buffer)
<1>1. free_buffer \in Seq(Buffers) /\ free_buffer # <<>>
  BY DEF TInv, TypeOK, TakeFront
<1>2. QED
  BY <1>1 DEF TakeFront

(* A buffer is queued in the grabber underneath. *)
LEMMA ScheduleType ==
    ASSUME TInv, NEW b \in Buffers, Grabber!Schedule(b)
    PROVE  /\ pending \in Seq(Buffers) /\ pending' \in Seq(Buffers)
           /\ pending' = Append(pending, b) /\ UNCHANGED <<images, captured>>
<1>1. pending' = Append(pending, b) /\ UNCHANGED <<images, captured>>
  BY DEF Grabber!Schedule
<1>2. pending \in Seq(Buffers)
  BY DEF TInv, TypeOK
<1>3. QED
  BY <1>1, <1>2

(* The steps that read it keep the types, *)
LEMMA FrontType ==
    ASSUME TInv, TaskBegin \/ TaskQueue
    PROVE  TInv'
<1>1. /\ TakeFront /\ UNCHANGED <<client, read_buffer, deques, lock_count, act_grabbed,
                                   flags, undefined>>
  BY DEF TaskBegin, TaskQueue
<1>2. free_buffer # <<>> /\ next_queued' \in Buffers /\ next_queued' = Head(free_buffer)
  BY <1>1, TakeFrontType
<1>3. PICK b \in Buffers : b = Head(free_buffer)
  BY <1>2
<1>4. ClientOK'
  BY <1>1, SameClient DEF TInv, TypeOK
<1>5. pending' \in Seq(Buffers) /\ UNCHANGED <<images, captured>>
  <2>1. CASE TaskBegin
    BY <2>1 DEF TaskBegin, device, TInv, TypeOK
  <2>2. CASE TaskQueue
    <3>1. Grabber!Schedule(b)
      BY <1>3, <2>2 DEF TaskQueue
    <3>2. QED
      BY <3>1, ScheduleType
  <2>3. QED
    BY <2>1, <2>2
<1>6. Fronts'
  BY <1>1, <1>2, SameFronts DEF TInv, deques
<1>7. \/ apc = "begin" /\ apc' = "first"
      \/ apc = "queue" /\ apc' = "pop" /\ act_grabbed \in Buffers
  BY DEF TaskBegin, TaskQueue, At, Go, TInv, Control
<1>8. QED
  BY <1>1, <1>2, <1>4, <1>5, <1>6, <1>7 DEF TInv, TypeOK, Control, flags, deques

(* and so do those that pop it. *)
LEMMA PopType ==
    ASSUME TInv, TaskFirst \/ TaskPop
    PROVE  /\ TInv'
           /\ free_buffer \in Seq(Buffers) /\ free_buffer # <<>>
           /\ free_buffer' = Tail(free_buffer)
<1>1. /\ Popping /\ free_buffer' = Tail(free_buffer)
      /\ UNCHANGED <<client, read_buffer, ready_buffer, lock_count, act_grabbed,
                     next_queued, flags, undefined>>
  BY DEF TaskFirst, TaskPop, Popped, Popping, device
<1>2. free_buffer \in Seq(Buffers) /\ free_buffer # <<>>
  BY <1>1 DEF TInv, TypeOK, Fronts
<1>3. free_buffer' \in Seq(Buffers)
  BY <1>1, <1>2
<1>4. ClientOK'
  BY <1>1, SameClient DEF TInv, TypeOK
<1>5. \/ apc = "first" /\ apc' = "top"
      \/ apc = "pop" /\ apc' = "wait" /\ act_grabbed \in Buffers
  BY DEF TaskFirst, TaskPop, At, Go, TInv, Control
<1>6. Fronts'
  BY <1>1, <1>5, SameFronts DEF TInv, Popping, At
<1>7. PICK b \in Buffers : b = next_queued
  BY <1>5 DEF TInv, Control
<1>8. pending' \in Seq(Buffers) /\ UNCHANGED <<images, captured>>
  <2>1. CASE TaskPop
    BY <2>1 DEF TaskPop, device, TInv, TypeOK
  <2>2. CASE TaskFirst
    <3>1. Grabber!Schedule(b)
      BY <1>7, <2>2 DEF TaskFirst
    <3>2. QED
      BY <3>1, ScheduleType
  <2>3. QED
    BY <2>1, <2>2
<1>9. QED
  BY <1>1, <1>2, <1>3, <1>4, <1>5, <1>6, <1>7, <1>8 DEF TInv, TypeOK, Control, flags

(* Steps of the thread that only move on *)
MovingStep == \/ TaskLock \/ TaskTest \/ TaskSleep \/ TaskWake \/ TaskUnlock
              \/ TaskWait \/ TaskLockFree \/ TaskNudge \/ TaskNudgeFails \/ TaskUnlockOther
              \/ SpuriousWakeup

(* They may wake the client. *)
LEMMA MovingClient ==
    ASSUME ClientOK, MovingStep
    PROVE  /\ ClientOK' /\ (UNCHANGED client \/ (Doing("asleep") /\ Becomes("take")))
           /\ \A op \in MidOps : Doing(op)' <=> Doing(op)
<1>1. UNCHANGED client \/ (Doing("asleep") /\ Becomes("take"))
  BY DEF MovingStep, TaskLock, TaskTest, TaskSleep, TaskWake, TaskUnlock, TaskWait,
     TaskLockFree, TaskNudge, TaskNudgeFails, TaskUnlockOther, SpuriousWakeup
<1>2. "take" \in Ops
  BY DEF Ops
<1>3. ClientOK'
  BY <1>1, <1>2, SameClient, BecomesType DEF Doing, InCall
<1>4. CASE UNCHANGED client
  BY <1>1, <1>3, <1>4 DEF client, Doing
<1>5. ASSUME Doing("asleep"), Becomes("take") PROVE \A op \in MidOps : Doing(op)' <=> Doing(op)
  <2>1. InCall /\ \A op \in MidOps : ~Doing(op)
    BY <1>5 DEF Doing, MidOps, InCall
  <2>2. \A op \in MidOps : ~Doing(op)'
    BY <1>2, <1>5, <2>1, BecomesDoing DEF MidOps
  <2>3. QED
    BY <2>1, <2>2
<1>6. QED
  BY <1>1, <1>3, <1>4, <1>5

(* They move no buffer. *)
LEMMA MovingKeeps ==
    ASSUME MovingStep
    PROVE  /\ UNCHANGED <<read_buffer, deques, lock_count, next_queued, undefined, device>>
           /\ (Popping' <=> Popping)
<1>1. UNCHANGED <<read_buffer, deques, lock_count, next_queued, undefined, device>>
  BY DEF MovingStep, TaskLock, TaskTest, TaskSleep, TaskWake, TaskUnlock, TaskWait,
     TaskLockFree, TaskNudge, TaskNudgeFails, TaskUnlockOther, SpuriousWakeup, task
<1>2. Popping' <=> Popping
  BY DEF MovingStep, TaskLock, TaskTest, TaskSleep, TaskWake, TaskUnlock, TaskWait,
     TaskLockFree, TaskNudge, TaskNudgeFails, TaskUnlockOther, SpuriousWakeup, task, At, Go,
     Popping
<1>3. QED
  BY <1>1, <1>2

(* Where the thread goes *)
LEMMA MovingControl ==
    ASSUME TInv, MovingStep
    PROVE  /\ Control'
           /\ act_grabbed' \in Buffers \cup {NoBuffer}
           /\ apc' \in {"begin", "first", "top", "test", "condwait", "asleep", "relock",
                        "unlock", "queue", "pop", "wait", "lockfree", "free", "ready",
                        "nudge", "unlockother"}
           /\ free_flag' \in BOOLEAN /\ frame_flag' \in BOOLEAN
<1>1. CASE TaskLock
  BY <1>1 DEF TaskLock, At, Go, TInv, TypeOK, Control
<1>2. CASE TaskTest
  BY <1>2 DEF TaskTest, At, Go, TInv, TypeOK, Control, flags
<1>3. CASE TaskSleep \/ TaskWake \/ TaskUnlock
  BY <1>3 DEF TaskSleep, TaskWake, TaskUnlock, At, Go, TInv, TypeOK, Control
<1>4. CASE TaskWait
  BY <1>4 DEF TaskWait, At, Go, TInv, TypeOK, Control, flags
<1>5. CASE TaskLockFree
  BY <1>5 DEF TaskLockFree, At, Go, TInv, TypeOK, Control
<1>6. CASE TaskNudge \/ TaskNudgeFails \/ TaskUnlockOther
  BY <1>6 DEF TaskNudge, TaskNudgeFails, TaskUnlockOther, At, Go, TInv, TypeOK, Control, flags
<1>7. CASE SpuriousWakeup
  BY <1>7 DEF SpuriousWakeup, At, Go, TInv, TypeOK, Control, flags, task
<1>8. QED
  BY <1>1, <1>2, <1>3, <1>4, <1>5, <1>6, <1>7 DEF MovingStep

(* So they keep the types. *)
LEMMA MovingType ==
    ASSUME TInv, MovingStep
    PROVE  TInv'
<1>1. ClientOK' /\ \A op \in MidOps : Doing(op)' <=> Doing(op)
  BY MovingClient DEF TInv, TypeOK
<1>2. /\ UNCHANGED <<read_buffer, deques, lock_count, next_queued, undefined, device>>
      /\ (Popping' <=> Popping)
  BY MovingKeeps
<1>3. Fronts'
  BY <1>1, <1>2 DEF TInv, Fronts, MidOps, deques
<1>4. QED
  BY <1>1, <1>2, <1>3, MovingControl DEF TInv, TypeOK, deques, device

(* An unwanted buffer is given back. *)
LEMMA TaskFreeType ==
    ASSUME TInv, TaskFree
    PROVE  TInv'
<1>1. ClientOK'
  BY SameClient DEF TInv, TypeOK, TaskFree
<1>2. free_buffer' \in Seq(Buffers)
  <2>1. PICK b \in Buffers : b = act_grabbed
    BY DEF TInv, Control, TaskFree, At
  <2>2. <<b>> \in Seq(Buffers) /\ free_buffer \in Seq(Buffers)
    BY DEF TInv, TypeOK
  <2>3. free_buffer' = <<b>> \o free_buffer
    BY <2>1 DEF TaskFree, GivenBack
  <2>4. QED
    BY <2>2, <2>3
<1>3. Fronts'
  BY SameFronts DEF TInv, TaskFree, Popping, At, Go
<1>4. QED
  BY <1>1, <1>2, <1>3 DEF TInv, TypeOK, Control, TaskFree, At, Go, device

(* A wanted one is made ready. *)
LEMMA TaskReadyType ==
    ASSUME TInv, TaskReady
    PROVE  TInv'
<1>1. ClientOK'
  BY SameClient DEF TInv, TypeOK, TaskReady
<1>2. PICK b \in Buffers : b = act_grabbed
  BY DEF TInv, Control, TaskReady, At
<1>3. PICK q \in Seq(Buffers) : q = ready_buffer
  BY DEF TInv, TypeOK
<1>4. ready_buffer' = Append(q, b)
  BY <1>2, <1>3 DEF TaskReady
<1>5. ready_buffer' \in Seq(Buffers) /\ ready_buffer' # <<>>
      /\ (q # <<>> => Head(ready_buffer') = Head(q))
  BY <1>4
<1>6. Fronts'
  BY <1>3, <1>5 DEF TInv, Fronts, TaskReady, Popping, At, Go, client, Doing
<1>7. QED
  BY <1>1, <1>5, <1>6 DEF TInv, TypeOK, Control, TaskReady, At, Go, flags, device

(* A frame is captured. *)
LEMMA CaptureType ==
    ASSUME TInv, Capture
    PROVE  TInv'
<1>1. ClientOK'
  BY SameClient DEF TInv, TypeOK, Capture
<1>2. pending \in Seq(Buffers) /\ pending # <<>> /\ captured \in Nat
  BY DEF TInv, TypeOK, Capture, Grabber!Complete
<1>3. PICK b \in Buffers : b = Head(pending)
  BY <1>2
<1>4. /\ captured' = captured + 1 /\ images' = [images EXCEPT ![b] = captured + 1]
      /\ pending' = Tail(pending)
  BY <1>3 DEF Capture, Grabber!Complete
<1>5. captured' \in Nat /\ pending' \in Seq(Buffers) /\ images' \in [Buffers -> Nat]
  BY <1>2, <1>4 DEF TInv, TypeOK
<1>6. Fronts'
  BY SameFronts DEF TInv, Fronts, Capture, Popping, At, deques, task
<1>7. UNCHANGED <<read_buffer, deques, lock_count, task, flags, undefined>>
  BY DEF Capture
<1>8. TypeOK'
  BY <1>1, <1>5, <1>7 DEF TInv, TypeOK, deques, task, flags
<1>9. Control'
  BY <1>7 DEF TInv, Control, task
<1>10. QED
  BY <1>6, <1>8, <1>9 DEF TInv

(* A stuttering step, or the overlap of two calls, after which nothing is  *)
(* claimed *)
Standing == UNCHANGED vars \/ DequeRace

(* It keeps the types. *)
LEMMA StandingType ==
    ASSUME TInv, Standing
    PROVE  TInv'
<1>1. /\ UNCHANGED <<client, read_buffer, deques, lock_count, task, flags, device>>
      /\ undefined' \in BOOLEAN
  BY DEF TInv, TypeOK, Standing, DequeRace, vars
<1>2. ClientOK'
  BY <1>1, SameClient DEF TInv, TypeOK
<1>3. Fronts'
  BY <1>1, SameFronts DEF TInv, Fronts, Popping, At, deques, task
<1>4. QED
  BY <1>1, <1>2, <1>3 DEF TInv, TypeOK, Control, deques, task, flags, device

(* Every step keeps the types. *)
LEMMA NextType == TInv /\ [Next]_vars => TInv'
<1> SUFFICES ASSUME TInv, [Next]_vars
             PROVE  TInv'
  OBVIOUS
<1>1. CASE Call \/ Client
  BY <1>1, CallType, ReleaseBufferType, GiveBufferType, LockBufferType, NudgeType,
     WaitingType, WaitFrontType, WaitPopType, WaitPutBackType, ReturnFrameType
     DEF Client, NudgeStep, WaitingStep
<1>2. CASE Task \/ SpuriousWakeup
  BY <1>2, FrontType, PopType, MovingType, TaskFreeType, TaskReadyType DEF Task, MovingStep
<1>3. CASE Capture \/ DequeRace \/ UNCHANGED vars
  BY <1>3, CaptureType, StandingType DEF Standing
<1>4. QED
  BY <1>1, <1>2, <1>3 DEF Next

(* The variables keep their types: among them the deques of buffers, and   *)
(* the counts of locks, which never go below zero.                         *)
THEOREM TypeCorrect == Spec => []TypeOK
<1>1. TInv => TypeOK
  BY DEF TInv
<1>2. QED
  BY <1>1, InitType, NextType, PTL DEF Spec
-----------------------------------------------------------------------------
(* Where the buffers are *)
InHands  == {b \in Buffers : InTask(b)}
InClient == {b \in Buffers : Held(b)}
Stored   == ToSet(Left) \cup ToSet(ready_buffer) \cup InHands \cup InClient

(* The deques hold different buffers, which neither the thread has nor the *)
(* client between two of its calls. *)
Spread == /\ IsInjective(Left) /\ IsInjective(ready_buffer)
          /\ ToSet(Left) \cap ToSet(ready_buffer) = {}
          /\ (ToSet(Left) \cup ToSet(ready_buffer)) \cap InHands = {}
          /\ (ToSet(Left) \cup ToSet(ready_buffer) \cup InHands) \cap InClient = {}

(* What is captured is for buffers that the thread has, and it gives a     *)
(* buffer away when its frame is there. *)
Turns == /\ ToSet(pending) \subseteq InHands
         /\ apc \in {"pop", "wait", "lockfree", "free", "ready"} => act_grabbed # next_queued
         /\ apc \in {"lockfree", "free", "ready"} => act_grabbed \notin ToSet(pending)

(* A buffer is locked once if it is scheduled or the client's, and in one  *)
(* of the places unless it is the client's.                                *)
Counts(scheduled) ==
    \A b \in Buffers :
       \/ lock_count[b] = 0 /\ b \in Stored /\ b \notin scheduled
       \/ lock_count[b] = 1 /\ (b \in Stored <=> b \in scheduled)

(* While a buffer is being scheduled, after the others *)
Releasing == {"give", "nudge_released", "unlock_released", "lock"}
Locking   == {"nudge_locked", "unlock_locked"}
Scheduling(others) ==
    /\ buf \notin others
    /\ \/ Doing("initiate") /\ Counts(others)
       \/ Head(todo).op \in Releasing /\ Counts(others) /\ lock_count[buf] = 0
       \/ Head(todo).op \in Locking /\ Counts(others \cup {buf})

(* Between calls, in the rounds of the polling loop, and on the way to     *)
(* returning buffer b of continuous mode *)
Ahead == IF capture_mode = "MODE_CAP_CONTINUOUS" THEN {current_buffer} ELSE {}
Idle == ~InCall /\ Counts(Ahead)
Polling == \/ PollInit /\ Scheduling({})
           \/ PollWait /\ Counts({buf})
           \/ PollReturn /\ Counts({})
Continuing(b) == \/ StreamFirst(b) /\ Scheduling({})
                 \/ StreamAhead(b) /\ Scheduling({b})
                 \/ StreamWait(b) /\ Counts({b, After(b, 1)})
                 \/ StreamReturn(b) /\ Counts({After(b, 1)})
Phases == Idle \/ Polling \/ \E b \in Buffers : Continuing(b)

(* The frame the client was given last *)
Given == ~InCall /\ result.call # "none" =>
            /\ result.buf \in Buffers /\ result.buf \notin Ahead
            /\ lock_count[result.buf] > 0 => images[result.buf] = result.stamp

IInv == TInv /\ Phases /\ Spread /\ Turns /\ Given

(* Where the invariant is, from what the client does *)
LEMMA PhaseOf ==
    ASSUME Phases
    PROVE  /\ ~InCall => Idle
           /\ InCall /\ Head(todo).op \in InitOps =>
                \/ PollInit /\ Scheduling({})
                \/ \E b \in Buffers : \/ StreamFirst(b) /\ Scheduling({})
                                      \/ StreamAhead(b) /\ Scheduling({b})
           /\ InCall /\ Head(todo).op \in WaitOps =>
                \/ PollWait /\ Counts({buf})
                \/ \E b \in Buffers : StreamWait(b) /\ Counts({b, After(b, 1)})
           /\ Doing("return") =>
                \/ PollReturn /\ Counts({})
                \/ \E b \in Buffers : StreamReturn(b) /\ Counts({After(b, 1)})
  BY DEF Phases, Idle, Polling, Continuing, Doing, InCall, PollInit, PollWait, PollReturn,
         StreamFirst, StreamAhead, StreamWait, StreamReturn, HeadIs, InitOps, WaitOps

(* Moving buffers between the places changes no count. *)
LEMMA SameCounts ==
    ASSUME Stored' = Stored, lock_count' = lock_count, NEW A, Counts(A)
    PROVE  Counts(A)'
  BY DEF Counts

(* What leaves the client and the counts alone keeps the phase of the call *)
LEMMA SamePhase ==
    ASSUME UNCHANGED client, Stored' = Stored, lock_count' = lock_count, Phases
    PROVE  Phases'
<1>1. todo' = todo /\ capture_mode' = capture_mode /\ current_buffer' = current_buffer
  BY DEF client
<1>2. \A A : Counts(A) => Counts(A)'
  BY SameCounts
<1>3. CASE Idle
  BY <1>1, <1>2, <1>3 DEF Phases, Idle, Ahead, InCall
<1>4. \A A : Scheduling(A) => Scheduling(A)'
  BY <1>1, <1>2 DEF Scheduling, Doing, buf
<1>5. CASE Polling
  BY <1>1, <1>2, <1>4, <1>5 DEF Phases, Polling, PollInit, PollWait, PollReturn, buf
<1>6. ASSUME NEW b \in Buffers, Continuing(b) PROVE Continuing(b)'
  BY <1>1, <1>2, <1>4, <1>6 DEF Continuing, StreamFirst, StreamAhead, StreamWait, StreamReturn,
     Streaming, HeadIs
<1>7. QED
  BY <1>3, <1>5, <1>6 DEF Phases

(* So does waking the client. *)
LEMMA WaitingPhase ==
    ASSUME ClientOK, InCall, Head(todo).op \in WaitOps, NEW op \in WaitOps, Becomes(op),
           Stored' = Stored, lock_count' = lock_count, Phases
    PROVE  Phases' /\ InCall'
<1>1. op \in Ops
  BY DEF WaitOps, Ops
<1>2. InCall' /\ Head(todo').buf = Head(todo).buf
  BY <1>1, BecomesSame DEF InCall
<1>3. \A A : Counts(A) => Counts(A)'
  BY SameCounts
<1>4. CASE PollWait /\ Counts({buf})
  <2>1. PollWait'
    BY <1>4, WaitBecomes
  <2>2. Counts({buf})'
    BY <1>2, <1>3, <1>4 DEF buf, Counts
  <2>3. QED
    BY <1>2, <2>1, <2>2 DEF Phases, Polling
<1>5. ASSUME NEW a \in Buffers, StreamWait(a), Counts({a, After(a, 1)}) PROVE Phases' /\ InCall'
  <2>1. StreamWait(a)'
    BY <1>5, WaitBecomes
  <2>2. Counts({a, After(a, 1)})'
    BY <1>5, SameCounts
  <2>3. QED
    BY <1>2, <2>1, <2>2 DEF Phases, Continuing
<1>6. QED
  BY <1>4, <1>5, PhaseOf

(* In a call there is no frame the client was given last. *)
LEMMA BusyGiven == InCall' => Given'
  BY DEF Given

(* A step of scheduling is followed by another one. *)
LEMMA SchedulingPhase ==
    ASSUME ClientOK, InCall, Head(todo).op \in InitOps, NEW op \in InitOps, Becomes(op),
           \A A : Scheduling(A) => Scheduling(A)', Phases
    PROVE  Phases' /\ InCall'
<1>1. op \in Ops
  BY DEF InitOps, Ops
<1>2. InCall'
  BY <1>1, BecomesSame DEF InCall
<1>3. CASE PollInit /\ Scheduling({})
  BY <1>2, <1>3, InitBecomes DEF Phases, Polling
<1>4. ASSUME NEW b \in Buffers, StreamFirst(b), Scheduling({}) PROVE Phases'
  BY <1>4, InitBecomes DEF Phases, Continuing
<1>5. ASSUME NEW b \in Buffers, StreamAhead(b), Scheduling({b}) PROVE Phases'
  BY <1>5, InitBecomes DEF Phases, Continuing
<1>6. QED
  BY <1>2, <1>3, <1>4, <1>5, PhaseOf

(* After the last of them the buffer is scheduled. *)
LEMMA ScheduledPhase ==
    ASSUME NBuffers > 1, ClientOK, InCall, Head(todo).op \in Locking, Done,
           Stored' = Stored, lock_count' = lock_count, Phases
    PROVE  Phases' /\ InCall'
<1>1. \A A : Counts(A) => Counts(A)'
  BY SameCounts
<1>2. \A A : Scheduling(A) => Counts(A \cup {buf})
  BY DEF Scheduling, Doing, Releasing, Locking
<1>3. PICK b \in Buffers : b = buf
  BY HeadOK
<1>4. CASE PollInit /\ Scheduling({})
  <2>1. PollWait' /\ Doing("wait")' /\ Head(todo').buf = b
    BY <1>3, <1>4, PollInitDone DEF buf
  <2>2. Counts({} \cup {b})'
    BY <1>1, <1>2, <1>3, <1>4
  <2>3. {} \cup {b} = {b}
    OBVIOUS
  <2>4. Counts({b})'
    BY <2>2, <2>3
  <2>5. Counts({buf})'
    BY <2>1, <2>4 DEF buf, Counts
  <2>6. QED
    BY <2>1, <2>5 DEF Phases, Polling, Doing, InCall
<1>5. ASSUME NEW a \in Buffers, StreamFirst(a), Scheduling({}) PROVE Phases' /\ InCall'
  <2>1. StreamAhead(a)' /\ Doing("initiate")' /\ a = b
    BY <1>3, <1>5, StreamFirstDone DEF StreamFirst, HeadIs, buf
  <2>2. Counts({} \cup {b})'
    BY <1>1, <1>2, <1>3, <1>5
  <2>3. {} \cup {b} = {a}
    BY <2>1
  <2>4. Counts({a})'
    BY <2>2, <2>3
  <2>5. buf' = After(a, 1) /\ After(a, 1) # a
    BY <2>1, AfterDiffers DEF StreamAhead, HeadIs, buf
  <2>6. QED
    BY <2>1, <2>4, <2>5 DEF Phases, Continuing, Scheduling, Doing, InCall
<1>6. ASSUME NEW a \in Buffers, StreamAhead(a), Scheduling({a}) PROVE Phases' /\ InCall'
  <2>1. StreamWait(a)' /\ Doing("wait")' /\ After(a, 1) = b
    BY <1>3, <1>6, StreamAheadDone DEF StreamAhead, HeadIs, buf
  <2>2. Counts({a} \cup {b})'
    BY <1>1, <1>2, <1>3, <1>6
  <2>3. {a} \cup {b} = {a, After(a, 1)}
    BY <2>1
  <2>4. Counts({a, After(a, 1)})'
    BY <2>2, <2>3
  <2>5. QED
    BY <2>1, <2>4 DEF Phases, Continuing, Doing, InCall
<1>7. Head(todo).op \in InitOps
  BY DEF Locking, InitOps
<1>8. QED
  BY <1>4, <1>5, <1>6, <1>7, PhaseOf

(* After a buffer has been taken it is the client's. *)
LEMMA TakenPhase ==
    ASSUME NBuffers > 1, ClientOK, InCall, Doing("pop"), Done, Phases,
           NEW b \in Buffers, b = buf, \A A : Counts(A) /\ b \in A => Counts(A \ {b})'
    PROVE  Phases' /\ InCall'
<1>1. b = buf
  OBVIOUS
<1>2. CASE PollWait /\ Counts({buf})
  <2>1. (PollInit' /\ Doing("initiate")') \/ PollReturn'
    BY <1>2, PollWaitDone
  <2>2. {b} \ {b} = {}
    OBVIOUS
  <2>3. Counts({b} \ {b})'
    BY <1>1, <1>2
  <2>4. Counts({})'
    BY <2>2, <2>3
  <2>5. QED
    BY <2>1, <2>4 DEF Phases, Polling, Scheduling, Doing, InCall, PollReturn
<1>3. ASSUME NEW a \in Buffers, StreamWait(a), Counts({a, After(a, 1)})
      PROVE  Phases' /\ InCall'
  <2>1. StreamReturn(a)' /\ a = b
    BY <1>1, <1>3, StreamWaitDone DEF StreamWait, HeadIs, buf
  <2>2. {a, After(a, 1)} \ {b} = {After(a, 1)}
    BY <2>1, AfterDiffers
  <2>3. Counts({a, After(a, 1)} \ {b})'
    BY <1>1, <1>3, <2>1
  <2>4. Counts({After(a, 1)})'
    BY <2>2, <2>3
  <2>5. QED
    BY <2>1, <2>4 DEF Phases, Continuing, StreamReturn, HeadIs, InCall
<1>4. QED
  BY <1>2, <1>3, PhaseOf DEF Doing, WaitOps
-----------------------------------------------------------------------------
(* The client's steps keep the invariant. *)

(* The thread's part of the places *)
LEMMA SameHands ==
    ASSUME act_grabbed' = act_grabbed, next_queued' = next_queued, Delivered' = Delivered
    PROVE  InHands' = InHands
  BY DEF InHands, InTask

(* The client holds a buffer only in the midst of an operation, *)
LEMMA NotHolding ==
    /\ ~Doing("give") /\ ~Doing("putback") => InClient = {}
    /\ ~Doing("give")' /\ ~Doing("putback")' => InClient' = {}
  BY DEF InClient, Held

(* and keeps it while others take their steps. *)
LEMMA SameHeld ==
    ASSUME todo' = todo, read_buffer' = read_buffer
    PROVE  InClient' = InClient
  BY DEF InClient, Held, Doing, buf

(* A step that leaves the deques and the thread alone *)
LEMMA SamePlaces ==
    ASSUME IInv, UNCHANGED <<deques, act_grabbed, next_queued, pending>>,
           apc' = apc \/ (apc = "asleep" /\ apc' = "relock"), InClient' = InClient
    PROVE  Stored' = Stored /\ Spread' /\ Turns'
<1>1. InHands' = InHands
  BY SameHands DEF Delivered, At
<1>2. Left' = Left /\ ready_buffer' = ready_buffer
  BY DEF Left, Popping, At, deques
<1>3. QED
  BY <1>1, <1>2 DEF IInv, Stored, Spread, Turns

(* A call begins. *)
LEMMA CallStep ==
    ASSUME NBuffers > 1, IInv, Call
    PROVE  IInv'
<1>1. TInv' /\ ClientOK /\ BeginCall
  BY CallType DEF IInv, TInv, TypeOK, Call
<1>2. PICK b \in Buffers : b = current_buffer
  BY <1>1 DEF ClientOK
<1>3. Idle
  BY <1>1, PhaseOf DEF IInv, BeginCall, NextFrameContinuous, NextFramePoll, RequestFramePoll,
     Poll, Begin, InCall
<1>4. /\ UNCHANGED deques /\ lock_count' = lock_count /\ pending' = pending
      /\ act_grabbed' = act_grabbed /\ next_queued' = next_queued /\ apc' = apc
  BY DEF Call, task, device
<1>5. InClient = {} /\ InClient' = {}
  <2>1. todo' \in Seq(PlanStep)
    BY <1>1, BeginCallPlans
  <2>2. QED
    BY <1>3, <2>1, PlannedFresh, NotHolding DEF Idle, InCall, Doing, MidOps
<1>6. Stored' = Stored /\ Spread' /\ Turns'
  BY <1>4, <1>5, SamePlaces
<1>7. \A A : Counts(A) => Counts(A)'
  BY <1>4, <1>6, SameCounts
<1>8. /\ capture_mode = "MODE_CAP_CONTINUOUS" => Counts({b})'
      /\ capture_mode # "MODE_CAP_CONTINUOUS" => Counts({})'
  BY <1>2, <1>3, <1>7 DEF Idle, Ahead
<1>9. BeginsOnPlan(b)
  BY <1>1, <1>2, CallBegins
<1>10. (Polling \/ \E c \in Buffers : Continuing(c))'
  <2>1. CASE capture_mode = "MODE_CAP_SINGLE" /\ StreamFirst(b)' /\ Doing("initiate")'
    BY <1>8, <2>1 DEF Continuing, Scheduling
  <2>2. CASE capture_mode = "MODE_CAP_CONTINUOUS" /\ StreamAhead(b)' /\ Doing("initiate")'
    <3>1. buf' = After(b, 1) /\ After(b, 1) # b
      BY <2>2, AfterDiffers DEF StreamAhead, HeadIs, buf
    <3>2. QED
      BY <1>8, <2>2, <3>1 DEF Continuing, Scheduling
  <2>3. CASE /\ capture_mode = "MODE_CAP_CONTINUOUS" /\ PollWait' /\ Doing("wait")'
             /\ Head(todo').buf = b
    <3>1. Counts({buf})'
      BY <1>8, <2>3 DEF Counts, buf
    <3>2. QED
      BY <2>3, <3>1 DEF Polling
  <2>4. CASE capture_mode = "MODE_CAP_SINGLE" /\ PollInit' /\ Doing("initiate")'
    BY <1>8, <2>4 DEF Polling, Scheduling
  <2>5. CASE capture_mode = "MODE_CAP_SINGLE" /\ PollReturn'
    BY <1>8, <2>5 DEF Polling
  <2>6. QED
    BY <1>9, <2>1, <2>2, <2>3, <2>4, <2>5 DEF BeginsOnPlan
<1>11. InCall'
  BY <1>9 DEF InCall, BeginsOnPlan, StreamFirst, StreamAhead, HeadIs, PollInit, PollWait,
     PollReturn
<1>12. QED
  BY <1>1, <1>6, <1>10, <1>11, BusyGiven DEF IInv, Phases

(* release_buffer() *)
LEMMA ReleaseStep ==
    ASSUME IInv, ReleaseBuffer
    PROVE  IInv'
<1>1. TInv /\ TInv' /\ ClientOK /\ InCall /\ Doing("initiate") /\ Phases
  BY ReleaseBufferType DEF IInv, TInv, TypeOK, ReleaseBuffer, Doing, InCall
<1>2. PICK b \in Buffers : b = buf
  BY <1>1, HeadOK
<1>3. /\ UNCHANGED deques /\ read_buffer' = read_buffer /\ pending' = pending
      /\ act_grabbed' = act_grabbed /\ next_queued' = next_queued /\ apc' = apc
  BY DEF ReleaseBuffer, task, device
<1>4. PICK A : Scheduling(A)
  BY <1>1, PhaseOf DEF Doing, InitOps, InCall
<1>5. Counts(A) /\ b \notin A
  BY <1>1, <1>2, <1>4 DEF Scheduling, Doing, Releasing, Locking
<1>6. lock_count \in [Buffers -> Nat]
  BY <1>1 DEF TInv, TypeOK
<1>7. InClient = {}
  BY <1>1, NotHolding DEF Doing
<1>8. "lock" \in Ops /\ "give" \in Ops
  BY DEF Ops
<1>9. lock_count[b] \in {0, 1}
  BY <1>5 DEF Counts
<1>10. \A c \in Buffers : lock_count'[c] = IF c = b THEN 0 ELSE lock_count[c]
  <2>1. PICK m : m = (IF lock_count[b] = 0 THEN 0 ELSE lock_count[b] - 1)
    OBVIOUS
  <2>2. lock_count' = [lock_count EXCEPT ![b] = m]
    BY <1>2, <2>1 DEF ReleaseBuffer
  <2>3. m = 0
    BY <1>9, <2>1
  <2>4. QED
    BY <1>6, <2>2, <2>3
<1>11. CASE lock_count[b] = 0
  <2>1. Becomes("lock")
    BY <1>2, <1>11 DEF ReleaseBuffer
  <2>2. ~Doing("give")' /\ ~Doing("putback")'
    BY <1>1, <1>8, <2>1, BecomesDoing
  <2>3. Stored' = Stored /\ Spread' /\ Turns'
    BY <1>3, <1>7, <2>2, NotHolding, SamePlaces
  <2>4. Head(todo').op = "lock" /\ buf' = b /\ todo' # <<>>
    BY <1>1, <1>2, <1>8, <2>1, BecomesSame DEF buf
  <2>5. \A B : Scheduling(B) => Scheduling(B)'
    <3>1. ASSUME NEW B, Scheduling(B) PROVE Scheduling(B)'
      <4>1. Counts(B) /\ b \notin B
        BY <1>1, <1>2, <3>1 DEF Scheduling, Doing, Releasing, Locking
      <4>2. Counts(B)'
        BY <1>10, <1>11, <2>3, <4>1 DEF Counts
      <4>3. QED
        BY <1>10, <2>4, <4>1, <4>2 DEF Scheduling, Releasing
    <3>2. QED
      BY <3>1
  <2>6. Phases' /\ InCall'
    BY <1>1, <2>1, <2>5, SchedulingPhase DEF InitOps, Doing
  <2>7. QED
    BY <1>1, <2>3, <2>6, BusyGiven DEF IInv
<1>12. CASE lock_count[b] # 0
  <2>1. lock_count[b] = 1 /\ b \notin Stored
    BY <1>5, <1>12 DEF Counts
  <2>2. Becomes("give")
    BY <1>2, <2>1 DEF ReleaseBuffer
  <2>3. Head(todo').op = "give" /\ buf' = b /\ todo' # <<>>
    BY <1>1, <1>2, <1>8, <2>2, BecomesSame DEF buf
  <2>4. InClient' = {b}
    BY <2>3 DEF InClient, Held, Doing
  <2>5. Left' = Left /\ ready_buffer' = ready_buffer
    BY <1>3 DEF Left, Popping, At, deques
  <2>6. InHands' = InHands
    BY <1>3, SameHands DEF Delivered, At
  <2>7. Stored' = Stored \cup {b}
    BY <1>7, <2>4, <2>5, <2>6 DEF Stored
  <2>8. Spread'
    BY <2>1, <2>4, <2>5, <2>6 DEF IInv, Spread, Stored
  <2>9. Turns'
    BY <1>3, <2>6 DEF IInv, Turns
  <2>10. \A B : Scheduling(B) => Scheduling(B)'
    <3>1. ASSUME NEW B, Scheduling(B) PROVE Scheduling(B)'
      <4>1. Counts(B) /\ b \notin B
        BY <1>1, <1>2, <3>1 DEF Scheduling, Doing, Releasing, Locking
      <4>2. Counts(B)'
        BY <1>10, <2>7, <4>1 DEF Counts
      <4>3. QED
        BY <1>10, <2>3, <4>1, <4>2 DEF Scheduling, Releasing
    <3>2. QED
      BY <3>1
  <2>11. Phases' /\ InCall'
    BY <1>1, <2>2, <2>10, SchedulingPhase DEF InitOps, Doing
  <2>12. QED
    BY <1>1, <2>8, <2>9, <2>11, BusyGiven DEF IInv
<1>13. QED
  BY <1>11, <1>12

(* free_buffer.push_back(): the buffer goes from the client's hands to the *)
(* free ones. *)
LEMMA GiveStep ==
    ASSUME IInv, GiveBuffer
    PROVE  IInv'
<1>1. /\ TInv /\ TInv' /\ ClientOK /\ InCall /\ Doing("give") /\ Becomes("nudge_released")
      /\ Phases
  BY GiveBufferType DEF IInv, TInv, TypeOK, GiveBuffer, Doing, InCall
<1>2. PICK b \in Buffers : b = buf
  BY <1>1, HeadOK
<1>3. /\ free_buffer' = Append(free_buffer, b) /\ ready_buffer' = ready_buffer
      /\ lock_count' = lock_count /\ pending' = pending
      /\ act_grabbed' = act_grabbed /\ next_queued' = next_queued /\ apc' = apc
  BY <1>2 DEF GiveBuffer, task, device
<1>4. "nudge_released" \in Ops
  BY DEF Ops
<1>5. Head(todo').op = "nudge_released" /\ buf' = b /\ todo' # <<>>
  BY <1>1, <1>2, <1>4, BecomesSame DEF buf
<1>6. InClient = {b} /\ InClient' = {}
  <2>1. InClient = {b}
    BY <1>1, <1>2 DEF InClient, Held, Doing
  <2>2. QED
    BY <1>5, <2>1, NotHolding DEF Doing
<1>7. InHands' = InHands
  BY <1>3, SameHands DEF Delivered, At
<1>8. PICK f \in Seq(Buffers) : f = free_buffer
  BY <1>1 DEF TInv, TypeOK
<1>9. Popping => f # <<>>
  BY <1>1, <1>8 DEF TInv, Fronts
<1>10. PICK k \in Seq(Buffers) : k = Left
  <2>1. f # <<>> => Tail(f) \in Seq(Buffers)
    OBVIOUS
  <2>2. Left \in Seq(Buffers)
    BY <1>8, <1>9, <2>1 DEF Left
  <2>3. QED
    BY <2>2
<1>11. Left' = Append(k, b)
  <2>1. CASE Popping
    <3>1. Tail(Append(f, b)) = Append(Tail(f), b)
      BY <1>9, <2>1
    <3>2. QED
      BY <1>3, <1>8, <1>10, <2>1, <3>1 DEF Left, Popping, At
  <2>2. CASE ~Popping
    BY <1>3, <1>8, <1>10, <2>2 DEF Left, Popping, At
  <2>3. QED
    BY <2>1, <2>2
<1>12. b \notin ToSet(k) /\ b \notin ToSet(ready_buffer) /\ b \notin InHands /\ IsInjective(k)
  BY <1>6, <1>10 DEF IInv, Spread
<1>13. ToSet(Left') = ToSet(k) \cup {b} /\ IsInjective(Left')
  BY <1>11, <1>12, AppendSet
<1>14. Stored' = Stored
  BY <1>3, <1>6, <1>7, <1>10, <1>13 DEF Stored
<1>15. Spread'
  BY <1>3, <1>6, <1>7, <1>10, <1>12, <1>13 DEF IInv, Spread
<1>16. Turns'
  BY <1>3, <1>7 DEF IInv, Turns
<1>17. \A B : Scheduling(B) => Scheduling(B)'
  <2>1. ASSUME NEW B, Scheduling(B) PROVE Scheduling(B)'
    <3>1. Counts(B) /\ b \notin B /\ lock_count[b] = 0
      BY <1>1, <1>2, <2>1 DEF Scheduling, Doing, Releasing, Locking
    <3>2. Counts(B)'
      BY <1>3, <1>14, <3>1, SameCounts
    <3>3. QED
      BY <1>3, <1>5, <3>1, <3>2 DEF Scheduling, Releasing
  <2>2. QED
    BY <2>1
<1>18. Phases' /\ InCall'
  BY <1>1, <1>17, SchedulingPhase DEF InitOps, Doing
<1>19. QED
  BY <1>1, <1>15, <1>16, <1>18, BusyGiven DEF IInv

(* lock_buffer() *)
LEMMA LockStep ==
    ASSUME IInv, LockBuffer
    PROVE  IInv'
<1>1. TInv /\ TInv' /\ ClientOK /\ InCall /\ Doing("lock") /\ Becomes("nudge_locked") /\ Phases
  BY LockBufferType DEF IInv, TInv, TypeOK, LockBuffer, Doing, InCall
<1>2. PICK b \in Buffers : b = buf
  BY <1>1, HeadOK
<1>3. /\ UNCHANGED deques /\ pending' = pending
      /\ act_grabbed' = act_grabbed /\ next_queued' = next_queued /\ apc' = apc
      /\ lock_count' = [lock_count EXCEPT ![b] = lock_count[b] + 1]
  BY <1>2 DEF LockBuffer, task, device
<1>4. Head(todo').op = "nudge_locked" /\ buf' = b /\ todo' # <<>>
  BY <1>1, <1>2, BecomesSame DEF Ops, buf
<1>5. Stored' = Stored /\ Spread' /\ Turns'
  <2>1. InClient' = InClient
    BY <1>1, <1>4, NotHolding DEF Doing
  <2>2. QED
    BY <1>3, <2>1, SamePlaces
<1>6. Head(todo').op = "nudge_locked" /\ buf' = b /\ todo' # <<>>
  BY <1>4
<1>7. lock_count \in [Buffers -> Nat]
  BY <1>1 DEF TInv, TypeOK
<1>8. \A B : Scheduling(B) => Scheduling(B)'
  <2>1. ASSUME NEW B, Scheduling(B) PROVE Scheduling(B)'
    <3>1. Counts(B) /\ b \notin B /\ lock_count[b] = 0
      BY <1>1, <1>2, <2>1 DEF Scheduling, Doing, Releasing, Locking
    <3>2. \A c \in Buffers : lock_count'[c] = IF c = b THEN 1 ELSE lock_count[c]
      BY <1>3, <1>7, <3>1
    <3>3. Counts(B \cup {b})'
      BY <1>5, <3>1, <3>2 DEF Counts
    <3>4. Counts(B \cup {buf})'
      BY <1>6, <3>3
    <3>5. QED
      BY <1>6, <3>1, <3>4 DEF Scheduling, Locking
  <2>2. QED
    BY <2>1
<1>9. Phases' /\ InCall'
  BY <1>1, <1>8, SchedulingPhase DEF InitOps, Doing
<1>10. QED
  BY <1>1, <1>5, <1>9, BusyGiven DEF IInv

(* The broadcasts *)
LEMMA NudgeStepOK ==
    ASSUME NBuffers > 1, IInv, NudgeStep
    PROVE  IInv'
<1>1. TInv' /\ ClientOK /\ Phases
  BY NudgeType DEF IInv, TInv, TypeOK
<1>2. /\ InCall /\ UNCHANGED deques /\ lock_count' = lock_count
      /\ act_grabbed' = act_grabbed /\ next_queued' = next_queued /\ pending' = pending
      /\ apc' = apc \/ (apc = "asleep" /\ apc' = "relock")
  BY <1>1, NudgeClient DEF device
<1>3. InClient' = InClient
  BY <1>1, NudgeClient, NotHolding DEF MidOps
<1>4. Stored' = Stored /\ Spread' /\ Turns'
  BY <1>2, <1>3, SamePlaces
<1>5. ASSUME NEW op \in {"lock", "unlock_released", "unlock_locked"}, Becomes(op),
             IF op = "unlock_locked" THEN Head(todo).op \in Locking
                                     ELSE Head(todo).op \in Releasing
      PROVE  Phases' /\ InCall'
  <2>1. PICK b \in Buffers : b = buf
    BY <1>1, <1>2, HeadOK
  <2>2. Head(todo').op = op /\ buf' = b
    BY <1>1, <1>2, <1>5, <2>1, BecomesSame DEF Ops, buf
  <2>3. ASSUME NEW B, Scheduling(B) PROVE Scheduling(B)'
    <3>1. CASE op = "unlock_locked"
      <4>1. b \notin B /\ Counts(B \cup {b})
        BY <1>5, <2>1, <2>3, <3>1 DEF Scheduling, Doing, Releasing, Locking
      <4>2. Counts(B \cup {b})'
        BY <1>2, <1>4, <4>1, SameCounts
      <4>3. Counts(B \cup {buf})'
        BY <2>2, <4>2
      <4>4. QED
        BY <2>2, <3>1, <4>1, <4>3 DEF Scheduling, Locking
    <3>2. CASE op # "unlock_locked"
      <4>1. b \notin B /\ Counts(B) /\ lock_count[b] = 0
        BY <1>5, <2>1, <2>3, <3>2 DEF Scheduling, Doing, Releasing, Locking
      <4>2. Counts(B)'
        BY <1>2, <1>4, <4>1, SameCounts
      <4>3. QED
        BY <1>2, <1>5, <2>2, <3>2, <4>1, <4>2 DEF Scheduling, Releasing
    <3>3. QED
      BY <3>1, <3>2
  <2>4. op \in InitOps /\ Head(todo).op \in InitOps
    BY <1>5 DEF InitOps, Releasing, Locking
  <2>5. \A B : Scheduling(B) => Scheduling(B)'
    BY <2>3
  <2>6. QED
    BY <1>1, <1>2, <1>5, <2>4, <2>5, SchedulingPhase
<1>6. CASE NudgeReleased
  <2>1. /\ Head(todo).op \in Releasing
        /\ Becomes("lock") \/ Becomes("unlock_released")
    BY <1>6 DEF NudgeReleased, Nudge, Doing, Releasing
  <2>2. Phases' /\ InCall'
    BY <1>5, <2>1
  <2>3. QED
    BY <1>1, <1>4, <2>2, BusyGiven DEF IInv
<1>7. CASE NudgeLocked
  <2>1. /\ Head(todo).op \in Locking
        /\ Done \/ Becomes("unlock_locked")
    BY <1>7 DEF NudgeLocked, Nudge, Doing, Locking
  <2>2. Phases' /\ InCall'
    BY <1>1, <1>2, <1>4, <1>5, <2>1, ScheduledPhase
  <2>3. QED
    BY <1>1, <1>4, <2>2, BusyGiven DEF IInv
<1>8. QED
  BY <1>6, <1>7 DEF NudgeStep

(* Waiting for a buffer to be ready *)
LEMMA WaitingStepOK ==
    ASSUME IInv, WaitingStep
    PROVE  IInv'
<1>1. TInv' /\ ClientOK /\ Phases
  BY WaitingType DEF IInv, TInv, TypeOK
<1>2. /\ InCall /\ Head(todo).op \in WaitOps
      /\ UNCHANGED client \/ \E op \in WaitOps : Becomes(op)
      /\ \A op \in MidOps : ~Doing(op) /\ ~Doing(op)'
      /\ UNCHANGED <<read_buffer, deques, lock_count, task, free_flag, device>>
  BY <1>1, WaitingClient
<1>3. InClient' = InClient
  BY <1>2, NotHolding DEF MidOps
<1>4. Stored' = Stored /\ Spread' /\ Turns'
  BY <1>2, <1>3, SamePlaces DEF task, device
<1>5. Phases' /\ InCall'
  <2>1. CASE UNCHANGED client
    BY <1>1, <1>2, <1>4, <2>1, SamePhase DEF InCall, client
  <2>2. CASE \E op \in WaitOps : Becomes(op)
    BY <1>1, <1>2, <1>4, <2>2, WaitingPhase
  <2>3. QED
    BY <1>2, <2>1, <2>2
<1>6. QED
  BY <1>1, <1>4, <1>5, BusyGiven DEF IInv

(* The front is read. *)
LEMMA WaitFrontStep ==
    ASSUME IInv, WaitFront
    PROVE  IInv'
<1>1. TInv' /\ ClientOK /\ InCall /\ Doing("take") /\ Becomes("pop") /\ Phases
  BY WaitFrontType DEF IInv, TInv, TypeOK, WaitFront, Doing, InCall
<1>2. UNCHANGED <<deques, lock_count, task, device>>
  BY DEF WaitFront
<1>3. "pop" \in Ops /\ "pop" \in WaitOps /\ Head(todo).op \in WaitOps
  BY <1>1 DEF Ops, WaitOps, Doing
<1>4. InClient' = InClient
  BY <1>1, <1>3, BecomesDoing, NotHolding DEF Doing
<1>5. Stored' = Stored /\ Spread' /\ Turns'
  BY <1>2, <1>4, SamePlaces DEF task, device
<1>6. Phases' /\ InCall'
  BY <1>1, <1>2, <1>3, <1>5, WaitingPhase
<1>7. QED
  BY <1>1, <1>5, <1>6, BusyGiven DEF IInv

(* A buffer is popped: it becomes the client's if it is the one, and is    *)
(* held otherwise. *)
LEMMA WaitPopStep ==
    ASSUME NBuffers > 1, IInv, WaitPop
    PROVE  IInv'
<1>1. TInv /\ TInv' /\ ClientOK /\ InCall /\ Doing("pop") /\ Phases
  BY WaitPopType DEF IInv, TInv, TypeOK, WaitPop, Doing, InCall
<1>2. PICK b \in Buffers : b = buf
  BY <1>1, HeadOK
<1>3. /\ free_buffer' = free_buffer /\ lock_count' = lock_count
      /\ act_grabbed' = act_grabbed /\ next_queued' = next_queued /\ pending' = pending
      /\ apc' = apc /\ read_buffer' = read_buffer
  BY DEF WaitPop, task, device
<1>4. InHands' = InHands /\ Left' = Left
  BY <1>3, SameHands DEF Delivered, At, Left, Popping
<1>5. Turns'
  BY <1>3, <1>4 DEF IInv, Turns
<1>6. ready_buffer \in Seq(Buffers) /\ ready_buffer # <<>> /\ IsInjective(ready_buffer)
  BY <1>1 DEF TInv, TypeOK, Fronts, IInv, Spread
<1>7. PICK h \in Buffers : h = Head(ready_buffer)
  BY <1>6, TailSet
<1>8. h = read_buffer
  BY <1>1, <1>7 DEF TInv, Fronts
<1>9. PICK t \in Seq(Buffers) : t = Tail(ready_buffer)
  BY <1>6, TailSet
<1>10. ToSet(ready_buffer) = ToSet(t) \cup {h} /\ IsInjective(t) /\ h \notin ToSet(t)
  BY <1>6, <1>7, <1>9, TailSet
<1>11. InClient = {} /\ ready_buffer' = t
  BY <1>1, <1>9, NotHolding DEF Doing, WaitPop
<1>12. CASE h = b
  <2>1. Done
    BY <1>2, <1>8, <1>12 DEF WaitPop
  <2>2. InClient' = {}
    BY <1>1, <2>1, DoneFresh, NotHolding DEF Done, MidOps
  <2>3. Spread'
    BY <1>4, <1>10, <1>11, <2>2 DEF IInv, Spread
  <2>4. Stored' = Stored \ {b} /\ b \in Stored
    BY <1>4, <1>10, <1>11, <1>12, <2>2 DEF IInv, Spread, Stored
  <2>5. \A A : Counts(A) /\ b \in A => Counts(A \ {b})'
    BY <1>3, <2>4 DEF Counts
  <2>6. Phases' /\ InCall'
    BY <1>1, <1>2, <2>1, <2>5, TakenPhase
  <2>7. QED
    BY <1>1, <1>5, <2>3, <2>6, BusyGiven DEF IInv
<1>13. CASE h # b
  <2>1. Becomes("putback")
    BY <1>2, <1>8, <1>13 DEF WaitPop
  <2>2. "putback" \in Ops /\ "putback" \in WaitOps /\ Head(todo).op \in WaitOps
    BY <1>1 DEF Ops, WaitOps, Doing
  <2>3. Doing("putback")' /\ ~Doing("give")'
    BY <1>1, <2>1, <2>2, BecomesDoing
  <2>4. InClient' = {h}
    BY <1>3, <1>8, <2>3 DEF InClient, Held
  <2>5. Spread'
    BY <1>4, <1>10, <1>11, <2>4 DEF IInv, Spread
  <2>6. Stored' = Stored
    BY <1>4, <1>10, <1>11, <2>4 DEF Stored
  <2>7. Phases' /\ InCall'
    BY <1>1, <1>3, <2>1, <2>2, <2>6, WaitingPhase
  <2>8. QED
    BY <1>1, <1>5, <2>5, <2>7, BusyGiven DEF IInv
<1>14. QED
  BY <1>12, <1>13

(* The one that is held goes to the end. *)
LEMMA WaitPutBackStep ==
    ASSUME IInv, WaitPutBack
    PROVE  IInv'
<1>1. /\ TInv /\ TInv' /\ ClientOK /\ InCall /\ Doing("putback") /\ Becomes("wait")
      /\ Phases
  BY WaitPutBackType DEF IInv, TInv, TypeOK, WaitPutBack, Doing, InCall
<1>2. PICK h \in Buffers : h = read_buffer
  BY <1>1 DEF TInv, Fronts
<1>3. /\ free_buffer' = free_buffer /\ ready_buffer' = Append(ready_buffer, h)
      /\ lock_count' = lock_count /\ act_grabbed' = act_grabbed
      /\ next_queued' = next_queued /\ pending' = pending /\ apc' = apc
  BY <1>2 DEF WaitPutBack, task, device
<1>4. InHands' = InHands /\ Left' = Left
  BY <1>3, SameHands DEF Delivered, At, Left, Popping
<1>5. Turns'
  BY <1>3, <1>4 DEF IInv, Turns
<1>6. "wait" \in Ops /\ "wait" \in WaitOps /\ Head(todo).op \in WaitOps
  BY <1>1 DEF Ops, WaitOps, Doing
<1>7. InClient = {h} /\ InClient' = {}
  <2>1. InClient = {h}
    BY <1>1, <1>2 DEF InClient, Held, Doing
  <2>2. ~Doing("give")' /\ ~Doing("putback")'
    BY <1>1, <1>6, BecomesDoing
  <2>3. QED
    BY <2>1, <2>2, NotHolding
<1>8. /\ h \notin ToSet(Left) /\ h \notin ToSet(ready_buffer) /\ h \notin InHands
      /\ ready_buffer \in Seq(Buffers) /\ IsInjective(ready_buffer)
  BY <1>1, <1>7 DEF IInv, Spread, TInv, TypeOK
<1>9. ToSet(ready_buffer') = ToSet(ready_buffer) \cup {h} /\ IsInjective(ready_buffer')
  BY <1>3, <1>8, AppendSet
<1>10. Stored' = Stored
  BY <1>4, <1>7, <1>9 DEF Stored
<1>11. Spread'
  BY <1>4, <1>7, <1>8, <1>9 DEF IInv, Spread
<1>12. Phases' /\ InCall'
  BY <1>1, <1>3, <1>6, <1>10, WaitingPhase
<1>13. QED
  BY <1>1, <1>5, <1>11, <1>12, BusyGiven DEF IInv

(* The client is given a frame. *)
LEMMA ReturnStep ==
    ASSUME NBuffers > 1, IInv, ReturnFrame
    PROVE  IInv'
<1>1. TInv /\ TInv' /\ ClientOK /\ InCall /\ Doing("return") /\ Phases
  BY ReturnFrameType DEF IInv, TInv, TypeOK, ReturnFrame, Doing, InCall
<1>2. PICK b \in Buffers : b = buf
  BY <1>1, HeadOK
<1>3. /\ UNCHANGED deques /\ lock_count' = lock_count
      /\ act_grabbed' = act_grabbed /\ next_queued' = next_queued /\ pending' = pending
      /\ apc' = apc /\ images' = images
  BY DEF ReturnFrame, task, device
<1>4. PICK stamp : stamp = images[b] /\ Return(stamp)
  BY <1>2 DEF ReturnFrame
<1>5. Stored' = Stored /\ Spread' /\ Turns'
  <2>1. ~Doing("give")' /\ ~Doing("putback")'
    BY <1>1, <1>4, DoneFresh DEF Return, MidOps
  <2>2. InClient' = InClient
    BY <1>1, <2>1, NotHolding DEF Doing
  <2>3. QED
    BY <1>3, <2>2, SamePlaces
<1>6. stamp = images[b] /\ Return(stamp)
  BY <1>4
<1>7. result'.buf = b /\ result'.stamp = stamp
  BY <1>2, <1>6 DEF Return, buf
<1>8. \A A : Counts(A) => Counts(A)'
  BY <1>3, <1>5, SameCounts
<1>9. CASE PollReturn /\ Counts({})
  <2>1. ~InCall' /\ capture_mode' = "MODE_CAP_SINGLE"
    BY <1>6, <1>9, ReturnEnds DEF PollReturn
  <2>2. Ahead' = {} /\ Counts({})'
    BY <1>8, <1>9, <2>1 DEF Ahead
  <2>3. Idle'
    BY <2>1, <2>2 DEF Idle
  <2>4. Given'
    BY <1>3, <1>6, <1>7, <2>2 DEF Given
  <2>5. QED
    BY <1>1, <1>5, <2>3, <2>4 DEF IInv, Phases
<1>10. ASSUME NEW a \in Buffers, StreamReturn(a), Counts({After(a, 1)}) PROVE IInv'
  <2>1. /\ ~InCall' /\ capture_mode' = "MODE_CAP_CONTINUOUS"
        /\ current_buffer' = After(a, 1) /\ a = b
    BY <1>2, <1>6, <1>10, ReturnEnds DEF StreamReturn, Streaming, HeadIs, buf
  <2>2. Ahead' = {After(a, 1)} /\ Counts({After(a, 1)})'
    BY <1>8, <1>10, <2>1 DEF Ahead
  <2>3. Idle'
    BY <2>1, <2>2 DEF Idle
  <2>4. Given'
    BY <1>3, <1>6, <1>7, <2>1, <2>2, AfterDiffers DEF Given
  <2>5. QED
    BY <1>1, <1>5, <2>3, <2>4 DEF IInv, Phases
<1>11. QED
  BY <1>1, <1>9, <1>10, PhaseOf
-----------------------------------------------------------------------------
(* The thread's steps keep the invariant. *)

(* What leaves the client, the counts and the images alone has only the    *)
(* places to keep. *)
LEMMA ThreadKeeps ==
    ASSUME IInv, TInv', UNCHANGED client, lock_count' = lock_count, images' = images,
           Stored' = Stored, Spread', Turns'
    PROVE  IInv'
<1>1. Phases'
  BY SamePhase DEF IInv
<1>2. /\ todo' = todo /\ result' = result /\ capture_mode' = capture_mode
      /\ current_buffer' = current_buffer
  BY DEF client
<1>3. Given'
  BY <1>2 DEF IInv, Given, InCall, Ahead
<1>4. QED
  BY <1>1, <1>3 DEF IInv

(* The first free buffer comes into the thread's hands, and, but for the   *)
(* very first, into the queue of the grabber underneath. *)
LEMMA FrontStep ==
    ASSUME IInv, TaskBegin \/ TaskQueue
    PROVE  IInv'
<1>1. /\ TInv /\ TInv' /\ TakeFront
      /\ UNCHANGED <<client, read_buffer, deques, lock_count, act_grabbed>>
  BY FrontType DEF IInv, TaskBegin, TaskQueue
<1>2. free_buffer \in Seq(Buffers) /\ free_buffer # <<>>
  BY <1>1, TakeFrontType
<1>3. PICK h \in Buffers : h = next_queued' /\ h = Head(free_buffer)
  BY <1>1, TakeFrontType
<1>4. Left = free_buffer /\ Left' = Tail(free_buffer) /\ ready_buffer' = ready_buffer
  BY <1>1 DEF Left, Popping, At, Go, TaskBegin, TaskQueue, deques
<1>5. IsInjective(free_buffer)
  BY <1>4 DEF IInv, Spread
<1>6. /\ ToSet(Left) = ToSet(Left') \cup {h}
      /\ IsInjective(Left') /\ h \notin ToSet(Left')
  BY <1>2, <1>3, <1>4, <1>5, TailSet
<1>7. h \notin InHands /\ h \notin InClient /\ InClient' = InClient
  BY <1>1, <1>6, SameHeld DEF IInv, Spread, client
<1>8. /\ InHands' = InHands \cup {h}
      /\ apc' \in {"pop", "wait", "lockfree", "free", "ready"} => act_grabbed' # next_queued'
      /\ apc' \notin {"lockfree", "free", "ready"}
  <2>1. NoBuffer \notin Buffers
    BY RingAssumption DEF NoBuffer, Buffers
  <2>2. CASE TaskBegin
    <3>1. apc = "begin" /\ apc' = "first" /\ next_queued = NoBuffer
      BY <1>1, <2>2 DEF TaskBegin, At, Go, TInv, Control
    <3>2. InHands = {} /\ InHands' = {h}
      BY <1>3, <2>1, <3>1 DEF InHands, InTask, Delivered, At
    <3>3. QED
      BY <3>1, <3>2
  <2>3. CASE TaskQueue
    <3>1. apc = "queue" /\ apc' = "pop" /\ act_grabbed = next_queued /\ act_grabbed \in Buffers
      BY <1>1, <2>3 DEF TaskQueue, At, Go, TInv, Control
    <3>2. act_grabbed \in InHands
      BY <3>1 DEF InHands, InTask
    <3>3. InHands = {act_grabbed} /\ InHands' = {act_grabbed, h}
      BY <1>1, <1>3, <3>1 DEF InHands, InTask, Delivered, At
    <3>4. InHands' = InHands \cup {h}
      BY <3>3
    <3>5. act_grabbed' # next_queued'
      BY <1>1, <1>3, <1>7, <3>2
    <3>6. QED
      BY <3>1, <3>4, <3>5
  <2>4. QED
    BY <2>2, <2>3
<1>9. Stored' = Stored
  BY <1>4, <1>6, <1>7, <1>8 DEF Stored
<1>10. Spread'
  BY <1>4, <1>6, <1>7, <1>8 DEF IInv, Spread
<1>11. ToSet(pending') \subseteq ToSet(pending) \cup {h} /\ images' = images
  <2>1. CASE TaskBegin
    BY <2>1 DEF TaskBegin, device
  <2>2. CASE TaskQueue
    <3>1. Grabber!Schedule(h)
      BY <1>3, <2>2 DEF TaskQueue
    <3>2. pending \in Seq(Buffers) /\ pending' = Append(pending, h) /\ images' = images
      BY <1>1, <3>1, ScheduleType
    <3>3. QED
      BY <3>2, AppendSet
  <2>3. QED
    BY <2>1, <2>2
<1>12. Turns'
  BY <1>8, <1>11 DEF IInv, Turns
<1>13. QED
  BY <1>1, <1>9, <1>10, <1>11, <1>12, ThreadKeeps

(* It is popped: it had left the free ones before. *)
LEMMA PopStep ==
    ASSUME IInv, TaskFirst \/ TaskPop
    PROVE  IInv'
<1>1. /\ TInv /\ TInv' /\ free_buffer' = Tail(free_buffer)
      /\ UNCHANGED <<client, read_buffer, ready_buffer, lock_count, act_grabbed, next_queued>>
  BY PopType DEF IInv, TaskFirst, TaskPop
<1>2. \/ apc = "first" /\ apc' = "top"
      \/ apc = "pop" /\ apc' = "wait"
  BY DEF TaskFirst, TaskPop, At, Go
<1>3. Left' = Left /\ InHands' = InHands /\ InClient' = InClient
  <2>1. Left' = Left
    BY <1>1, <1>2 DEF Left, Popping, At
  <2>2. InHands' = InHands
    BY <1>1, <1>2, SameHands DEF Delivered, At
  <2>3. QED
    BY <1>1, <2>1, <2>2, SameHeld DEF client
<1>4. Stored' = Stored /\ Spread'
  BY <1>1, <1>3 DEF IInv, Stored, Spread
<1>5. PICK h \in Buffers : h = next_queued
  BY <1>1, <1>2 DEF TInv, Control
<1>6. h \in InHands
  BY <1>5 DEF InHands, InTask
<1>7. ToSet(pending') \subseteq ToSet(pending) \cup {h} /\ images' = images
  <2>1. CASE TaskPop
    BY <2>1 DEF TaskPop, device
  <2>2. CASE TaskFirst
    <3>1. Grabber!Schedule(h)
      BY <1>5, <2>2 DEF TaskFirst
    <3>2. pending \in Seq(Buffers) /\ pending' = Append(pending, h) /\ images' = images
      BY <1>1, <3>1, ScheduleType
    <3>3. QED
      BY <3>2, AppendSet
  <2>3. QED
    BY <2>1, <2>2
<1>8. Turns'
  BY <1>1, <1>2, <1>3, <1>6, <1>7 DEF IInv, Turns
<1>9. QED
  BY <1>1, <1>4, <1>7, <1>8, ThreadKeeps

(* A step of the thread's that moves no buffer *)
LEMMA MovingHands ==
    ASSUME TInv, Turns, MovingStep
    PROVE  InHands' = InHands /\ Turns'
<1>1. UNCHANGED <<read_buffer, deques, lock_count, next_queued, undefined, device>>
  BY MovingKeeps
<1>2. next_queued' = next_queued /\ pending' = pending
  BY <1>1 DEF device
<1>3. CASE TaskLock
  <2>1. apc = "top" /\ apc' = "test" /\ act_grabbed' = next_queued
    BY <1>3 DEF TaskLock, At, Go
  <2>2. InHands' = InHands
    BY <1>2, <2>1 DEF InHands, InTask, Delivered, At
  <2>3. QED
    BY <1>2, <2>1, <2>2 DEF Turns
<1>4. CASE TaskWait
  <2>1. /\ apc = "wait" /\ apc' \in {"lockfree", "ready"} /\ act_grabbed' = act_grabbed
        /\ ~Contains(pending, act_grabbed)
    BY <1>4 DEF TaskWait, At, Go, Completed
  <2>2. act_grabbed \notin ToSet(pending)
    BY <2>1 DEF Contains, ToSet
  <2>3. InHands' = InHands
    BY <1>2, <2>1 DEF InHands, InTask, Delivered, At
  <2>4. QED
    BY <1>2, <2>1, <2>2, <2>3 DEF Turns
<1>5. CASE TaskTest \/ TaskSleep \/ TaskWake \/ TaskUnlock
  <2>1. /\ act_grabbed' = act_grabbed
        /\ apc \in {"test", "condwait", "asleep", "relock", "unlock"}
        /\ apc' \in {"test", "condwait", "asleep", "relock", "unlock", "queue"}
    BY <1>5 DEF TaskTest, TaskSleep, TaskWake, TaskUnlock, At, Go
  <2>2. InHands' = InHands
    BY <1>2, <2>1 DEF InHands, InTask, Delivered, At
  <2>3. QED
    BY <1>2, <2>1, <2>2 DEF Turns
<1>6. CASE TaskLockFree
  <2>1. act_grabbed' = act_grabbed /\ apc = "lockfree" /\ apc' = "free"
    BY <1>6 DEF TaskLockFree, At, Go
  <2>2. InHands' = InHands
    BY <1>2, <2>1 DEF InHands, InTask, Delivered, At
  <2>3. QED
    BY <1>2, <2>1, <2>2 DEF Turns
<1>7. CASE TaskNudge \/ TaskNudgeFails \/ TaskUnlockOther
  <2>1. /\ act_grabbed' = act_grabbed /\ apc \in {"nudge", "unlockother"}
        /\ apc' \in {"top", "unlockother"}
    BY <1>7 DEF TaskNudge, TaskNudgeFails, TaskUnlockOther, At, Go
  <2>2. InHands' = InHands
    BY <1>2, <2>1 DEF InHands, InTask, Delivered, At
  <2>3. QED
    BY <1>2, <2>1, <2>2 DEF Turns
<1>8. CASE SpuriousWakeup
  <2>1. act_grabbed' = act_grabbed /\ (apc' = apc \/ (apc = "asleep" /\ apc' = "relock"))
    BY <1>8 DEF SpuriousWakeup, At, Go, task
  <2>2. InHands' = InHands
    BY <1>2, <2>1 DEF InHands, InTask, Delivered, At
  <2>3. QED
    BY <1>2, <2>1, <2>2 DEF Turns
<1>9. QED
  BY <1>3, <1>4, <1>5, <1>6, <1>7, <1>8 DEF MovingStep

(* So it keeps the invariant. *)
LEMMA MovingStepOK ==
    ASSUME IInv, MovingStep
    PROVE  IInv'
<1>1. TInv' /\ ClientOK
  BY MovingType DEF IInv, TInv, TypeOK
<1>2. /\ UNCHANGED <<read_buffer, deques, lock_count, next_queued, undefined, device>>
      /\ (Popping' <=> Popping)
  BY MovingKeeps
<1>3. InHands' = InHands /\ Turns'
  BY MovingHands DEF IInv
<1>4. Stored' = Stored /\ Spread'
  <2>1. Left' = Left /\ ready_buffer' = ready_buffer
    BY <1>2 DEF Left, deques
  <2>2. InClient' = InClient
    <3>1. CASE UNCHANGED client
      BY <1>2, <3>1, SameHeld DEF client
    <3>2. CASE Doing("asleep")
      <4>1. ~Doing("give") /\ ~Doing("putback")
        BY <3>2 DEF Doing
      <4>2. QED
        BY <1>1, <4>1, MovingClient, NotHolding DEF MidOps
    <3>3. QED
      BY <1>1, <3>1, <3>2, MovingClient
  <2>3. QED
    BY <1>3, <2>1, <2>2 DEF IInv, Stored, Spread
<1>5. CASE UNCHANGED client
  BY <1>1, <1>2, <1>3, <1>4, <1>5, ThreadKeeps DEF device
<1>6. CASE Doing("asleep") /\ Becomes("take")
  <2>1. Phases' /\ InCall'
    BY <1>1, <1>2, <1>4, <1>6, WaitingPhase DEF IInv, Doing, InCall, WaitOps
  <2>2. QED
    BY <1>1, <1>3, <1>4, <2>1, BusyGiven DEF IInv
<1>7. QED
  BY <1>1, <1>5, <1>6, MovingClient

(* The thread gives its older buffer away. *)
LEMMA GivingHands ==
    ASSUME IInv, TaskFree \/ TaskReady, NEW a \in Buffers, a = act_grabbed
    PROVE  /\ InHands = InHands' \cup {a} /\ a \notin InHands'
           /\ a \notin ToSet(Left) \cup ToSet(ready_buffer)
           /\ Left = free_buffer /\ Left' = free_buffer'
           /\ InClient' = InClient /\ a \notin InClient
           /\ Turns'
<1>1. /\ apc \in {"free", "ready"} /\ apc' \in {"top", "nudge"}
      /\ act_grabbed' = act_grabbed /\ next_queued' = next_queued /\ pending' = pending
  BY DEF TaskFree, TaskReady, At, Go, device
<1>2. a # next_queued /\ a \notin ToSet(pending)
  BY <1>1 DEF IInv, Turns
<1>3. InHands = {b \in Buffers : b = next_queued \/ b = a}
  BY <1>1 DEF InHands, InTask, Delivered, At
<1>4. InHands' = {b \in Buffers : b = next_queued}
  BY <1>1 DEF InHands, InTask, Delivered, At
<1>5. InHands = InHands' \cup {a} /\ a \notin InHands'
  BY <1>2, <1>3, <1>4
<1>6. Turns'
  BY <1>1, <1>2, <1>5 DEF IInv, Turns
<1>7. Left = free_buffer /\ Left' = free_buffer'
  BY <1>1 DEF Left, Popping, At
<1>8. InClient' = InClient
  BY SameHeld DEF TaskFree, TaskReady, client
<1>9. QED
  BY <1>5, <1>6, <1>7, <1>8 DEF IInv, Spread

(* An unwanted buffer is given back. *)
LEMMA TaskFreeStep ==
    ASSUME IInv, TaskFree
    PROVE  IInv'
<1>1. TInv' /\ TInv
  BY TaskFreeType DEF IInv
<1>2. PICK a \in Buffers : a = act_grabbed
  BY <1>1 DEF TInv, Control, TaskFree, At
<1>3. /\ UNCHANGED client /\ lock_count' = lock_count /\ ready_buffer' = ready_buffer
      /\ images' = images /\ free_buffer' = <<a>> \o free_buffer
  BY <1>2 DEF TaskFree, GivenBack, device
<1>4. /\ InHands = InHands' \cup {a} /\ a \notin InHands'
      /\ a \notin ToSet(Left) \cup ToSet(ready_buffer) /\ Turns'
      /\ Left = free_buffer /\ Left' = free_buffer'
      /\ InClient' = InClient /\ a \notin InClient
  BY <1>2, GivingHands
<1>5. /\ ToSet(free_buffer') = {a} \cup ToSet(free_buffer)
      /\ IsInjective(free_buffer')
  <2>1. PICK q \in Seq(Buffers) : q = <<a>>
    <3>1. <<a>> \in Seq(Buffers)
      OBVIOUS
    <3>2. QED
      BY <3>1, Zenon
  <2>2. ToSet(q) = {a} /\ IsInjective(q)
    BY <2>1 DEF ToSet, IsInjective
  <2>3. free_buffer \in Seq(Buffers) /\ IsInjective(free_buffer)
    BY <1>1, <1>4 DEF TInv, TypeOK, IInv, Spread
  <2>4. ToSet(q) \cap ToSet(free_buffer) = {}
    BY <1>4, <2>2
  <2>5. /\ ToSet(q \o free_buffer) = ToSet(q) \cup ToSet(free_buffer)
        /\ IsInjective(q \o free_buffer)
    BY <2>2, <2>3, <2>4, ConcatSet
  <2>6. QED
    BY <1>3, <2>1, <2>2, <2>5
<1>6. Stored' = Stored
  BY <1>3, <1>4, <1>5 DEF Stored
<1>7. Spread'
  BY <1>3, <1>4, <1>5 DEF IInv, Spread
<1>8. QED
  BY <1>1, <1>3, <1>4, <1>6, <1>7, ThreadKeeps

(* A wanted one is made ready. *)
LEMMA TaskReadyStep ==
    ASSUME IInv, TaskReady
    PROVE  IInv'
<1>1. TInv' /\ TInv
  BY TaskReadyType DEF IInv
<1>2. PICK a \in Buffers : a = act_grabbed
  BY <1>1 DEF TInv, Control, TaskReady, At
<1>3. /\ UNCHANGED client /\ lock_count' = lock_count /\ free_buffer' = free_buffer
      /\ images' = images /\ ready_buffer' = Append(ready_buffer, a)
  BY <1>2 DEF TaskReady, device
<1>4. /\ InHands = InHands' \cup {a} /\ a \notin InHands'
      /\ a \notin ToSet(Left) \cup ToSet(ready_buffer) /\ Turns'
      /\ Left = free_buffer /\ Left' = free_buffer'
      /\ InClient' = InClient /\ a \notin InClient
  BY <1>2, GivingHands
<1>5. /\ ToSet(ready_buffer') = ToSet(ready_buffer) \cup {a}
      /\ IsInjective(ready_buffer')
  BY <1>1, <1>3, <1>4, AppendSet DEF TInv, TypeOK, IInv, Spread
<1>6. Stored' = Stored
  BY <1>3, <1>4, <1>5 DEF Stored
<1>7. Spread'
  BY <1>3, <1>4, <1>5 DEF IInv, Spread
<1>8. QED
  BY <1>1, <1>3, <1>4, <1>6, <1>7, ThreadKeeps

(* A frame is captured, into a buffer that is in the thread's hands and so *)
(* not the client's. *)
LEMMA CaptureStep ==
    ASSUME IInv, Capture
    PROVE  IInv'
<1>1. TInv' /\ TInv
  BY CaptureType DEF IInv
<1>2. /\ pending \in Seq(Buffers) /\ pending # <<>> /\ captured \in Nat
      /\ UNCHANGED <<client, read_buffer, deques, lock_count, task>>
  BY <1>1 DEF TInv, TypeOK, Capture, Grabber!Complete
<1>3. PICK h \in Buffers : h = Head(pending)
  BY <1>2, TailSet
<1>4. pending' = Tail(pending) /\ images' = [images EXCEPT ![h] = captured + 1]
  BY <1>3 DEF Capture, Grabber!Complete
<1>5. ToSet(pending) = ToSet(pending') \cup {h}
  BY <1>2, <1>3, <1>4, TailSet
<1>6. /\ free_buffer' = free_buffer /\ ready_buffer' = ready_buffer /\ lock_count' = lock_count
      /\ act_grabbed' = act_grabbed /\ next_queued' = next_queued /\ apc' = apc
  BY <1>2 DEF deques, task
<1>7. InHands' = InHands /\ Left' = Left /\ InClient' = InClient
  BY <1>2, <1>6, SameHands, SameHeld DEF Delivered, At, Left, Popping, client
<1>8. Stored' = Stored /\ Spread' /\ Turns'
  BY <1>5, <1>6, <1>7 DEF IInv, Stored, Spread, Turns
<1>9. h \in Stored
  BY <1>5 DEF IInv, Turns, Stored
<1>10. Phases'
  BY <1>2, <1>6, <1>8, SamePhase DEF IInv
<1>11. Given'
  <2>1. SUFFICES ASSUME ~InCall', result'.call # "none"
                 PROVE  /\ result'.buf \in Buffers /\ result'.buf \notin Ahead'
                        /\ lock_count'[result'.buf] > 0 => images'[result'.buf] = result'.stamp
    BY DEF Given
  <2>2. result' = result /\ Ahead' = Ahead /\ (InCall' <=> InCall)
    BY <1>2 DEF client, Ahead, InCall
  <2>3. PICK b \in Buffers : b = result.buf
    BY <2>1, <2>2 DEF IInv, Given
  <2>4. b \notin Ahead /\ (lock_count[b] > 0 => images[b] = result.stamp)
    BY <2>1, <2>2, <2>3 DEF IInv, Given
  <2>5. lock_count[b] > 0 => b # h
    <3>1. Counts(Ahead)
      BY <2>1, <2>2, PhaseOf DEF IInv, Idle
    <3>2. QED
      BY <1>9, <2>4, <3>1 DEF Counts
  <2>6. images \in [Buffers -> Nat]
    BY <1>1 DEF TInv, TypeOK
  <2>7. lock_count[b] > 0 => images'[b] = result.stamp
    BY <1>4, <2>4, <2>5, <2>6
  <2>8. QED
    BY <1>6, <2>2, <2>3, <2>4, <2>7
<1>12. QED
  BY <1>1, <1>8, <1>10, <1>11 DEF IInv

(* A stuttering step, or the overlap of two calls *)
LEMMA StandingStep ==
    ASSUME IInv, Standing
    PROVE  IInv'
<1>1. TInv'
  BY StandingType DEF IInv
<1>2. UNCHANGED <<client, read_buffer, deques, lock_count, task, device>>
  BY DEF Standing, DequeRace, vars
<1>3. InClient' = InClient
  BY <1>2, SameHeld DEF client
<1>4. Stored' = Stored /\ Spread' /\ Turns'
  BY <1>2, <1>3, SamePlaces DEF task, device
<1>5. QED
  BY <1>1, <1>2, <1>4, ThreadKeeps DEF device

(* Every step keeps the invariant. *)
LEMMA StepOK ==
    ASSUME NBuffers > 1
    PROVE  IInv /\ [Next]_vars => IInv'
<1> SUFFICES ASSUME IInv, [Next]_vars
             PROVE  IInv'
  OBVIOUS
<1>1. CASE Call \/ Client
  BY <1>1, CallStep, ReleaseStep, GiveStep, LockStep, NudgeStepOK, WaitingStepOK,
     WaitFrontStep, WaitPopStep, WaitPutBackStep, ReturnStep DEF Client, NudgeStep, WaitingStep
<1>2. CASE Task \/ SpuriousWakeup
  BY <1>2, FrontStep, PopStep, MovingStepOK, TaskFreeStep, TaskReadyStep DEF Task, MovingStep
<1>3. CASE Capture \/ DequeRace \/ UNCHANGED vars
  BY <1>3, CaptureStep, StandingStep DEF Standing
<1>4. QED
  BY <1>1, <1>2, <1>3 DEF Next

(* The constructor: every buffer is free, none is locked. *)
LEMMA InitOK == Init => IInv
<1> SUFFICES ASSUME Init
             PROVE  IInv
  OBVIOUS
<1>1. TInv
  BY InitType
<1>2. PICK n \in Nat : n = NBuffers
  BY RingAssumption
<1>3. /\ free_buffer = [i \in 1..n |-> i - 1] /\ ready_buffer = <<>> /\ pending = <<>>
      /\ lock_count = [b \in Buffers |-> 0] /\ apc = "begin"
      /\ act_grabbed = NoBuffer /\ next_queued = NoBuffer
  BY <1>2 DEF Init, Grabber!Init
<1>4. Buffers = 0..(n - 1)
  BY <1>2 DEF Buffers
<1>5. ToSet(free_buffer) = Buffers
  <2>1. ToSet(free_buffer) \subseteq Buffers
    BY <1>3, <1>4 DEF ToSet
  <2>2. ASSUME NEW b \in Buffers PROVE b \in ToSet(free_buffer)
    <3>1. b + 1 \in 1..n /\ b = (b + 1) - 1
      BY <1>4, <2>2
    <3>2. QED
      BY <1>3, <3>1 DEF ToSet
  <2>3. QED
    BY <2>1, <2>2
<1>6. IsInjective(free_buffer)
  BY <1>3 DEF IsInjective
<1>7. ToSet(ready_buffer) = {} /\ IsInjective(ready_buffer) /\ ToSet(pending) = {}
  BY <1>3 DEF ToSet, IsInjective
<1>8. InHands = {} /\ InClient = {} /\ Left = free_buffer
  <2>1. InHands = {}
    BY <1>3, <1>4 DEF InHands, InTask, Delivered, At, NoBuffer
  <2>2. InClient = {}
    BY NotHolding DEF Init, ClientInit, Doing
  <2>3. QED
    BY <1>3, <2>1, <2>2 DEF Left, Popping, At
<1>9. Spread /\ Turns
  BY <1>3, <1>5, <1>6, <1>7, <1>8 DEF Spread, Turns
<1>10. Counts({})
  BY <1>3, <1>5, <1>8 DEF Counts, Stored
<1>11. ~InCall /\ capture_mode = "MODE_CAP_SINGLE" /\ result.call = "none"
  BY DEF Init, ClientInit, InCall
<1>12. Idle
  BY <1>10, <1>11 DEF Idle, Ahead
<1>13. Given
  BY <1>11 DEF Given
<1>14. QED
  BY <1>1, <1>9, <1>12, <1>13 DEF IInv, Phases

(* The conservation of the buffers, from where they are *)
LEMMA InvConserves == IInv => Conservation
<1> SUFFICES ASSUME IInv
             PROVE  Conservation
  OBVIOUS
<1>1. IsInjective(Left) /\ IsInjective(ready_buffer)
  BY DEF IInv, Spread
<1>2. ASSUME NEW b \in Buffers
      PROVE  (\E p \in Place(b) : Place(b) = {p}) \/ (Place(b) = {} /\ lock_count[b] = 1)
  <2> DEFINE F == {<<"free", i>> : i \in {j \in DOMAIN Left : Left[j] = b}}
             R == {<<"ready", i>> : i \in {j \in DOMAIN ready_buffer : ready_buffer[j] = b}}
             T == IF InTask(b) THEN {<<"task", 0>>} ELSE {}
             H == IF Held(b) THEN {<<"held", 0>>} ELSE {}
  <2>1. Place(b) = F \cup R \cup T \cup H
    BY DEF Place
  <2>2. /\ b \notin ToSet(Left) => F = {}
        /\ b \in ToSet(Left) => \E i : F = {<<"free", i>>}
    BY <1>1, OnePlace
  <2>3. /\ b \notin ToSet(ready_buffer) => R = {}
        /\ b \in ToSet(ready_buffer) => \E i : R = {<<"ready", i>>}
    BY <1>1, OnePlace
  <2>4. /\ b \notin InHands => T = {}
        /\ b \in InHands => T = {<<"task", 0>>}
        /\ b \notin InClient => H = {}
        /\ b \in InClient => H = {<<"held", 0>>}
    BY DEF InHands, InClient
  <2>5. /\ b \in ToSet(Left) => b \notin ToSet(ready_buffer) /\ b \notin InHands
        /\ b \in ToSet(ready_buffer) => b \notin InHands
        /\ b \in InClient => /\ b \notin ToSet(Left) /\ b \notin ToSet(ready_buffer)
                             /\ b \notin InHands
    BY DEF IInv, Spread
  <2> HIDE DEF F, R, T, H
  <2>6. CASE b \in Stored
    <3>1. \E p : F \cup R \cup T \cup H = {p}
      <4>1. CASE b \in ToSet(Left)
        BY <2>2, <2>3, <2>4, <2>5, <4>1
      <4>2. CASE b \in ToSet(ready_buffer)
        BY <2>2, <2>3, <2>4, <2>5, <4>2
      <4>3. CASE b \in InHands
        BY <2>2, <2>3, <2>4, <2>5, <4>3
      <4>4. CASE b \in InClient
        BY <2>2, <2>3, <2>4, <2>5, <4>4
      <4>5. QED
        BY <2>6, <4>1, <4>2, <4>3, <4>4 DEF Stored
    <3>2. QED
      BY <2>1, <3>1
  <2>7. CASE b \notin Stored
    <3>1. Place(b) = {}
      BY <2>1, <2>2, <2>3, <2>4, <2>7 DEF Stored
    <3>2. lock_count[b] = 1
      <4>1. \E A : Counts(A)
        BY DEF IInv, Phases, Idle, Polling, Continuing, Scheduling
      <4>2. QED
        BY <2>7, <4>1 DEF Counts
    <3>3. QED
      BY <3>1, <3>2
  <2>8. QED
    BY <2>6, <2>7
<1>3. \A i \in DOMAIN pending : InTask(pending[i])
  BY DEF IInv, Turns, InHands, ToSet
<1>4. QED
  BY <1>2, <1>3 DEF Conservation

(* With two buffers or more, none of them is lost, doubled, or captured    *)
(* into while it is the client's, in whatever order the client's calls,    *)
(* the thread's and the broadcasts come, until two calls on the same deque *)
(* overlap. *)
THEOREM BuffersConserved ==
    ASSUME NBuffers > 1
    PROVE  Spec => []Conservation
<1>1. Init => IInv
  BY InitOK
<1>2. IInv /\ [Next]_vars => IInv'
  BY StepOK
<1>3. IInv => Conservation
  BY InvConserves
<1>4. QED
  BY <1>1, <1>2, <1>3, PTL DEF Spec

(* Until then the frame that the client was given is not overwritten       *)
(* before its next call either. *)
THEOREM FramesStable ==
    ASSUME NBuffers > 1
    PROVE  Spec => []HandedOutStable
<1>1. Init => IInv
  BY InitOK
<1>2. IInv /\ [Next]_vars => IInv'
  BY StepOK
<1>3. IInv => HandedOutStable
  BY DEF IInv, Given, HandedOutStable
<1>4. QED
  BY <1>1, <1>2, <1>3, PTL DEF Spec
=============================================================================
