-------------------------- MODULE GrabThread_proofs --------------------------
(* Theorems about GrabThread, for every ring, any number of calls, both    *)
(* ways the thread ends, and with the unlocked reads of the list.          *)
EXTENDS GrabThread, VideoClient_proofs, SequenceTheorems

-----------------------------------------------------------------------------
(* Type correctness *)

(* A ring has a first buffer.                                              *)
LEMMA ZeroInRing == 0 \in Buffers
  BY RingAssumption DEF Buffers

(* The step a call is at names a buffer of the ring.                       *)
LEMMA HeadType == ClientOK /\ InCall => Head(todo) \in Step /\ Head(todo).buf \in Buffers
<1> SUFFICES ASSUME ClientOK, InCall
             PROVE  Head(todo) \in Step /\ Head(todo).buf \in Buffers
  OBVIOUS
<1>1. Head(todo) \in Step
  BY DEF ClientOK, InCall
<1>2. QED
  BY <1>1 DEF Step

(* current_frame_continuous() plans legal calls of the hardware.           *)
LEMMA CurrentFrameContinuousPlans ==
    CurrentFrameContinuous => todo' \in Seq(PlanStep)
<1>1. Do("return", 0, "current") \in PlanStep /\ Do("initiate", 0, "current") \in PlanStep
      /\ Do("wait", 0, "current") \in PlanStep
  BY ZeroInRing, DoType DEF Calls
<1>2. 1 \in Buffers => Do("initiate", 1, "current") \in PlanStep
  BY DoType DEF Calls
<1>3. QED
  BY <1>1, <1>2 DEF CurrentFrameContinuous

(* current_frame_continuous() keeps the client well typed.                 *)
LEMMA CurrentFrameContinuousType == ClientOK /\ CurrentFrameContinuous => ClientOK'
<1> SUFFICES ASSUME ClientOK, CurrentFrameContinuous
             PROVE  ClientOK'
  OBVIOUS
<1>1. todo' \in Seq(Step) /\ (todo' # <<>> => Tail(todo') \in Seq(PlanStep))
  BY CurrentFrameContinuousPlans, PlanIsOK
<1>2. QED
  BY <1>1 DEF ClientOK, CurrentFrameContinuous, Begin, InCall

(* Every step keeps the client well typed.                                 *)
LEMMA ClientStep == ClientOK /\ [Next]_vars => ClientOK'
<1> SUFFICES ASSUME ClientOK, [Next]_vars
             PROVE  ClientOK'
  OBVIOUS
<1>1. CASE UNCHANGED client
  BY <1>1 DEF client, ClientOK, InCall
<1>2. CASE Call
  BY <1>2, BeginCallType, CurrentFrameContinuousType DEF Call
<1>3. CASE InitiateLock
  BY <1>3, BecomesType DEF InitiateLock, Doing, InCall, Ops
<1>4. CASE InitiatePush
  BY <1>4, DoneType DEF InitiatePush, Doing, InCall
<1>5. CASE WaitForCompletion
  BY <1>5, DoneType DEF WaitForCompletion, Doing, InCall
<1>6. CASE ReturnFrame
  BY <1>6, ReturnType DEF ReturnFrame
<1>7. QED
  BY <1>1, <1>2, <1>3, <1>4, <1>5, <1>6
     DEF Next, Client, Grabber, vars, InitiateHook, Delete, DeleteLater, DeleteJoined,
         GrabTest, GrabLook, GrabPop, GrabFill, GrabUnlock

(* pop_back() only takes what the list holds.                              *)
LEMMA OldestType ==
    ASSUME requests \in Seq(Buffers), linking \in BOOLEAN, requests # <<>> \/ linking
    PROVE  OldestRequest \in Buffers
  BY ZeroInRing DEF OldestRequest, Last

(* What keeps pop_back() from an empty list: a node is half linked only    *)
(* while its buffer is being pushed, and the thread that has seen a node   *)
(* is the only one that takes nodes away.                                  *)
Links ==
    /\ linking => Doing("push") /\ requests = <<>>
    /\ gpc = "pop" => linking \/ requests # <<>>

Types == TypeOK /\ Links

(* push_front() keeps the list a list of buffers.                          *)
LEMMA PushFrontType ==
    ASSUME requests \in Seq(Buffers), NEW b \in Buffers
    PROVE  PushFront(b) \in Seq(Buffers) /\ PushFront(b) # <<>>
  BY DEF PushFront

(* Taking the oldest request off leaves a list of buffers.                 *)
LEMMA FrontType ==
    ASSUME requests \in Seq(Buffers), requests # <<>>
    PROVE  Front(requests) \in Seq(Buffers)
  BY DEF Front

(* The constructor establishes the types.                                  *)
LEMMA InitTypes == Init => Types
<1> SUFFICES ASSUME Init
             PROVE  Types
  OBVIOUS
<1>1. ClientOK
  BY ClientInitType DEF Init
<1>2. ResultOK
  BY ZeroInRing DEF Init, ClientInit, ResultOK, Calls
<1>3. SharedOK /\ GrabberOK /\ EndingOK
  BY ZeroInRing DEF Init, SharedOK, GrabberOK, EndingOK
<1>4. Links
  BY DEF Init, Links
<1>5. QED
  BY <1>1, <1>2, <1>3, <1>4 DEF Types, TypeOK

(* What a call returns is a buffer and a frame number.                     *)
LEMMA ResultStep == ClientOK /\ ResultOK /\ GrabberOK /\ [Next]_vars => ResultOK'
<1> SUFFICES ASSUME ClientOK, ResultOK, GrabberOK, [Next]_vars
             PROVE  ResultOK'
  OBVIOUS
<1>1. CASE UNCHANGED result
  BY <1>1 DEF ResultOK
<1>2. CASE ReturnFrame
  <2>1. Head(todo) \in Step
    BY <1>2, HeadType DEF ReturnFrame, Doing, InCall
  <2>2. /\ Head(todo).call \in Calls /\ Head(todo).buf \in Buffers
        /\ images[Head(todo).buf] \in Nat
    BY <2>1 DEF Step, GrabberOK
  <2>3. QED
    BY <1>2, <2>2 DEF ReturnFrame, Return, ResultOK
<1>3. QED
  BY <1>1, <1>2
     DEF Next, Call, Client, Grabber, vars, client, BeginCall, NextFrameContinuous,
         NextFramePoll, RequestFramePoll, Poll, Begin, CurrentFrameContinuous,
         InitiateLock, InitiateHook, InitiatePush, WaitForCompletion, Becomes, Done,
         Delete, DeleteLater, DeleteJoined, GrabTest, GrabLook, GrabPop, GrabFill, GrabUnlock

(* The list, the mutexes and the counters stay well typed; the type of the *)
(* list needs the fact that a node is linked only while a push runs.       *)
LEMMA SharedStep == ClientOK /\ SharedOK /\ GrabberOK /\ Links /\ [Next]_vars => SharedOK'
<1> SUFFICES ASSUME ClientOK, SharedOK, GrabberOK, Links, [Next]_vars
             PROVE  SharedOK'
  OBVIOUS
<1>1. CASE UNCHANGED shared
  BY <1>1 DEF shared, SharedOK
<1>2. CASE InitiateLock
  BY <1>2 DEF InitiateLock, SharedOK
<1>3. CASE InitiateHook
  BY <1>3 DEF InitiateHook, SharedOK
<1>4. CASE InitiatePush
  BY <1>4, HeadType, PushFrontType DEF InitiatePush, Doing, InCall, SharedOK
<1>5. CASE GrabPop
  BY <1>5, FrontType DEF GrabPop, Links, SharedOK
<1>6. CASE GrabUnlock
  BY <1>6 DEF GrabUnlock, Served, SharedOK
<1>7. QED
  BY <1>1, <1>2, <1>3, <1>4, <1>5, <1>6
     DEF Next, Call, Client, Grabber, vars, CurrentFrameContinuous,
         WaitForCompletion, ReturnFrame, Delete, DeleteLater, DeleteJoined, GrabTest, GrabLook,
         GrabFill

(* The grab thread stays well typed.                                       *)
LEMMA GrabberStep == SharedOK /\ GrabberOK /\ [Next]_vars => GrabberOK'
<1> SUFFICES ASSUME SharedOK, GrabberOK, [Next]_vars
             PROVE  GrabberOK'
  OBVIOUS
<1>1. CASE UNCHANGED grabber
  BY <1>1 DEF grabber, GrabberOK
<1>2. CASE GrabTest
  BY <1>2 DEF GrabTest, GrabberOK
<1>3. CASE GrabLook
  BY <1>3, OldestType DEF GrabLook, GrabberOK, SharedOK
<1>4. CASE GrabPop
  BY <1>4 DEF GrabPop, GrabberOK
<1>5. CASE GrabFill
  BY <1>5 DEF GrabFill, GrabberOK
<1>6. CASE GrabUnlock
  BY <1>6 DEF GrabUnlock, GrabberOK
<1>7. QED
  BY <1>1, <1>2, <1>3, <1>4, <1>5, <1>6
     DEF Next, Call, Client, Grabber, vars, CurrentFrameContinuous, InitiateLock,
         InitiateHook, InitiatePush, WaitForCompletion, ReturnFrame, Delete, DeleteLater,
         DeleteJoined

(* The destructor stays well typed.                                        *)
LEMMA EndingStep == EndingOK /\ [Next]_vars => EndingOK'
<1> SUFFICES ASSUME EndingOK, [Next]_vars
             PROVE  EndingOK'
  OBVIOUS
<1>1. CASE UNCHANGED <<ending, nowait_flag>>
  BY <1>1 DEF ending, EndingOK
<1>2. CASE CurrentFrameContinuous
  BY <1>2 DEF CurrentFrameContinuous, ending, EndingOK
<1>3. CASE Delete \/ DeleteLater
  BY <1>3, GrabAssumption DEF Delete, DeleteLater, StopRequest, EndingOK
<1>4. CASE DeleteJoined
  BY <1>4 DEF DeleteJoined, EndingOK
<1>5. QED
  BY <1>1, <1>2, <1>3, <1>4
     DEF Next, Call, Client, Grabber, vars, InitiateLock, InitiateHook, InitiatePush,
         WaitForCompletion, ReturnFrame, GrabTest, GrabLook, GrabPop, GrabFill,
         GrabUnlock

(* A list is half linked only inside initiate_acquire.                     *)
LEMMA LinksStep == SharedOK /\ Links /\ [Next]_vars => Links'
<1> SUFFICES ASSUME SharedOK, Links, [Next]_vars
             PROVE  Links'
  OBVIOUS
<1>1. CASE UNCHANGED <<todo, shared, gpc>>
  BY <1>1 DEF shared, Links, Doing
<1>2. CASE UNCHANGED <<shared, gpc>> /\ ~linking
  BY <1>2 DEF shared, Links
<1>3. CASE InitiateHook
  BY <1>3 DEF InitiateHook, Links, Doing, client
<1>4. CASE InitiatePush
  BY <1>4 DEF InitiatePush, PushFront, Links, grabber, SharedOK
<1>5. CASE GrabLook
  BY <1>5 DEF GrabLook, Links, Doing, shared, client
<1>6. CASE GrabPop
  BY <1>6 DEF GrabPop, Links
<1>7. CASE GrabTest \/ GrabFill \/ GrabUnlock
  BY <1>7 DEF GrabTest, GrabFill, GrabUnlock, Links, Doing, shared, client
<1>8. CASE InitiateLock
  BY <1>8 DEF InitiateLock, Links, Doing, grabber
<1>9. CASE WaitForCompletion \/ ReturnFrame \/ Call
  BY <1>2, <1>9
     DEF WaitForCompletion, ReturnFrame, Call, BeginCall, CurrentFrameContinuous,
         NextFrameContinuous, NextFramePoll, RequestFramePoll, Poll, Begin, Return,
         Doing, Links, shared, grabber
<1>10. CASE Delete \/ DeleteLater \/ DeleteJoined \/ UNCHANGED vars
  BY <1>1, <1>10 DEF Delete, DeleteLater, DeleteJoined, vars, client, grabber
<1>11. QED
  BY <1>3, <1>4, <1>5, <1>6, <1>7, <1>8, <1>9, <1>10 DEF Next, Client, Grabber

(* All types together are kept by every step.                              *)
LEMMA TypesStep == Types /\ [Next]_vars => Types'
  BY ClientStep, ResultStep, SharedStep, GrabberStep, EndingStep, LinksStep
     DEF Types, TypeOK

(* Every variable of the client, the shared list and the grab thread keeps *)
(* its type, with torn reads and without.                                  *)
THEOREM TypeCorrect == Spec => []TypeOK
<1>1. Types => TypeOK
  BY DEF Types
<1>2. QED
  BY <1>1, InitTypes, TypesStep, PTL DEF Spec
-----------------------------------------------------------------------------
(* The semaphores *)

(* push_front() adds its buffer and changes neither the others nor, unless *)
(* the list was empty, its last element.                                   *)
LEMMA PushFrontQueued ==
    ASSUME requests \in Seq(Buffers), NEW b \in Buffers
    PROVE  /\ \A c \in Buffers :
                 (\E i \in DOMAIN PushFront(b) : PushFront(b)[i] = c) <=> c = b \/ Queued(c)
           /\ requests # <<>> => Last(PushFront(b)) = Last(requests)
<1> DEFINE r == PushFront(b)
<1>1. /\ Len(r) = Len(requests) + 1
      /\ r[1] = b
      /\ \A i \in 1..Len(requests) : r[i + 1] = requests[i]
      /\ \A i \in 2..Len(r) : r[i] = requests[i - 1]
      /\ r \in Seq(Buffers)
  BY DEF PushFront
<1> HIDE DEF r
<1>2. ASSUME NEW c \in Buffers
      PROVE  (\E i \in DOMAIN r : r[i] = c) <=> c = b \/ Queued(c)
  <2>1. ASSUME NEW i \in DOMAIN r, r[i] = c
        PROVE  c = b \/ Queued(c)
    <3>1. CASE i = 1
      BY <1>1, <2>1, <3>1
    <3>2. CASE i # 1
      <4>1. i \in 2..Len(r) /\ i - 1 \in 1..Len(requests)
        BY <1>1, <2>1, <3>2
      <4>2. QED
        BY <1>1, <2>1, <4>1 DEF Queued
    <3>3. QED
      BY <3>1, <3>2
  <2>2. ASSUME c = b
        PROVE  \E i \in DOMAIN r : r[i] = c
    <3>1. 1 \in DOMAIN r
      BY <1>1
    <3>2. QED
      BY <1>1, <2>2, <3>1
  <2>3. ASSUME Queued(c)
        PROVE  \E i \in DOMAIN r : r[i] = c
    <3>1. PICK j \in DOMAIN requests : requests[j] = c
      BY <2>3 DEF Queued
    <3>2. j \in 1..Len(requests) /\ j + 1 \in DOMAIN r
      BY <1>1, <3>1
    <3>3. QED
      BY <1>1, <3>1, <3>2
  <2>4. QED
    BY <2>1, <2>2, <2>3
<1>3. ASSUME requests # <<>>
      PROVE  Last(r) = Last(requests)
  <2>1. Len(requests) \in 1..Len(requests) /\ Len(r) = Len(requests) + 1
    BY <1>1, <1>3
  <2>2. QED
    BY <1>1, <2>1 DEF Last
<1>4. QED
  BY <1>2, <1>3 DEF r

NoRepeats(s) == \A i, j \in DOMAIN s : i # j => s[i] # s[j]

(* Pushing a buffer that is not in the list keeps its buffers distinct.    *)
LEMMA PushFrontNoRepeats ==
    ASSUME requests \in Seq(Buffers), NEW b \in Buffers,
           ~Queued(b), NoRepeats(requests)
    PROVE  NoRepeats(PushFront(b))
<1> DEFINE r == PushFront(b)
<1>1. /\ Len(r) = Len(requests) + 1
      /\ r[1] = b
      /\ \A i \in 2..Len(r) : i - 1 \in DOMAIN requests /\ r[i] = requests[i - 1]
      /\ DOMAIN r = 1..Len(r)
  BY DEF PushFront
<1> HIDE DEF r
<1>2. ASSUME NEW i \in DOMAIN r, NEW j \in DOMAIN r, i # j
      PROVE  r[i] # r[j]
  <2>1. CASE i = 1
    <3>1. j \in 2..Len(r)
      BY <1>1, <1>2, <2>1
    <3>2. QED
      BY <1>1, <2>1, <3>1 DEF Queued
  <2>2. CASE j = 1
    <3>1. i \in 2..Len(r)
      BY <1>1, <1>2, <2>2
    <3>2. QED
      BY <1>1, <2>2, <3>1 DEF Queued
  <2>3. CASE i # 1 /\ j # 1
    <3>1. i \in 2..Len(r) /\ j \in 2..Len(r) /\ i - 1 # j - 1
      BY <1>1, <1>2, <2>3
    <3>2. QED
      BY <1>1, <3>1 DEF NoRepeats
  <2>4. QED
    BY <2>1, <2>2, <2>3
<1>3. QED
  BY <1>2 DEF NoRepeats, r

(* pop_back() takes the last element and leaves the others.                *)
LEMMA PopBackQueued ==
    ASSUME requests \in Seq(Buffers), requests # <<>>, NoRepeats(requests)
    PROVE  /\ \A c \in Buffers :
                 (\E i \in DOMAIN Front(requests) : Front(requests)[i] = c)
                    <=> Queued(c) /\ c # Last(requests)
           /\ NoRepeats(Front(requests))
           /\ Queued(Last(requests))
<1> DEFINE r == Front(requests)
           n == Len(requests)
<1>1. /\ n \in Nat \ {0} /\ DOMAIN requests = 1..n
      /\ DOMAIN r = 1..(n - 1)
      /\ \A i \in 1..(n - 1) : r[i] = requests[i]
      /\ Last(requests) = requests[n]
  BY DEF Front, Last
<1> HIDE DEF r, n
<1>2. ASSUME NEW c \in Buffers
      PROVE  (\E i \in DOMAIN r : r[i] = c) <=> Queued(c) /\ c # Last(requests)
  <2>1. ASSUME NEW i \in DOMAIN r, r[i] = c
        PROVE  Queued(c) /\ c # Last(requests)
    <3>1. i \in DOMAIN requests /\ n \in DOMAIN requests /\ i # n /\ requests[i] = c
      BY <1>1, <2>1
    <3>2. QED
      BY <1>1, <3>1 DEF Queued, NoRepeats
  <2>2. ASSUME Queued(c), c # Last(requests)
        PROVE  \E i \in DOMAIN r : r[i] = c
    <3>1. PICK i \in DOMAIN requests : requests[i] = c
      BY <2>2 DEF Queued
    <3>2. i \in DOMAIN r /\ r[i] = c
      BY <1>1, <2>2, <3>1
    <3>3. QED
      BY <3>2
  <2>3. QED
    BY <2>1, <2>2
<1>3. NoRepeats(r)
  <2>1. \A i \in DOMAIN r : i \in DOMAIN requests /\ r[i] = requests[i]
    BY <1>1
  <2>2. QED
    BY <2>1 DEF NoRepeats
<1>4. Queued(Last(requests))
  <2>1. n \in DOMAIN requests
    BY <1>1
  <2>2. QED
    BY <1>1, <2>1 DEF Queued
<1>5. QED
  BY <1>2, <1>3, <1>4 DEF r

(* What holds until a half linked list has been read *)
Balance == ~torn => OneUnlockOwed /\ PopsWhatItRead
IInv == Types /\ Balance

(* A step that leaves the list, the mutexes and the grab thread alone, and *)
(* pushes the same buffer as before                                        *)
LEMMA BalanceStutter ==
    ASSUME Balance, UNCHANGED <<wait_grab, requests, gpc, i_frame, torn>>,
           \A b \in Buffers : Pushing(b)' <=> Pushing(b)
    PROVE  Balance'
  BY DEF Balance, OneUnlockOwed, PopsWhatItRead, Queued, InGrab

(* A call that begins is a plan.                                           *)
LEMMA CallPlans == ClientOK /\ Call => todo' \in Seq(PlanStep)
  BY BeginCallPlans, CurrentFrameContinuousPlans DEF Call

(* A call that has finished its step pushes nothing.                       *)
LEMMA DoneNothingPushed ==
    ASSUME ClientOK, InCall, todo' = Tail(todo)
    PROVE  \A b \in Buffers : ~Pushing(b)'
<1>1. todo' \in Seq(PlanStep)
  BY DEF ClientOK
<1>2. todo' # <<>> => Head(todo') \in PlanStep
  BY <1>1
<1>3. QED
  BY <1>2 DEF Pushing, Doing, PlanStep

(* Locking the mutex of a buffer makes its push the holder of the unlock.  *)
LEMMA BalanceLock == Types /\ Balance /\ InitiateLock => Balance'
<1> SUFFICES ASSUME Types, Balance, InitiateLock, ~torn'
             PROVE  (OneUnlockOwed /\ PopsWhatItRead)'
  BY DEF Balance
<1>0. ~torn
  BY DEF InitiateLock, grabber
<1>1. OneUnlockOwed /\ PopsWhatItRead
  BY <1>0 DEF Balance
<1> DEFINE b0 == Head(todo).buf
<1>2. b0 \in Buffers /\ ~wait_grab[b0] /\ wait_grab \in [Buffers -> BOOLEAN]
  BY HeadType DEF InitiateLock, Doing, InCall, Unlocked, Types, TypeOK, SharedOK
<1>3. /\ wait_grab' = [wait_grab EXCEPT ![b0] = TRUE]
      /\ requests' = requests /\ gpc' = gpc /\ i_frame' = i_frame
  BY DEF InitiateLock, grabber
<1>4. todo' # <<>> /\ Head(todo') = Do("push", b0, Head(todo).call)
  BY DEF InitiateLock, Becomes
<1>5. \A b \in Buffers : Pushing(b)' <=> b = b0
  BY <1>4 DEF Pushing, Doing, Do
<1>6. \A b \in Buffers : ~Pushing(b)
  BY DEF InitiateLock, Pushing, Doing
<1>7. ~Queued(b0) /\ ~InGrab(b0)
  BY <1>1, <1>2 DEF OneUnlockOwed
<1> HIDE DEF b0
<1>8. QED
  BY <1>1, <1>2, <1>3, <1>5, <1>6, <1>7
     DEF OneUnlockOwed, PopsWhatItRead, Queued, InGrab

(* The push hands the unlock over to the list.                             *)
LEMMA BalancePush == Types /\ Balance /\ InitiatePush => Balance'
<1> SUFFICES ASSUME Types, Balance, InitiatePush, ~torn'
             PROVE  (OneUnlockOwed /\ PopsWhatItRead)'
  BY DEF Balance
<1>0. ~torn
  BY DEF InitiatePush, grabber
<1>1. OneUnlockOwed /\ PopsWhatItRead
  BY <1>0 DEF Balance
<1> DEFINE b0 == Head(todo).buf
<1>2. b0 \in Buffers /\ Pushing(b0) /\ requests \in Seq(Buffers)
  BY HeadType DEF InitiatePush, Doing, InCall, Types, TypeOK, SharedOK, Pushing
<1>3. /\ requests' = PushFront(b0)
      /\ wait_grab' = wait_grab /\ gpc' = gpc /\ i_frame' = i_frame
  BY DEF InitiatePush, grabber
<1>4. \A b \in Buffers : Pushing(b) <=> b = b0
  BY <1>2 DEF Pushing
<1>5. \A b \in Buffers : ~Pushing(b)'
  BY DoneNothingPushed DEF InitiatePush, Done, Doing, InCall, Types, TypeOK
<1>6. ~Queued(b0) /\ ~InGrab(b0) /\ NoRepeats(requests)
  BY <1>1, <1>2 DEF OneUnlockOwed, NoRepeats
<1> HIDE DEF b0
<1>7. \A b \in Buffers : Queued(b)' <=> b = b0 \/ Queued(b)
  BY <1>2, <1>3, PushFrontQueued DEF Queued
<1>8. NoRepeats(requests')
  BY <1>2, <1>3, <1>6, PushFrontNoRepeats
<1>9. PopsWhatItRead'
  BY <1>1, <1>2, <1>3, PushFrontQueued, PushFrontType DEF PopsWhatItRead
<1>10. \A b \in Buffers : InGrab(b)' <=> InGrab(b)
  BY <1>3 DEF InGrab
<1>11. OneUnlockOwed'
  BY <1>1, <1>3, <1>4, <1>5, <1>6, <1>7, <1>8, <1>10 DEF OneUnlockOwed, NoRepeats
<1>12. QED
  BY <1>9, <1>11

(* Reading the oldest request moves no unlock.                             *)
LEMMA BalanceLook == Types /\ Balance /\ GrabLook => Balance'
<1> SUFFICES ASSUME Types, Balance, GrabLook, ~torn'
             PROVE  (OneUnlockOwed /\ PopsWhatItRead)'
  BY DEF Balance
<1>0. ~torn /\ ~linking
  BY DEF GrabLook, Types, TypeOK, GrabberOK, SharedOK
<1>1. OneUnlockOwed
  BY <1>0 DEF Balance
<1>2. requests' = requests /\ wait_grab' = wait_grab /\ todo' = todo
  BY DEF GrabLook, shared, client
<1>3. \A b \in Buffers : ~InGrab(b) /\ ~InGrab(b)'
  BY DEF GrabLook, InGrab
<1>4. PopsWhatItRead'
  BY <1>0, <1>2 DEF GrabLook, PopsWhatItRead, OldestRequest
<1>5. QED
  BY <1>1, <1>2, <1>3, <1>4 DEF OneUnlockOwed, Pushing, Doing, Queued

(* The grab thread takes the unlock over from the list.                    *)
LEMMA BalancePop == Types /\ Balance /\ GrabPop => Balance'
<1> SUFFICES ASSUME Types, Balance, GrabPop, ~torn'
             PROVE  (OneUnlockOwed /\ PopsWhatItRead)'
  BY DEF Balance
<1>0. ~torn
  BY DEF GrabPop
<1>1. OneUnlockOwed /\ PopsWhatItRead
  BY <1>0 DEF Balance
<1>2. requests # <<>> /\ Last(requests) = i_frame /\ NoRepeats(requests)
  BY <1>1 DEF PopsWhatItRead, OneUnlockOwed, GrabPop, NoRepeats
<1>3. requests \in Seq(Buffers) /\ i_frame \in Buffers
  BY DEF Types, TypeOK, SharedOK, GrabberOK
<1>4. /\ requests' = Front(requests) /\ gpc' = "fill" /\ i_frame' = i_frame
      /\ wait_grab' = wait_grab /\ todo' = todo
  BY DEF GrabPop, client
<1>5. \A b \in Buffers : Queued(b)' <=> Queued(b) /\ b # i_frame
  BY <1>2, <1>3, <1>4, PopBackQueued DEF Queued
<1>6. NoRepeats(requests') /\ Queued(i_frame)
  BY <1>2, <1>3, <1>4, PopBackQueued
<1>7. \A b \in Buffers : (InGrab(b)' <=> b = i_frame) /\ ~InGrab(b)
  BY <1>4 DEF InGrab, GrabPop
<1>8. \A b \in Buffers : Pushing(b)' <=> Pushing(b)
  BY <1>4 DEF Pushing, Doing
<1>9. OneUnlockOwed'
  BY <1>1, <1>3, <1>4, <1>5, <1>6, <1>7, <1>8 DEF OneUnlockOwed, NoRepeats
<1>10. QED
  BY <1>4, <1>9 DEF PopsWhatItRead

(* The grab thread pays the unlock.                                        *)
LEMMA BalanceUnlock == Types /\ Balance /\ GrabUnlock => Balance'
<1> SUFFICES ASSUME Types, Balance, GrabUnlock, ~torn'
             PROVE  (OneUnlockOwed /\ PopsWhatItRead)'
  BY DEF Balance
<1>0. ~torn
  BY DEF GrabUnlock
<1>1. OneUnlockOwed
  BY <1>0 DEF Balance
<1>2. /\ wait_grab \in [Buffers -> BOOLEAN] /\ i_frame \in Buffers
      /\ wait_grab' = [wait_grab EXCEPT ![i_frame] = FALSE]
  BY DEF Types, TypeOK, SharedOK, GrabberOK, GrabUnlock, Served
<1>3. requests' = requests /\ todo' = todo /\ gpc' = "test" /\ gpc = "unlock"
  BY DEF GrabUnlock, client
<1>4. QED
  BY <1>1, <1>2, <1>3
     DEF OneUnlockOwed, PopsWhatItRead, Pushing, Doing, Queued, InGrab

(* No step loses or duplicates an unlock.                                  *)
LEMMA BalanceStep == Types /\ Balance /\ [Next]_vars => Balance'
<1> SUFFICES ASSUME Types, Balance, [Next]_vars
             PROVE  Balance'
  OBVIOUS
<1>1. CASE Call
  <2>1. todo = <<>> /\ UNCHANGED <<shared, grabber>>
    BY <1>1 DEF Call, BeginCall, NextFrameContinuous, NextFramePoll,
                RequestFramePoll, Poll, Begin, CurrentFrameContinuous
  <2>2. \A b \in Buffers : ~Pushing(b)
    BY <2>1 DEF Pushing, Doing
  <2>3. todo' \in Seq(PlanStep)
    BY <1>1, CallPlans DEF Types, TypeOK
  <2>4. \A b \in Buffers : ~Pushing(b)'
    <3>1. todo' # <<>> => Head(todo') \in PlanStep
      BY <2>3
    <3>2. QED
      BY <3>1 DEF Pushing, Doing, PlanStep
  <2>5. QED
    BY <2>1, <2>2, <2>4, BalanceStutter DEF shared, grabber
<1>2. CASE InitiateLock
  BY <1>2, BalanceLock
<1>3. CASE InitiateHook
  BY <1>3, BalanceStutter DEF InitiateHook, client, grabber, Pushing, Doing
<1>4. CASE InitiatePush
  BY <1>4, BalancePush
<1>5. CASE WaitForCompletion \/ ReturnFrame
  <2>1. /\ InCall /\ todo' = Tail(todo) /\ UNCHANGED <<shared, grabber>>
        /\ \A b \in Buffers : ~Pushing(b)
    BY <1>5 DEF WaitForCompletion, ReturnFrame, Done, Return, Doing, InCall, Pushing
  <2>2. \A b \in Buffers : ~Pushing(b)'
    BY <2>1, DoneNothingPushed DEF Types, TypeOK
  <2>3. QED
    BY <2>1, <2>2, BalanceStutter DEF shared, grabber
<1>6. CASE Delete \/ DeleteLater \/ DeleteJoined \/ UNCHANGED vars
  BY <1>6, BalanceStutter
     DEF Delete, DeleteLater, DeleteJoined, vars, client, shared, grabber, Pushing, Doing
<1>7. CASE GrabTest
  BY <1>7 DEF GrabTest, shared, client, Balance, OneUnlockOwed, PopsWhatItRead,
              Pushing, Doing, Queued, InGrab
<1>8. CASE GrabLook
  BY <1>8, BalanceLook
<1>9. CASE GrabPop
  BY <1>9, BalancePop
<1>10. CASE GrabFill
  BY <1>10 DEF GrabFill, shared, client, Balance, OneUnlockOwed, PopsWhatItRead,
               Pushing, Doing, Queued, InGrab
<1>11. CASE GrabUnlock
  BY <1>11, BalanceUnlock
<1>12. QED
  BY <1>1, <1>2, <1>3, <1>4, <1>5, <1>6, <1>7, <1>8, <1>9, <1>10, <1>11
     DEF Next, Client, Grabber

(* No unlock is owed before the first call.                                *)
LEMMA InitBalance == Init => Balance
  BY DEF Init, ClientInit, Balance, OneUnlockOwed, PopsWhatItRead, Pushing, Doing,
         Queued, InGrab

(* The semaphores stay balanced until the unlocked reads have met a half   *)
(* linked list: every locked wait_grab mutex is owed exactly one unlock.   *)
THEOREM UnlocksBalanced == Spec => [](~torn => OneUnlockOwed)
<1>1. IInv => (~torn => OneUnlockOwed)
  BY DEF IInv, Balance
<1>2. Init => IInv
  BY InitTypes, InitBalance DEF IInv
<1>3. IInv /\ [Next]_vars => IInv'
  BY TypesStep, BalanceStep DEF IInv
<1>4. QED
  BY <1>1, <1>2, <1>3, PTL DEF Spec

(* The request the grab thread takes off the list is the one it has read   *)
(* without the lock, until then.                                           *)
THEOREM ReadIsPopped == Spec => [](~torn => PopsWhatItRead)
<1>1. IInv => (~torn => PopsWhatItRead)
  BY DEF IInv, Balance
<1>2. Init => IInv
  BY InitTypes, InitBalance DEF IInv
<1>3. IInv /\ [Next]_vars => IInv'
  BY TypesStep, BalanceStep DEF IInv
<1>4. QED
  BY <1>1, <1>2, <1>3, PTL DEF Spec
-----------------------------------------------------------------------------
(* The refinement *)

(* Pushing at the front of a list appends to its reverse.                  *)
LEMMA ReversePushFront ==
    ASSUME NEW S, NEW s \in Seq(S), NEW b \in S
    PROVE  Reverse(<<b>> \o s) = Append(Reverse(s), b)
<1> DEFINE n == Len(s)
           t == <<b>> \o s
           u == Reverse(t)
           v == Append(Reverse(s), b)
<1>1. n \in Nat /\ s \in [1..n -> S]
  OBVIOUS
<1>2. t \in Seq(S) /\ Len(t) = n + 1 /\ t[1] = b /\ \A i \in 1..n : t[i + 1] = s[i]
  OBVIOUS
<1> HIDE DEF t
<1>3. /\ u \in [1..(n + 1) -> S]
      /\ \A i \in 1..(n + 1) : u[i] = t[(n + 1) - i + 1]
  BY <1>1, <1>2 DEF Reverse
<1>4. /\ Reverse(s) \in [1..n -> S]
      /\ \A i \in 1..n : Reverse(s)[i] = s[n - i + 1]
  BY <1>1 DEF Reverse
<1>5. /\ v \in Seq(S) /\ Len(v) = n + 1 /\ v[n + 1] = b
      /\ \A i \in 1..n : v[i] = s[n - i + 1]
  <2>1. Reverse(s) \in Seq(S) /\ Len(Reverse(s)) = n
    BY <1>1, <1>4
  <2>2. QED
    BY <1>1, <1>4, <2>1
<1>6. u \in Seq(S) /\ Len(u) = n + 1
  BY <1>1, <1>3
<1> HIDE DEF u, v, n
<1>7. ASSUME NEW i \in 1..(n + 1)
      PROVE  u[i] = v[i]
  <2>1. CASE i = n + 1
    BY <1>1, <1>2, <1>3, <1>5, <2>1
  <2>2. CASE i # n + 1
    <3>1. i \in 1..n /\ n - i + 1 \in 1..n /\ (n + 1) - i + 1 = (n - i + 1) + 1
      BY <1>1, <2>2
    <3>2. QED
      BY <1>2, <1>3, <1>5, <3>1
  <2>3. QED
    BY <2>1, <2>2
<1>8. u = v
  BY <1>5, <1>6, <1>7, SeqEqual
<1>9. QED
  BY <1>8 DEF u, v, t

(* The last element of a list is the first of its reverse.                 *)
LEMMA ReversePopBack ==
    ASSUME NEW S, NEW s \in Seq(S), s # <<>>
    PROVE  Reverse(s) = <<Last(s)>> \o Reverse(Front(s))
<1> DEFINE n == Len(s)
           m == Len(s) - 1
           f == Front(s)
           r == Reverse(f)
           u == Reverse(s)
           v == <<Last(s)>> \o r
<1>1. n \in Nat \ {0} /\ s \in [1..n -> S] /\ Last(s) = s[n] /\ Last(s) \in S
  BY DEF Last
<1>2. m \in Nat /\ n = m + 1
  BY <1>1
<1>3. f \in Seq(S) /\ Len(f) = m /\ \A i \in 1..m : f[i] = s[i]
  BY <1>1 DEF Front
<1> HIDE DEF f
<1>4. u \in [1..n -> S] /\ \A i \in 1..n : u[i] = s[n - i + 1]
  BY <1>1 DEF Reverse
<1> HIDE DEF n, m, u
<1>5. /\ r \in [1..m -> S]
      /\ \A i \in 1..m : r[i] = f[m - i + 1]
  BY <1>2, <1>3 DEF Reverse
<1> HIDE DEF r
<1>6. r \in Seq(S) /\ Len(r) = m
  BY <1>2, <1>5
<1>7. v \in Seq(S) /\ Len(v) = n /\ v[1] = s[n]
  BY <1>1, <1>2, <1>6
<1>8. \A i \in 1..m : v[i + 1] = r[i]
  BY <1>1, <1>2, <1>6
<1> HIDE DEF v
<1>9. u \in Seq(S) /\ Len(u) = n
  BY <1>1, <1>4
<1>10. ASSUME NEW i \in 1..n
       PROVE  u[i] = v[i]
  <2>1. CASE i = 1
    BY <1>1, <1>4, <1>7, <2>1
  <2>2. CASE i # 1
    <3>1. PICK j \in 1..m : i = j + 1
      BY <1>1, <1>2, <2>2
    <3>2. m - j + 1 \in 1..m /\ n - i + 1 = m - j + 1
      BY <1>2, <3>1
    <3>3. v[i] = s[m - j + 1]
      BY <1>3, <1>5, <1>8, <3>1, <3>2
    <3>4. QED
      BY <1>4, <3>2, <3>3
  <2>3. QED
    BY <2>1, <2>2
<1>11. u = v
  BY <1>7, <1>9, <1>10, SeqEqual
<1>12. QED
  BY <1>11 DEF u, v, r, f

(* Without torn reads a node is never seen half linked.                    *)
Whole == ~linking /\ ~torn

(* The list is whole before the first call.                                *)
LEMMA InitWhole == Init => Whole
  BY DEF Init, Whole

(* Without torn reads no step exposes a half linked list.                  *)
LEMMA WholeStep == ~TornReads /\ Whole /\ [Next]_vars => Whole'
<1> SUFFICES ASSUME ~TornReads, Whole, [Next]_vars
             PROVE  Whole'
  OBVIOUS
<1>1. CASE GrabLook
  BY <1>1 DEF GrabLook, Whole, shared
<1>2. CASE GrabPop \/ GrabUnlock \/ GrabTest \/ GrabFill
  BY <1>2 DEF GrabPop, GrabUnlock, GrabTest, GrabFill, Whole, shared
<1>3. CASE InitiateLock \/ InitiateHook \/ InitiatePush \/ WaitForCompletion \/ ReturnFrame
  BY <1>3 DEF InitiateLock, InitiateHook, InitiatePush, WaitForCompletion, ReturnFrame,
              Whole, shared, grabber
<1>4. CASE Call \/ Delete \/ DeleteLater \/ DeleteJoined \/ UNCHANGED vars
  BY <1>4 DEF Call, CurrentFrameContinuous, Delete, DeleteLater, DeleteJoined, vars, Whole, shared,
              grabber
<1>5. QED
  BY <1>1, <1>2, <1>3, <1>4 DEF Next, Client, Grabber

(* The queue of pending captures starts empty.                             *)
LEMMA PendingInit == Init => Queue!Init
<1> SUFFICES ASSUME Init
             PROVE  Queue!Init
  OBVIOUS
<1>1. Reverse(<<>>) = <<>>
  BY DEF Reverse
<1>2. Pending = <<>>
  BY <1>1 DEF Init, Pending
<1>3. QED
  BY <1>2 DEF Init, Queue!Init

(* What is pending is in the list or taken off it and not copied yet.      *)
LEMMA PendingIs ==
    ASSUME Types
    PROVE  /\ Pending \in Seq(Buffers)
           /\ \A i \in DOMAIN Pending :
                 Queued(Pending[i]) \/ (gpc = "fill" /\ i_frame = Pending[i])
<1> DEFINE fill == IF gpc = "fill" THEN <<i_frame>> ELSE <<>>
           list == Reverse(requests)
<1>1. requests \in Seq(Buffers) /\ i_frame \in Buffers
  BY DEF Types, TypeOK, SharedOK, GrabberOK
<1>2. /\ list \in Seq(Buffers) /\ Len(list) = Len(requests)
      /\ \A i \in 1..Len(list) : Queued(list[i])
  <2>1. \A i \in 1..Len(requests) :
           /\ (Len(requests) - i) + 1 \in DOMAIN requests
           /\ requests[(Len(requests) - i) + 1] \in Buffers
    BY <1>1
  <2>2. QED
    BY <1>1, <2>1 DEF Reverse, Queued
<1>3. fill \in Seq(Buffers) /\ \A i \in 1..Len(fill) : gpc = "fill" /\ i_frame = fill[i]
  BY <1>1
<1>4. Pending = fill \o list
  BY DEF Pending
<1> HIDE DEF fill, list
<1>5. Pending \in Seq(Buffers) /\ Len(Pending) = Len(fill) + Len(list)
  BY <1>2, <1>3, <1>4, ConcatProperties, Zenon
<1>6. ASSUME NEW i \in 1..Len(Pending)
      PROVE  Queued(Pending[i]) \/ (gpc = "fill" /\ i_frame = Pending[i])
  <2>1. CASE i <= Len(fill)
    BY <1>2, <1>3, <1>4, <1>5, <2>1
  <2>2. CASE ~(i <= Len(fill))
    <3>1. i - Len(fill) \in 1..Len(list) /\ Pending[i] = list[i - Len(fill)]
      BY <1>2, <1>3, <1>4, <1>5, <2>2
    <3>2. QED
      BY <1>2, <3>1
  <2>3. QED
    BY <2>1, <2>2
<1>7. QED
  BY <1>5, <1>6

(* push_front() schedules the buffer, which is not scheduled already.      *)
LEMMA PushSchedules ==
    ASSUME IInv, ~torn, InitiatePush
    PROVE  Queue!Schedule(Head(todo).buf) /\ Head(todo).buf \in Buffers
<1> DEFINE b0 == Head(todo).buf
           fill == IF gpc = "fill" THEN <<i_frame>> ELSE <<>>
<1>1. b0 \in Buffers /\ Pushing(b0) /\ requests \in Seq(Buffers) /\ i_frame \in Buffers
  BY HeadType DEF InitiatePush, Doing, InCall, IInv, Types, TypeOK, SharedOK,
                  GrabberOK, Pushing
<1>2. OneUnlockOwed
  BY DEF IInv, Balance
<1>3. ~Queued(b0) /\ ~InGrab(b0)
  BY <1>1, <1>2 DEF OneUnlockOwed
<1>4. /\ requests' = PushFront(b0) /\ gpc' = gpc /\ i_frame' = i_frame
      /\ images' = images /\ captured' = captured
  BY DEF InitiatePush, grabber
<1> HIDE DEF b0
<1>5. Reverse(requests') = Append(Reverse(requests), b0)
  BY <1>1, <1>4, ReversePushFront DEF PushFront
<1>6. /\ Reverse(requests) \in Seq(Buffers) /\ Len(Reverse(requests)) = Len(requests)
      /\ \A i \in 1..Len(requests) : Reverse(requests)[i] # b0
  <2>1. \A i \in 1..Len(requests) :
           /\ (Len(requests) - i) + 1 \in DOMAIN requests
           /\ requests[(Len(requests) - i) + 1] # b0
           /\ requests[(Len(requests) - i) + 1] \in Buffers
    BY <1>1, <1>3 DEF Queued
  <2>2. QED
    BY <1>1, <2>1 DEF Reverse
<1>7. fill \in Seq(Buffers) /\ \A i \in DOMAIN fill : fill[i] # b0
  BY <1>1, <1>3 DEF InGrab
<1>8. Pending = fill \o Reverse(requests) /\ Pending' = fill \o Reverse(requests')
  BY <1>4 DEF Pending
<1> HIDE DEF fill
<1>9. Pending' = Append(Pending, b0)
  BY <1>1, <1>5, <1>6, <1>7, <1>8
<1>10. \A i \in DOMAIN Pending : Pending[i] # b0
  BY <1>3, PendingIs DEF IInv, InGrab
<1>11. Queue!Schedule(b0) /\ b0 \in Buffers
  BY <1>1, <1>4, <1>9, <1>10 DEF Queue!Schedule
<1>12. QED
  BY <1>11 DEF b0

(* The oldest request is the head of the queue, taken off the list before  *)
(* its frame is copied.                                                    *)
LEMMA PopKeepsPending ==
    ASSUME IInv, ~torn, GrabPop
    PROVE  Pending' = Pending
<1>1. requests # <<>> /\ Last(requests) = i_frame /\ requests \in Seq(Buffers)
  BY DEF IInv, Balance, PopsWhatItRead, GrabPop, Types, TypeOK, SharedOK
<1>2. Reverse(requests) = <<i_frame>> \o Reverse(Front(requests))
  BY <1>1, ReversePopBack
<1>3. Pending' = <<i_frame>> \o Reverse(Front(requests))
  BY DEF GrabPop, Pending
<1>4. Reverse(requests) \in Seq(Buffers)
  <2>1. \A i \in 1..Len(requests) : requests[(Len(requests) - i) + 1] \in Buffers
    BY <1>1
  <2>2. QED
    BY <1>1, <2>1 DEF Reverse
<1>5. Pending = Reverse(requests)
  BY <1>4 DEF GrabPop, Pending
<1>6. QED
  BY <1>2, <1>3, <1>5

(* Filling a buffer completes the oldest pending capture.                  *)
LEMMA FillCompletes ==
    ASSUME IInv, GrabFill
    PROVE  Queue!Complete
<1>1. requests \in Seq(Buffers) /\ i_frame \in Buffers
  BY DEF IInv, Types, TypeOK, SharedOK, GrabberOK
<1>2. Reverse(requests) \in Seq(Buffers)
  <2>1. \A i \in 1..Len(requests) : requests[(Len(requests) - i) + 1] \in Buffers
    BY <1>1
  <2>2. QED
    BY <1>1, <2>1 DEF Reverse
<1>3. Pending = <<i_frame>> \o Reverse(requests)
  BY DEF GrabFill, Pending
<1>4. Pending' = <<>> \o Reverse(requests)
  BY DEF GrabFill, Pending, shared
<1>5. Pending # <<>> /\ Head(Pending) = i_frame /\ Tail(Pending) = Reverse(requests)
      /\ Pending' = Reverse(requests)
  BY <1>1, <1>2, <1>3, <1>4
<1>6. captured' = captured + 1 /\ images' = [images EXCEPT ![i_frame] = captured + 1]
  BY DEF GrabFill
<1>7. QED
  BY <1>5, <1>6 DEF Queue!Complete

(* Every step of the grab thread and its client is a step of the           *)
(* acquisition queue, or leaves it alone.                                  *)
LEMMA QueueStep ==
    ASSUME IInv, Whole, [Next]_vars
    PROVE  [Queue!Next]_(Queue!avars)
<1>1. CASE InitiatePush
  BY <1>1, PushSchedules DEF Queue!Next, Whole
<1>2. CASE GrabFill
  BY <1>2, FillCompletes DEF Queue!Next
<1>3. CASE GrabPop
  BY <1>3, PopKeepsPending DEF GrabPop, Queue!avars, Whole
<1>4. CASE GrabTest \/ GrabLook \/ GrabUnlock
  BY <1>4 DEF GrabTest, GrabLook, GrabUnlock, shared, Pending, Queue!avars
<1>5. CASE InitiateLock \/ InitiateHook \/ WaitForCompletion \/ ReturnFrame \/ DeleteJoined
           \/ Delete \/ DeleteLater \/ Call \/ UNCHANGED vars
  BY <1>5 DEF InitiateLock, InitiateHook, WaitForCompletion, ReturnFrame, DeleteJoined,
              Delete, DeleteLater, Call, CurrentFrameContinuous, vars, shared, grabber, Pending,
              Queue!avars
<1>6. QED
  BY <1>1, <1>2, <1>3, <1>4, <1>5 DEF Next, Client, Grabber

(* If the unlocked reads never meet a half linked list, the grab thread    *)
(* and the client's two functions implement the queue of acquisitions.     *)
THEOREM AcquisitionImplemented ==
    ASSUME TornReads = FALSE
    PROVE  Spec => ImplementsAcquisition
<1>1. Init => IInv /\ Whole
  BY InitTypes, InitBalance, InitWhole DEF IInv
<1>2. IInv /\ Whole /\ [Next]_vars => (IInv /\ Whole)'
  BY TypesStep, BalanceStep, WholeStep DEF IInv
<1>3. IInv /\ Whole /\ [Next]_vars => [Queue!Next]_(Queue!avars)
  BY QueueStep
<1>4. QED
  BY <1>1, <1>2, <1>3, PendingInit, PTL DEF Spec, ImplementsAcquisition, Queue!Spec
-----------------------------------------------------------------------------
(* Frames in the client's hands *)

(* The buffer that the call's next step is for *)
Now == Head(todo).buf

(* The mutexes that are locked are those of these buffers: scheduled, and  *)
(* perhaps not served yet.                                                 *)
LockedIn(scheduled) == \A b \in Buffers : wait_grab[b] => b \in scheduled

(* While a buffer is being scheduled, after the others *)
Scheduling(others) == \/ Doing("initiate") /\ LockedIn(others)
                      \/ Doing("push") /\ LockedIn(others \cup {Now})

(* Between calls, in the rounds of the polling loop, and on the way to     *)
(* returning buffer b of continuous mode *)
Ahead == IF capture_mode = "MODE_CAP_CONTINUOUS" THEN {current_buffer} ELSE {}
Idle == ~InCall /\ LockedIn(Ahead)
Polling == \/ PollInit /\ Scheduling({})
           \/ PollWait /\ LockedIn({Now})
           \/ PollReturn /\ LockedIn({})
Continuing(b) == \/ StreamFirst(b) /\ Scheduling({})
                 \/ StreamAhead(b) /\ Scheduling({b})
                 \/ StreamWait(b) /\ LockedIn({b, After(b, 1)})
                 \/ StreamReturn(b) /\ LockedIn({After(b, 1)})
Phases == Idle \/ Polling \/ \E b \in Buffers : Continuing(b)

(* The frame the client was given last *)
Given == ~InCall /\ result.call # "none" =>
            result.buf \notin Ahead /\ images[result.buf] = result.stamp

(* Until a half linked list is read, and without current_frame_continuous  *)
Handed == ~torn /\ ~nowait_flag => Phases /\ Given

(* Where the client is, from what it does next *)
LEMMA PhaseOf ==
    ASSUME Phases
    PROVE  /\ ~InCall => Idle
           /\ InCall /\ Head(todo).op \in InitOps =>
                \/ PollInit /\ Scheduling({})
                \/ \E b \in Buffers : \/ StreamFirst(b) /\ Scheduling({})
                                      \/ StreamAhead(b) /\ Scheduling({b})
           /\ Doing("wait") =>
                \/ PollWait /\ LockedIn({Now})
                \/ \E b \in Buffers : StreamWait(b) /\ LockedIn({b, After(b, 1)})
           /\ Doing("return") =>
                \/ PollReturn /\ LockedIn({})
                \/ \E b \in Buffers : StreamReturn(b) /\ LockedIn({After(b, 1)})
  BY DEF Phases, Idle, Polling, Continuing, Doing, InCall, PollInit, PollWait, PollReturn,
         StreamFirst, StreamAhead, StreamWait, StreamReturn, HeadIs, InitOps, WaitOps

(* Unlocking a mutex keeps the phase of the call. *)
LEMMA SamePhase ==
    ASSUME UNCHANGED client, \A b \in Buffers : wait_grab'[b] => wait_grab[b], Phases
    PROVE  Phases'
<1>1. todo' = todo /\ capture_mode' = capture_mode /\ current_buffer' = current_buffer
  BY DEF client
<1>2. \A S : LockedIn(S) => LockedIn(S)'
  BY DEF LockedIn
<1>3. CASE Idle
  BY <1>1, <1>2, <1>3 DEF Phases, Idle, Ahead, InCall
<1>4. \A S : Scheduling(S) => Scheduling(S)'
  BY <1>1, <1>2 DEF Scheduling, Doing, Now
<1>5. CASE Polling
  BY <1>1, <1>2, <1>4, <1>5 DEF Phases, Polling, PollInit, PollWait, PollReturn, Now
<1>6. ASSUME NEW b \in Buffers, Continuing(b) PROVE Continuing(b)'
  BY <1>1, <1>2, <1>4, <1>6 DEF Continuing, StreamFirst, StreamAhead, StreamWait, StreamReturn,
     Streaming, HeadIs
<1>7. QED
  BY <1>3, <1>5, <1>6 DEF Phases

(* In a call there is no frame the client was given last. *)
LEMMA BusyHanded == Phases' /\ InCall' => Handed'
  BY DEF Handed, Given

(* A call begins. *)
LEMMA HandedCall ==
    ASSUME NBuffers > 1, Types, Handed, Call
    PROVE  Handed'
<1>1. CASE CurrentFrameContinuous
  BY <1>1 DEF CurrentFrameContinuous, Handed
<1>2. CASE BeginCall /\ UNCHANGED <<shared, grabber, ending, nowait_flag>>
  <2> SUFFICES ASSUME ~torn', ~nowait_flag'
               PROVE  Handed'
    BY DEF Handed
  <2>1. ClientOK /\ Phases /\ wait_grab' = wait_grab
    BY <1>2 DEF Types, TypeOK, Handed, shared, grabber
  <2>2. PICK b \in Buffers : b = current_buffer
    BY <2>1 DEF ClientOK
  <2>3. Idle
    BY <1>2, <2>1, PhaseOf DEF BeginCall, NextFrameContinuous, NextFramePoll, RequestFramePoll,
       Poll, Begin, InCall
  <2>4. \A S : LockedIn(S) => LockedIn(S)'
    BY <2>1 DEF LockedIn
  <2>5. /\ capture_mode = "MODE_CAP_CONTINUOUS" => LockedIn({b})'
        /\ capture_mode # "MODE_CAP_CONTINUOUS" => LockedIn({})'
    BY <2>2, <2>3, <2>4 DEF Idle, Ahead
  <2>6. BeginsOnPlan(b)
    BY <1>2, <2>1, <2>2, CallBegins
  <2>7. (Polling \/ \E c \in Buffers : Continuing(c))'
    <3>1. CASE capture_mode = "MODE_CAP_SINGLE" /\ StreamFirst(b)' /\ Doing("initiate")'
      BY <2>5, <3>1 DEF Continuing, Scheduling
    <3>2. CASE capture_mode = "MODE_CAP_CONTINUOUS" /\ StreamAhead(b)' /\ Doing("initiate")'
      BY <2>5, <3>2 DEF Continuing, Scheduling
    <3>3. CASE /\ capture_mode = "MODE_CAP_CONTINUOUS" /\ PollWait' /\ Doing("wait")'
               /\ Head(todo').buf = b
      <4>1. LockedIn({Now})'
        BY <2>5, <3>3 DEF LockedIn, Now
      <4>2. QED
        BY <3>3, <4>1 DEF Polling
    <3>4. CASE capture_mode = "MODE_CAP_SINGLE" /\ PollInit' /\ Doing("initiate")'
      BY <2>5, <3>4 DEF Polling, Scheduling
    <3>5. CASE capture_mode = "MODE_CAP_SINGLE" /\ PollReturn'
      BY <2>5, <3>5 DEF Polling
    <3>6. QED
      BY <2>6, <3>1, <3>2, <3>3, <3>4, <3>5 DEF BeginsOnPlan
  <2>8. InCall'
    BY <2>6 DEF InCall, BeginsOnPlan, StreamFirst, StreamAhead, HeadIs, PollInit, PollWait,
       PollReturn
  <2>9. QED
    BY <2>7, <2>8, BusyHanded DEF Phases
<1>3. QED
  BY <1>1, <1>2 DEF Call

(* The mutex of the buffer that is scheduled is locked. *)
LEMMA HandedLock ==
    ASSUME Types, Handed, InitiateLock
    PROVE  Handed'
<1> SUFFICES ASSUME ~torn', ~nowait_flag'
             PROVE  Handed'
  BY DEF Handed
<1>1. /\ ClientOK /\ InCall /\ Doing("initiate") /\ Becomes("push") /\ Phases
      /\ wait_grab \in [Buffers -> BOOLEAN]
  BY DEF Types, TypeOK, SharedOK, Handed, InitiateLock, Doing, InCall, grabber
<1>2. PICK b \in Buffers : b = Now
  BY <1>1, HeadType DEF Now
<1>3. wait_grab' = [wait_grab EXCEPT ![b] = TRUE]
  BY <1>2 DEF InitiateLock, Now
<1>4. InCall' /\ Doing("push")' /\ Now' = b
  BY <1>1, <1>2, BecomesSame DEF Ops, InCall, Now
<1>5. ASSUME NEW S, Scheduling(S) PROVE Scheduling(S)'
  <2>1. LockedIn(S)
    BY <1>1, <1>5 DEF Scheduling, Doing
  <2>2. LockedIn(S \cup {b})'
    BY <1>1, <1>3, <2>1 DEF LockedIn
  <2>3. LockedIn(S \cup {Now})'
    BY <1>4, <2>2
  <2>4. QED
    BY <1>4, <2>3 DEF Scheduling
<1>6. CASE PollInit /\ Scheduling({})
  BY <1>1, <1>4, <1>5, <1>6, InitBecomes, BusyHanded DEF InitOps, Phases, Polling
<1>7. ASSUME NEW a \in Buffers, StreamFirst(a), Scheduling({}) PROVE Handed'
  BY <1>1, <1>4, <1>5, <1>7, InitBecomes, BusyHanded DEF InitOps, Phases, Continuing
<1>8. ASSUME NEW a \in Buffers, StreamAhead(a), Scheduling({a}) PROVE Handed'
  BY <1>1, <1>4, <1>5, <1>8, InitBecomes, BusyHanded DEF InitOps, Phases, Continuing
<1>9. QED
  BY <1>1, <1>6, <1>7, <1>8, PhaseOf DEF Doing, InitOps

(* The buffer is pushed: it is scheduled. *)
LEMMA HandedPush ==
    ASSUME Types, Handed, InitiatePush
    PROVE  Handed'
<1> SUFFICES ASSUME ~torn', ~nowait_flag'
             PROVE  Handed'
  BY DEF Handed
<1>1. ClientOK /\ InCall /\ Doing("push") /\ Done /\ Phases /\ wait_grab' = wait_grab
  BY DEF Types, TypeOK, Handed, InitiatePush, Doing, InCall, grabber
<1>2. PICK b \in Buffers : b = Now
  BY <1>1, HeadType DEF Now
<1>3. ASSUME NEW S, Scheduling(S) PROVE LockedIn(S \cup {b})'
  BY <1>1, <1>2, <1>3 DEF Scheduling, Doing, LockedIn
<1>4. CASE PollInit /\ Scheduling({})
  <2>1. PollWait' /\ InCall' /\ Now' = b
    BY <1>1, <1>2, <1>4, PollInitDone DEF Now, Doing, InCall
  <2>2. LockedIn({} \cup {b})'
    BY <1>3, <1>4
  <2>3. LockedIn({Now})'
    BY <2>1, <2>2 DEF LockedIn
  <2>4. QED
    BY <2>1, <2>3, BusyHanded DEF Phases, Polling
<1>5. ASSUME NEW a \in Buffers, StreamFirst(a), Scheduling({}) PROVE Handed'
  <2>1. StreamAhead(a)' /\ Doing("initiate")' /\ InCall' /\ a = b
    BY <1>1, <1>2, <1>5, StreamFirstDone DEF StreamFirst, HeadIs, Now, Doing, InCall
  <2>2. LockedIn({} \cup {b})'
    BY <1>3, <1>5
  <2>3. LockedIn({a})'
    BY <2>1, <2>2 DEF LockedIn
  <2>4. QED
    BY <2>1, <2>3, BusyHanded DEF Phases, Continuing, Scheduling
<1>6. ASSUME NEW a \in Buffers, StreamAhead(a), Scheduling({a}) PROVE Handed'
  <2>1. StreamWait(a)' /\ InCall' /\ After(a, 1) = b
    BY <1>1, <1>2, <1>6, StreamAheadDone DEF StreamAhead, HeadIs, Now, Doing, InCall
  <2>2. LockedIn({a} \cup {b})'
    BY <1>3, <1>6
  <2>3. LockedIn({a, After(a, 1)})'
    BY <2>1, <2>2 DEF LockedIn
  <2>4. QED
    BY <2>1, <2>3, BusyHanded DEF Phases, Continuing
<1>7. QED
  BY <1>1, <1>4, <1>5, <1>6, PhaseOf DEF Doing, InitOps

(* The buffer that the client has waited for is not locked. *)
LEMMA HandedWait ==
    ASSUME Types, Handed, WaitForCompletion
    PROVE  Handed'
<1> SUFFICES ASSUME ~torn', ~nowait_flag'
             PROVE  Handed'
  BY DEF Handed
<1>1. /\ ClientOK /\ InCall /\ Doing("wait") /\ Done /\ Phases /\ wait_grab' = wait_grab
      /\ ~wait_grab[Now]
  BY DEF Types, TypeOK, Handed, WaitForCompletion, Unlocked, Doing, InCall, shared, grabber, Now
<1>2. CASE PollWait /\ LockedIn({Now})
  <2>1. InCall' /\ ((PollInit' /\ Doing("initiate")') \/ PollReturn')
    BY <1>1, <1>2, PollWaitDone DEF Doing, PollReturn, InCall
  <2>2. LockedIn({})'
    BY <1>1, <1>2 DEF LockedIn
  <2>3. QED
    BY <2>1, <2>2, BusyHanded DEF Phases, Polling, Scheduling
<1>3. ASSUME NEW a \in Buffers, StreamWait(a), LockedIn({a, After(a, 1)}) PROVE Handed'
  <2>1. StreamReturn(a)' /\ InCall' /\ a = Now
    BY <1>1, <1>3, StreamWaitDone DEF StreamWait, StreamReturn, HeadIs, Now, InCall
  <2>2. LockedIn({After(a, 1)})'
    BY <1>1, <1>3, <2>1 DEF LockedIn
  <2>3. QED
    BY <2>1, <2>2, BusyHanded DEF Phases, Continuing
<1>4. QED
  BY <1>1, <1>2, <1>3, PhaseOf

(* The frame is handed out. *)
LEMMA HandedReturn ==
    ASSUME NBuffers > 1, Types, Handed, ReturnFrame
    PROVE  Handed'
<1> SUFFICES ASSUME ~torn', ~nowait_flag'
             PROVE  Handed'
  BY DEF Handed
<1>1. /\ ClientOK /\ InCall /\ Doing("return") /\ Phases /\ wait_grab' = wait_grab
      /\ images' = images
  BY DEF Types, TypeOK, Handed, ReturnFrame, Doing, InCall, shared, grabber
<1>2. PICK b \in Buffers : b = Now
  BY <1>1, HeadType DEF Now
<1>3. PICK stamp : stamp = images[b] /\ Return(stamp)
  BY <1>2 DEF ReturnFrame, Now
<1>4. result'.buf = b /\ result'.stamp = stamp
  BY <1>2, <1>3 DEF Return, Now
<1>5. \A S : LockedIn(S) => LockedIn(S)'
  BY <1>1 DEF LockedIn
<1>6. CASE PollReturn /\ LockedIn({})
  <2>1. ~InCall' /\ capture_mode' = "MODE_CAP_SINGLE"
    BY <1>3, <1>6, ReturnEnds DEF PollReturn
  <2>2. Ahead' = {} /\ LockedIn({})'
    BY <1>5, <1>6, <2>1 DEF Ahead
  <2>3. Idle' /\ Given'
    BY <1>1, <1>3, <1>4, <2>1, <2>2 DEF Idle, Given
  <2>4. QED
    BY <2>3 DEF Handed, Phases
<1>7. ASSUME NEW a \in Buffers, StreamReturn(a), LockedIn({After(a, 1)}) PROVE Handed'
  <2>1. /\ ~InCall' /\ capture_mode' = "MODE_CAP_CONTINUOUS"
        /\ current_buffer' = After(a, 1) /\ a = b
    BY <1>2, <1>3, <1>7, ReturnEnds DEF StreamReturn, Streaming, HeadIs, Now
  <2>2. Ahead' = {After(a, 1)} /\ LockedIn({After(a, 1)})'
    BY <1>5, <1>7, <2>1 DEF Ahead
  <2>3. Idle' /\ Given'
    BY <1>1, <1>3, <1>4, <2>1, <2>2, AfterDiffers DEF Idle, Given
  <2>4. QED
    BY <2>3 DEF Handed, Phases
<1>8. QED
  BY <1>1, <1>6, <1>7, PhaseOf

(* What leaves the client and the images alone, and locks nothing *)
LEMMA HandedKept ==
    ASSUME Handed, UNCHANGED <<client, images, nowait_flag>>, torn => torn',
           \A b \in Buffers : wait_grab'[b] => wait_grab[b]
    PROVE  Handed'
<1> SUFFICES ASSUME ~torn', ~nowait_flag'
             PROVE  Handed'
  BY DEF Handed
<1>1. Phases' /\ Given
  BY SamePhase DEF Handed
<1>2. Given'
  BY <1>1 DEF Given, client, InCall, Ahead
<1>3. QED
  BY <1>1, <1>2 DEF Handed

(* A frame is copied to the buffer of a locked mutex, which is not one the *)
(* client was given.                                                       *)
LEMMA HandedFill ==
    ASSUME IInv, Handed, GrabFill
    PROVE  Handed'
<1> SUFFICES ASSUME ~torn', ~nowait_flag'
             PROVE  Handed'
  BY DEF Handed
<1>1. /\ Phases /\ Given /\ OneUnlockOwed /\ UNCHANGED client /\ wait_grab' = wait_grab
      /\ i_frame \in Buffers /\ images \in [Buffers -> Nat] /\ ResultOK
  BY DEF IInv, Types, TypeOK, GrabberOK, Balance, Handed, GrabFill, shared
<1>2. wait_grab[i_frame]
  BY <1>1 DEF OneUnlockOwed, InGrab, GrabFill
<1>3. Phases'
  BY <1>1, SamePhase
<1>4. Given'
  <2>1. SUFFICES ASSUME ~InCall', result'.call # "none"
                 PROVE  result'.buf \notin Ahead' /\ images'[result'.buf] = result'.stamp
    BY DEF Given
  <2>2. result' = result /\ Ahead' = Ahead /\ (InCall' <=> InCall)
    BY <1>1 DEF client, Ahead, InCall
  <2>3. PICK b \in Buffers : b = result.buf
    BY <1>1 DEF ResultOK
  <2>4. b \notin Ahead /\ images[b] = result.stamp
    BY <1>1, <2>1, <2>2, <2>3 DEF Given
  <2>5. LockedIn(Ahead)
    BY <1>1, <2>1, <2>2, PhaseOf DEF Idle
  <2>6. b # i_frame
    BY <1>1, <1>2, <2>4, <2>5 DEF LockedIn
  <2>7. images'[b] = images[b]
    BY <1>1, <2>6 DEF GrabFill
  <2>8. QED
    BY <2>2, <2>3, <2>4, <2>7
<1>5. QED
  BY <1>3, <1>4 DEF Handed

(* No step takes a frame from the client's hands. *)
LEMMA HandedStep ==
    ASSUME NBuffers > 1
    PROVE  IInv /\ Handed /\ [Next]_vars => Handed'
<1> SUFFICES ASSUME IInv, Handed, [Next]_vars
             PROVE  Handed'
  OBVIOUS
<1>1. CASE Call \/ InitiateLock \/ InitiatePush \/ WaitForCompletion \/ ReturnFrame
  BY <1>1, HandedCall, HandedLock, HandedPush, HandedWait, HandedReturn DEF IInv
<1>2. CASE InitiateHook \/ DeleteJoined \/ Delete \/ DeleteLater
  BY <1>2, HandedKept DEF InitiateHook, DeleteJoined, Delete, DeleteLater, shared, grabber
<1>3. CASE GrabTest \/ GrabLook \/ GrabPop
  <2>1. UNCHANGED <<client, images, nowait_flag>> /\ wait_grab' = wait_grab
    BY <1>3 DEF GrabTest, GrabLook, GrabPop, shared
  <2>2. torn => torn'
    <3>1. CASE GrabTest \/ GrabPop
      BY <3>1 DEF GrabTest, GrabPop
    <3>2. CASE GrabLook
      <4>1. torn' = (torn \/ linking)
        BY <3>2 DEF GrabLook
      <4>2. QED
        BY <4>1, Zenon
    <3>3. QED
      BY <1>3, <3>1, <3>2
  <2>3. QED
    BY <2>1, <2>2, HandedKept
<1>4. CASE GrabFill
  BY <1>4, HandedFill
<1>5. CASE GrabUnlock
  <2>1. \A b \in Buffers : wait_grab'[b] => wait_grab[b]
    BY <1>5 DEF GrabUnlock, Served, IInv, Types, TypeOK, SharedOK
  <2>2. QED
    BY <1>5, <2>1, HandedKept DEF GrabUnlock
<1>6. CASE UNCHANGED vars
  BY <1>6, HandedKept DEF vars, shared, grabber
<1>7. QED
  BY <1>1, <1>2, <1>3, <1>4, <1>5, <1>6 DEF Next, Client, Grabber

(* The client has no frame before its first call. *)
LEMMA InitHanded == Init => Handed
<1> SUFFICES ASSUME Init
             PROVE  Handed
  OBVIOUS
<1>1. /\ ~InCall /\ capture_mode = "MODE_CAP_SINGLE" /\ result.call = "none"
      /\ wait_grab = [b \in Buffers |-> FALSE]
  BY DEF Init, ClientInit, InCall
<1>2. LockedIn({})
  BY <1>1 DEF LockedIn
<1>3. QED
  BY <1>1, <1>2 DEF Handed, Phases, Idle, Ahead, Given

(* With two buffers or more, and until a half linked list has been read,   *)
(* the frame the client was given is not overwritten before its next call, *)
(* although an acquisition is always under way in continuous mode.         *)
THEOREM FramesStable ==
    ASSUME NBuffers > 1
    PROVE  Spec => [](~torn => HandedOutStable)
<1>1. Init => IInv /\ Handed
  BY InitTypes, InitBalance, InitHanded DEF IInv
<1>2. IInv /\ Handed /\ [Next]_vars => (IInv /\ Handed)'
  BY TypesStep, BalanceStep, HandedStep DEF IInv
<1>3. IInv /\ Handed => (~torn => HandedOutStable)
  BY DEF Handed, Given, HandedOutStable
<1>4. QED
  BY <1>1, <1>2, <1>3, PTL DEF Spec
-----------------------------------------------------------------------------
(* Frames get newer.  The argument is about the queue of acquisitions that *)
(* the list implements, not about the list.                                *)

Waits(b) == \E i \in DOMAIN Pending : Pending[i] = b

(* The frame in buffer b is newer than the one handed out, or will be      *)
Fresh(b) == Waits(b) \/ images[b] > result.stamp

(* and the one in buffer c is, or will be, newer than that in b.           *)
InOrder(b, c) ==
    /\ \A i, j \in DOMAIN Pending : Pending[i] = b /\ Pending[j] = c => i < j
    /\ Waits(c) \/ (~Waits(b) /\ images[c] > images[b])

(* What continuous mode can count on: between calls the buffer scheduled   *)
(* ahead is fresh, in a call the one to be returned is, once scheduled,    *)
(* and then the one scheduled ahead comes after it.                        *)
Course ==
    \/ ~InCall /\ Fresh(current_buffer)
    \/ \E b \in Buffers :
          \/ StreamFirst(b)
          \/ StreamAhead(b) /\ Fresh(b)
          \/ StreamWait(b) /\ Fresh(b) /\ InOrder(b, After(b, 1))
          \/ StreamReturn(b) /\ Fresh(b) /\ InOrder(b, After(b, 1)) /\ ~Waits(b)

NoLater == result.stamp <= captured /\ \A b \in Buffers : images[b] <= captured
OnCourse == Polled /\ (capture_mode = "MODE_CAP_CONTINUOUS" => Course)
Aged == NoLater /\ (~torn /\ ~nowait_flag => OnCourse)

(* The types the ages depend on *)
LEMMA AgeTypes ==
    ASSUME IInv
    PROVE  /\ ClientOK /\ Pending \in Seq(Buffers) /\ captured \in Nat
           /\ images \in [Buffers -> Nat] /\ result.stamp \in Nat
           /\ current_buffer \in Buffers
  BY PendingIs DEF IInv, Types, TypeOK, GrabberOK, ResultOK, ClientOK

(* What changes neither the queue nor the result, nor where the client is  *)
LEMMA CourseKept ==
    ASSUME UNCHANGED client, Course,
           \A b \in Buffers : /\ Fresh(b) => Fresh(b)'
                              /\ ~Waits(b) => ~Waits(b)'
                              /\ \A c \in Buffers \ {b} : InOrder(b, c) => InOrder(b, c)',
           NBuffers > 1, current_buffer \in Buffers
    PROVE  Course'
<1>1. todo' = todo /\ capture_mode' = capture_mode /\ current_buffer' = current_buffer
  BY DEF client
<1>2. CASE ~InCall /\ Fresh(current_buffer)
  <2>1. PICK b \in Buffers : b = current_buffer
    OBVIOUS
  <2>2. Fresh(b)'
    BY <1>2, <2>1
  <2>3. Fresh(current_buffer)'
    BY <1>1, <2>1, <2>2 DEF Fresh, Waits
  <2>4. QED
    BY <1>1, <1>2, <2>3 DEF Course, InCall
<1>3. ASSUME NEW b \in Buffers,
             \/ StreamFirst(b)
             \/ StreamAhead(b) /\ Fresh(b)
             \/ StreamWait(b) /\ Fresh(b) /\ InOrder(b, After(b, 1))
             \/ StreamReturn(b) /\ Fresh(b) /\ InOrder(b, After(b, 1)) /\ ~Waits(b)
      PROVE  Course'
  <2>1. PICK c \in Buffers \ {b} : c = After(b, 1)
    BY AfterInRing, AfterDiffers
  <2>2. /\ StreamFirst(b) => StreamFirst(b)'
        /\ StreamAhead(b) => StreamAhead(b)'
        /\ StreamWait(b) => StreamWait(b)'
        /\ StreamReturn(b) => StreamReturn(b)'
    BY <1>1 DEF StreamFirst, StreamAhead, StreamWait, StreamReturn, Streaming, HeadIs
  <2>3. InOrder(b, After(b, 1)) => InOrder(b, After(b, 1))'
    BY <2>1
  <2>4. QED
    BY <1>3, <2>2, <2>3 DEF Course
<1>4. QED
  BY <1>2, <1>3 DEF Course

(* A completed acquisition is newer than everything there is, and it is    *)
(* the oldest that was scheduled.                                          *)
LEMMA CompleteInOrder ==
    ASSUME IInv, NoLater, Queue!Complete, result' = result,
           NEW b \in Buffers, NEW c \in Buffers \ {b}
    PROVE  /\ Fresh(b) => Fresh(b)'
           /\ ~Waits(b) => ~Waits(b)'
           /\ InOrder(b, c) => InOrder(b, c)'
<1>1. PICK q \in Seq(Buffers) : q = Pending
  BY AgeTypes
<1>2. PICK h \in Buffers : h = q[1] /\ q # <<>>
  BY <1>1 DEF Queue!Complete
<1>3. /\ images' = [images EXCEPT ![h] = captured + 1] /\ Pending' = Tail(q)
      /\ Len(q) \in Nat \ {0} /\ DOMAIN q = 1..Len(q)
  BY <1>1, <1>2 DEF Queue!Complete
<1>4. /\ DOMAIN Pending' = 1..(Len(q) - 1)
      /\ \A i \in DOMAIN Pending' : i + 1 \in DOMAIN q /\ Pending'[i] = q[i + 1]
  BY <1>2, <1>3
<1>5. \A d \in Buffers : /\ images'[d] = IF d = h THEN captured + 1 ELSE images[d]
                         /\ images'[d] >= images[d] /\ images'[h] > images[d]
                         /\ images'[h] > result.stamp
  BY <1>3, AgeTypes DEF NoLater
<1>6. ASSUME NEW d \in Buffers
      PROVE  (Waits(d)' => Waits(d)) /\ (Waits(d) => Waits(d)' \/ d = h)
  <2>1. ASSUME Waits(d)' PROVE Waits(d)
    BY <1>1, <1>4, <2>1 DEF Waits
  <2>2. ASSUME Waits(d), d # h PROVE Waits(d)'
    <3>1. PICK i \in DOMAIN q : q[i] = d
      BY <1>1, <2>2 DEF Waits
    <3>2. i - 1 \in DOMAIN Pending' /\ Pending'[i - 1] = d
      BY <1>2, <1>3, <1>4, <2>2, <3>1
    <3>3. QED
      BY <3>2 DEF Waits
  <2>3. QED
    BY <2>1, <2>2
<1>7. Fresh(b) => Fresh(b)'
  BY <1>5, <1>6, AgeTypes DEF Fresh
<1>8. ASSUME InOrder(b, c) PROVE InOrder(b, c)'
  <2>1. \A i, j \in DOMAIN Pending' : Pending'[i] = b /\ Pending'[j] = c => i < j
    BY <1>1, <1>3, <1>4, <1>8 DEF InOrder
  <2>2. CASE Waits(c) /\ c # h
    BY <1>6, <2>1, <2>2 DEF InOrder
  <2>3. CASE Waits(c) /\ c = h
    <3>1. ~Waits(b)
      BY <1>1, <1>2, <1>3, <1>8, <2>3 DEF InOrder, Waits
    <3>2. QED
      BY <1>5, <1>6, <2>1, <2>3, <3>1 DEF InOrder
  <2>4. CASE ~Waits(c)
    <3>1. ~Waits(b) /\ images[c] > images[b] /\ b # h
      BY <1>1, <1>2, <1>3, <1>8, <2>4 DEF InOrder, Waits
    <3>2. images'[c] > images'[b]
      BY <1>5, <3>1, AgeTypes
    <3>3. QED
      BY <1>6, <2>1, <3>1, <3>2 DEF InOrder
  <2>5. QED
    BY <2>2, <2>3, <2>4
<1>9. QED
  BY <1>6, <1>7, <1>8

(* What leaves the queue and the result alone changes no ages. *)
LEMMA AgesKept ==
    ASSUME Aged, UNCHANGED Queue!avars, result' = result
    PROVE  /\ NoLater'
           /\ \A b \in Buffers : /\ Fresh(b) <=> Fresh(b)'
                                 /\ Waits(b) <=> Waits(b)'
                                 /\ \A c \in Buffers : InOrder(b, c) <=> InOrder(b, c)'
<1>1. Pending' = Pending /\ images' = images /\ captured' = captured
  BY DEF Queue!avars
<1>2. QED
  BY <1>1 DEF Aged, NoLater, Fresh, InOrder, Waits

(* What leaves the client alone besides keeps its course. *)
LEMMA AgedKept ==
    ASSUME NBuffers > 1, IInv, Aged, UNCHANGED Queue!avars, UNCHANGED client,
           nowait_flag' = nowait_flag, torn => torn'
    PROVE  Aged'
<1>1. result' = result /\ current_buffer \in Buffers
  BY AgeTypes DEF client
<1>2. Course => Course'
  BY <1>1, AgesKept, CourseKept
<1>3. Polled => Polled'
  BY DEF Polled, client
<1>4. QED
  BY <1>1, <1>2, <1>3, AgesKept DEF Aged, OnCourse, client

(* A call begins. *)
LEMMA AgedCall ==
    ASSUME NBuffers > 1, IInv, Aged, Call
    PROVE  Aged'
<1>1. /\ UNCHANGED Queue!avars /\ result' = result /\ torn' = torn /\ ~InCall
      /\ ClientOK
  BY AgeTypes DEF Call, BeginCall, NextFrameContinuous, NextFramePoll, RequestFramePoll, Poll,
     Begin, CurrentFrameContinuous, shared, grabber, Pending, Queue!avars, InCall
<1>2. CASE CurrentFrameContinuous
  BY <1>1, <1>2, AgesKept DEF CurrentFrameContinuous, Aged
<1>3. CASE BeginCall /\ nowait_flag' = nowait_flag
  <2> SUFFICES ASSUME ~torn, ~nowait_flag
               PROVE  Aged'
    BY <1>1, <1>3, AgesKept DEF Aged
  <2>1. Polled' /\ OnCourse
    BY <1>1, <1>3, PolledBegin DEF Aged
  <2>2. PICK b \in Buffers : b = current_buffer
    BY AgeTypes
  <2>3. BeginsOnPlan(b)
    BY <1>1, <1>3, <2>2, CallBegins
  <2>4. StreamFirst(b)' => Course'
    BY DEF Course
  <2>5. ASSUME capture_mode = "MODE_CAP_CONTINUOUS", StreamAhead(b)' PROVE Course'
    <3>1. Fresh(b)
      BY <1>1, <2>1, <2>2, <2>5 DEF OnCourse, Course, StreamFirst, StreamAhead, StreamWait,
         StreamReturn, HeadIs, InCall
    <3>2. Fresh(b)'
      BY <1>1, <3>1, AgesKept
    <3>3. QED
      BY <2>5, <3>2 DEF Course
  <2>6. PollWait' \/ PollInit' \/ PollReturn' => capture_mode' = "MODE_CAP_SINGLE"
    BY DEF PollWait, PollInit, PollReturn
  <2>7. capture_mode' = "MODE_CAP_CONTINUOUS" => Course'
    BY <2>3, <2>4, <2>5, <2>6 DEF BeginsOnPlan
  <2>8. QED
    BY <1>1, <2>1, <2>7, AgesKept DEF Aged, OnCourse
<1>4. QED
  BY <1>2, <1>3 DEF Call

(* The mutex of the buffer to be scheduled is locked. *)
LEMMA AgedLock ==
    ASSUME NBuffers > 1, IInv, Aged, InitiateLock
    PROVE  Aged'
<1>1. /\ UNCHANGED Queue!avars /\ result' = result /\ torn' = torn /\ InCall
      /\ nowait_flag' = nowait_flag /\ Doing("initiate") /\ Becomes("push") /\ ClientOK
      /\ capture_mode' = capture_mode
  BY AgeTypes DEF InitiateLock, grabber, Pending, Queue!avars, Becomes, Doing, InCall
<1>2. ASSUME Polled PROVE Polled'
  BY <1>1, <1>2, PolledGoesOn DEF Ops
<1>3. ASSUME capture_mode = "MODE_CAP_CONTINUOUS", Course PROVE Course'
  <2>1. PICK b \in Buffers : StreamFirst(b) \/ (StreamAhead(b) /\ Fresh(b))
    BY <1>1, <1>3 DEF Course, Doing, InCall, StreamWait, StreamReturn, HeadIs, WaitOps
  <2>2. (StreamFirst(b) => StreamFirst(b)') /\ (StreamAhead(b) => StreamAhead(b)')
    BY <1>1, InitBecomes DEF InitOps
  <2>3. Fresh(b) => Fresh(b)'
    BY <1>1, AgesKept
  <2>4. QED
    BY <2>1, <2>2, <2>3 DEF Course
<1>4. QED
  BY <1>1, <1>2, <1>3, AgesKept DEF Aged, OnCourse

(* The buffer is scheduled, after all that were before. *)
LEMMA AgedPush ==
    ASSUME NBuffers > 1, IInv, Aged, InitiatePush
    PROVE  Aged'
<1>1. /\ result' = result /\ torn' = torn /\ InCall /\ Doing("push") /\ Done /\ ClientOK
      /\ nowait_flag' = nowait_flag /\ images' = images /\ captured' = captured
      /\ capture_mode' = capture_mode
  BY AgeTypes DEF InitiatePush, grabber, Done, Doing, InCall
<1>2. NoLater'
  BY <1>1 DEF Aged, NoLater
<1>3. ASSUME Polled PROVE Polled'
  BY <1>1, <1>3, PolledGoesOn
<1>4. ASSUME ~torn, capture_mode = "MODE_CAP_CONTINUOUS", Course PROVE Course'
  <2>1. PICK q \in Seq(Buffers) : q = Pending
    BY AgeTypes
  <2>2. PICK c \in Buffers : c = Head(todo).buf /\ Queue!Schedule(c)
    BY <1>4, PushSchedules
  <2>3. /\ Pending' = Append(q, c) /\ \A i \in DOMAIN q : q[i] # c
        /\ Len(q) \in Nat /\ DOMAIN q = 1..Len(q)
    BY <2>1, <2>2 DEF Queue!Schedule
  <2>4. /\ DOMAIN Pending' = 1..(Len(q) + 1) /\ Pending'[Len(q) + 1] = c
        /\ \A i \in DOMAIN q : Pending'[i] = q[i] /\ i \in DOMAIN Pending'
        /\ \A i \in DOMAIN Pending' : i # Len(q) + 1 => i \in DOMAIN q
    BY <2>1, <2>3
  <2>5. Waits(c)' /\ Fresh(c)'
    BY <2>3, <2>4 DEF Waits, Fresh
  <2>6. ASSUME NEW b \in Buffers, Fresh(b) PROVE Fresh(b)'
    BY <1>1, <2>1, <2>4, <2>6 DEF Waits, Fresh
  <2>7. ASSUME NEW b \in Buffers, b # c PROVE InOrder(b, c)'
    <3>1. ASSUME NEW i \in DOMAIN Pending', NEW j \in DOMAIN Pending',
                 Pending'[i] = b, Pending'[j] = c
          PROVE  i < j
      BY <2>3, <2>4, <2>7, <3>1
    <3>2. QED
      BY <2>5, <3>1 DEF InOrder
  <2>8. PICK b \in Buffers : StreamFirst(b) \/ (StreamAhead(b) /\ Fresh(b))
    BY <1>1, <1>4 DEF Course, Doing, InCall, StreamWait, StreamReturn, HeadIs, WaitOps
  <2>9. CASE StreamFirst(b)
    <3>1. StreamAhead(b)' /\ b = c
      BY <1>1, <2>2, <2>9, StreamFirstDone DEF StreamFirst, HeadIs
    <3>2. QED
      BY <2>5, <3>1 DEF Course
  <2>10. CASE StreamAhead(b) /\ Fresh(b)
    <3>1. StreamWait(b)' /\ After(b, 1) = c /\ b # c
      BY <1>1, <2>2, <2>10, StreamAheadDone, AfterDiffers DEF StreamAhead, HeadIs
    <3>2. Fresh(b)' /\ InOrder(b, After(b, 1))'
      BY <2>6, <2>7, <2>10, <3>1
    <3>3. QED
      BY <3>1, <3>2 DEF Course
  <2>11. QED
    BY <2>8, <2>9, <2>10
<1>5. QED
  BY <1>1, <1>2, <1>3, <1>4 DEF Aged, OnCourse

(* What the client has waited for is not pending any more. *)
LEMMA AgedWait ==
    ASSUME NBuffers > 1, IInv, Aged, WaitForCompletion
    PROVE  Aged'
<1>1. /\ UNCHANGED Queue!avars /\ result' = result /\ torn' = torn /\ InCall
      /\ nowait_flag' = nowait_flag /\ Doing("wait") /\ Done /\ ClientOK
      /\ capture_mode' = capture_mode /\ ~wait_grab[Head(todo).buf]
  BY AgeTypes DEF WaitForCompletion, Unlocked, shared, grabber, Pending, Queue!avars, Done,
     Doing, InCall
<1>2. ASSUME Polled PROVE Polled'
  BY <1>1, <1>2, PolledGoesOn
<1>3. ASSUME ~torn, capture_mode = "MODE_CAP_CONTINUOUS", Course PROVE Course'
  <2>1. PICK b \in Buffers : StreamWait(b) /\ Fresh(b) /\ InOrder(b, After(b, 1))
    BY <1>1, <1>3 DEF Course, Doing, InCall, StreamFirst, StreamAhead, StreamReturn, HeadIs,
       InitOps
  <2>2. StreamReturn(b)' /\ b = Head(todo).buf
    BY <1>1, <2>1, StreamWaitDone DEF StreamWait, HeadIs
  <2>3. ~wait_grab[b] /\ OneUnlockOwed
    BY <1>1, <1>3, <2>2 DEF IInv, Balance
  <2>4. ~Waits(b)
    BY <2>3, PendingIs DEF IInv, OneUnlockOwed, Waits, InGrab
  <2>5. PICK c \in Buffers : c = After(b, 1)
    BY AfterInRing
  <2>6. Fresh(b)' /\ ~Waits(b)' /\ InOrder(b, c)'
    BY <1>1, <2>1, <2>4, <2>5, AgesKept
  <2>7. InOrder(b, After(b, 1))'
    BY <2>5, <2>6
  <2>8. QED
    BY <2>2, <2>6, <2>7 DEF Course
<1>4. QED
  BY <1>1, <1>2, <1>3, AgesKept DEF Aged, OnCourse

(* The frame handed out is newer than the last one, and the buffer that is *)
(* scheduled ahead will be newer still.                                    *)
LEMMA AgedReturn ==
    ASSUME NBuffers > 1, IInv, Aged, ReturnFrame
    PROVE  Aged' /\ (~torn => Newer)
<1>1. /\ UNCHANGED Queue!avars /\ torn' = torn /\ InCall /\ Doing("return")
      /\ nowait_flag' = nowait_flag /\ capture_mode' = capture_mode
      /\ current_buffer' = current_buffer
  BY DEF ReturnFrame, Return, shared, grabber, Pending, Queue!avars, Doing, InCall
<1>2. PICK b \in Buffers : b = Head(todo).buf
  BY <1>1, AgeTypes, HeadType
<1>3. PICK s \in Nat : s = images[b] /\ Return(s)
  BY <1>2, AgeTypes DEF ReturnFrame
<1>4. result'.stamp = s /\ result'.buf = b /\ (todo' = Tail(todo))
  BY <1>2, <1>3 DEF Return
<1>5. NoLater'
  BY <1>1, <1>3, <1>4 DEF Aged, NoLater, Queue!avars
<1>6. CASE torn \/ nowait_flag
  BY <1>1, <1>5, <1>6 DEF Aged, Newer
<1>7. CASE ~torn /\ ~nowait_flag /\ capture_mode = "MODE_CAP_SINGLE"
  <2>1. Polled' /\ result'.call # "continuous"
    BY <1>3, <1>7, PolledResult DEF Aged, OnCourse
  <2>2. QED
    BY <1>1, <1>5, <1>7, <2>1 DEF Aged, OnCourse, Newer
<1>8. CASE ~torn /\ ~nowait_flag /\ capture_mode = "MODE_CAP_CONTINUOUS"
  <2>1. StreamReturn(b) /\ Fresh(b) /\ InOrder(b, After(b, 1)) /\ ~Waits(b)
    BY <1>1, <1>2, <1>8 DEF Aged, OnCourse, Course, Doing, InCall, StreamFirst, StreamAhead,
       StreamWait, StreamReturn, HeadIs, InitOps, WaitOps
  <2>2. PICK c \in Buffers : c = After(b, 1) /\ c = current_buffer
    BY <2>1, AfterInRing DEF StreamReturn, Streaming
  <2>3. s > result.stamp /\ (Waits(c) \/ images[c] > s)
    BY <1>3, <2>1, <2>2 DEF Fresh, InOrder
  <2>4. ~InCall'
    BY <1>3, <2>1, ReturnEnds
  <2>5. Fresh(c)'
    BY <1>1, <1>4, <2>3 DEF Fresh, Waits, Queue!avars
  <2>6. Fresh(current_buffer)'
    BY <1>1, <2>2, <2>5 DEF Fresh, Waits
  <2>7. Course' /\ Polled'
    BY <1>1, <1>8, <2>4, <2>6 DEF Course, Polled
  <2>8. Newer
    BY <1>4, <2>3 DEF Newer
  <2>9. QED
    BY <1>5, <2>7, <2>8 DEF Aged, OnCourse
<1>9. QED
  BY <1>6, <1>7, <1>8, AgeTypes DEF ClientOK, Modes

(* The oldest acquisition is completed. *)
LEMMA AgedFill ==
    ASSUME NBuffers > 1, IInv, Aged, GrabFill
    PROVE  Aged'
<1>1. /\ Queue!Complete /\ UNCHANGED client /\ result' = result /\ torn' = torn
      /\ nowait_flag' = nowait_flag /\ current_buffer \in Buffers
      /\ capture_mode' = capture_mode
  BY FillCompletes, AgeTypes DEF GrabFill, client
<1>2. NoLater'
  <2>1. PICK h : images' = [images EXCEPT ![h] = captured + 1] /\ captured' = captured + 1
    BY <1>1 DEF Queue!Complete
  <2>2. QED
    BY <1>1, <2>1, AgeTypes DEF Aged, NoLater
<1>3. ASSUME NEW b \in Buffers
      PROVE  /\ Fresh(b) => Fresh(b)'
             /\ ~Waits(b) => ~Waits(b)'
             /\ \A c \in Buffers \ {b} : InOrder(b, c) => InOrder(b, c)'
  <2>1. PICK d \in Buffers \ {b} : d = After(b, 1)
    BY AfterInRing, AfterDiffers
  <2>2. QED
    BY <1>1, <2>1, CompleteInOrder DEF Aged
<1>4. Course => Course'
  BY <1>1, <1>3, CourseKept
<1>5. Polled => Polled'
  BY <1>1 DEF Polled, client
<1>6. QED
  BY <1>1, <1>2, <1>4, <1>5 DEF Aged, OnCourse

(* Every step keeps the ages, and hands out newer frames only. *)
LEMMA AgedStep ==
    ASSUME NBuffers > 1, IInv, Aged, [Next]_vars
    PROVE  Aged' /\ (~torn => Newer \/ UNCHANGED result)
<1>1. CASE Call \/ InitiateLock \/ InitiatePush \/ WaitForCompletion
  <2>1. result' = result
    BY <1>1 DEF Call, BeginCall, NextFrameContinuous, NextFramePoll, RequestFramePoll, Poll,
       Begin, CurrentFrameContinuous, InitiateLock, InitiatePush, WaitForCompletion, Done, Becomes
  <2>2. QED
    BY <1>1, <2>1, AgedCall, AgedLock, AgedPush, AgedWait
<1>2. CASE ReturnFrame
  BY <1>2, AgedReturn
<1>3. CASE GrabFill
  BY <1>3, AgedFill DEF GrabFill, client
<1>4. CASE GrabPop
  <2>1. UNCHANGED client /\ UNCHANGED <<images, captured, torn, nowait_flag>>
    BY <1>4 DEF GrabPop
  <2>2. CASE ~torn
    BY <1>4, <2>1, <2>2, PopKeepsPending, AgedKept DEF Queue!avars, client
  <2>3. CASE torn
    BY <2>1, <2>3 DEF Aged, NoLater, client
  <2>4. QED
    BY <2>2, <2>3
<1>5. CASE GrabLook
  <2>1. UNCHANGED client /\ UNCHANGED Queue!avars /\ nowait_flag' = nowait_flag
    BY <1>5 DEF GrabLook, shared, Pending, Queue!avars
  <2>2. torn => torn'
    <3>1. torn' = (torn \/ linking)
      BY <1>5 DEF GrabLook
    <3>2. QED
      BY <3>1, Zenon
  <2>3. QED
    BY <2>1, <2>2, AgedKept DEF client
<1>6. CASE InitiateHook \/ DeleteJoined \/ Delete \/ DeleteLater \/ GrabTest \/ GrabUnlock \/ UNCHANGED vars
  <2>1. UNCHANGED client /\ UNCHANGED Queue!avars /\ nowait_flag' = nowait_flag /\ torn' = torn
    BY <1>6 DEF InitiateHook, DeleteJoined, Delete, DeleteLater, GrabTest, GrabUnlock, vars, shared, grabber,
       Pending, Queue!avars
  <2>2. QED
    BY <2>1, AgedKept DEF client
<1>7. QED
  BY <1>1, <1>2, <1>3, <1>4, <1>5, <1>6 DEF Next, Client, Grabber

(* With two buffers or more, and until a half linked list has been read,   *)
(* each frame of next_frame_continuous() was captured after the frame that *)
(* the client was given before, by whichever function; so without torn     *)
(* reads all of them were.                                                 *)
THEOREM FramesGetNewer ==
    ASSUME NBuffers > 1
    PROVE  /\ Spec => [][~torn => Newer]_result
           /\ TornReads = FALSE => (Spec => EachFrameNewer)
<1>1. Init => IInv /\ Aged
  <2>1. ASSUME Init PROVE Polled /\ (capture_mode # "MODE_CAP_CONTINUOUS") /\ NoLater
    BY <2>1 DEF Init, ClientInit, Polled, NoLater
  <2>2. QED
    BY <2>1, InitTypes, InitBalance DEF IInv, Aged, OnCourse
<1>2. IInv /\ Aged /\ [Next]_vars => (IInv /\ Aged)'
  BY TypesStep, BalanceStep, AgedStep DEF IInv
<1>3. IInv /\ Aged /\ [Next]_vars => [~torn => Newer]_result
  BY AgedStep
<1>4. Spec => [][~torn => Newer]_result
  BY <1>1, <1>2, <1>3, PTL DEF Spec
<1>5. ASSUME TornReads = FALSE PROVE Spec => EachFrameNewer
  <2>1. Init => Whole
    BY InitWhole
  <2>2. Whole /\ [Next]_vars => Whole'
    BY <1>5, WholeStep
  <2>3. IInv /\ Aged /\ Whole /\ [Next]_vars => [Newer]_result
    BY AgedStep DEF Whole
  <2>4. QED
    BY <1>1, <1>2, <2>1, <2>2, <2>3, PTL DEF Spec, EachFrameNewer
<1>6. QED
  BY <1>4, <1>5
=============================================================================
