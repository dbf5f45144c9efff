----------------------------- MODULE V4L2_proofs -----------------------------
(* The driver's buffers and the client's never mix (V4L2.tla), for every   *)
(* number of buffers and of calls.                                         *)
EXTENDS V4L2, VideoClient_proofs

(* A step of the client's is for one of the buffers. *)
LEMMA HeadOK ==
    ASSUME ClientOK, InCall
    PROVE  /\ buf \in Buffers /\ Head(todo).call \in Calls
           /\ FailedIn(Head(todo).call) \subseteq Troubles
<1>1. Head(todo) \in Step
  BY DEF ClientOK, InCall
<1>2. QED
  BY <1>1 DEF Step, buf, FailedIn, Troubles

(* The streaming starts with all variables of their types. *)
LEMMA InitType == Init => TypeOK
<1> SUFFICES ASSUME Init
             PROVE  TypeOK
  OBVIOUS
<1>1. ClientOK
  BY ClientInitType DEF Init
<1>2. result \in [call : Calls \cup {"none"}, buf : Buffers, stamp : Nat]
  BY RingAssumption DEF Init, ClientInit, Buffers
<1>3. QED
  BY <1>1, <1>2, V4L2Assumption DEF Init, TypeOK, Short, Troubles

(* A call that begins changes nothing in the driver. *)
LEMMA CallType ==
    ASSUME TypeOK, Call
    PROVE  TypeOK'
<1>1. ClientOK /\ ClientOK' /\ todo' \in Seq(PlanStep)
  BY BeginCallType, BeginCallPlans DEF TypeOK, Call
<1>3. result' = result
  BY DEF Call, BeginCall, NextFrameContinuous, NextFramePoll, RequestFramePoll, Poll, Begin
<1>4. FailedIn(Head(todo').call) \subseteq Troubles
  BY DEF FailedIn, Troubles
<1>5. QED
  BY <1>1, <1>3, <1>4 DEF TypeOK, Call, driver

(* QBUF *)
LEMMA InitiateAcquireType ==
    ASSUME TypeOK, InitiateAcquire
    PROVE  TypeOK'
<1>1. ClientOK /\ InCall /\ ClientOK'
  BY DoneType DEF TypeOK, InitiateAcquire, Doing, InCall
<1>2. buf \in Buffers
  BY <1>1, HeadOK
<1>3. queued' \in Seq(Buffers)
  <2>1. PICK b \in Buffers : b = buf
    BY <1>2
  <2>2. queued' \in {queued, Append(queued, b)}
    BY <2>1 DEF InitiateAcquire, Scheduled
  <2>3. queued \in Seq(Buffers)
    BY DEF TypeOK
  <2>4. QED
    BY <2>2, <2>3
<1>4. QED
  BY <1>1, <1>3 DEF TypeOK, InitiateAcquire, Done, world

(* DQBUF *)
LEMMA WaitForCompletionType ==
    ASSUME TypeOK, WaitForCompletion
    PROVE  TypeOK'
<1>1. ClientOK /\ InCall
  BY DEF TypeOK, WaitForCompletion, Doing, InCall
<1>2. Done \/ Becomes("decode")
  BY DEF WaitForCompletion
<1>3. ClientOK' /\ result' = result
  BY <1>1, <1>2, DoneType, BecomesType DEF Done, Becomes, Ops
<1>4. done' \in Seq(Buffers)
  BY DEF TypeOK, WaitForCompletion
<1>5. QED
  BY <1>3, <1>4 DEF TypeOK, WaitForCompletion, world

(* The copy, the failing DQBUF and the return *)
LEMMA CopyPixelsType ==
    ASSUME TypeOK, CopyPixels
    PROVE  TypeOK'
<1>1. ClientOK /\ InCall /\ ClientOK'
  BY DoneType DEF TypeOK, CopyPixels, Doing, InCall
<1>2. PICK b \in Buffers : b = buf
  BY <1>1, HeadOK
<1>3. images' = [images EXCEPT ![b] = mm_buf[b]]
  BY <1>2 DEF CopyPixels
<1>4. images' \in [Buffers -> Nat]
  BY <1>3 DEF TypeOK
<1>5. QED
  BY <1>1, <1>4 DEF TypeOK, CopyPixels, Done, driver, world

(* A failure is remembered. *)
LEMMA DequeueFailsType ==
    ASSUME TypeOK, DequeueFails
    PROVE  TypeOK'
<1>1. ClientOK /\ InCall /\ ClientOK'
  BY DoneType DEF TypeOK, DequeueFails, Doing, InCall
<1>2. FailedIn(Head(todo).call) \subseteq Troubles
  BY <1>1, HeadOK
<1>3. failures' \in 0..MaxFailures
  BY V4L2Assumption DEF TypeOK, DequeueFails
<1>4. QED
  BY <1>1, <1>2, <1>3 DEF TypeOK, DequeueFails, Done, driver

(* A frame is handed out. *)
LEMMA ReturnFrameType ==
    ASSUME TypeOK, ReturnFrame
    PROVE  TypeOK'
<1>1. ClientOK /\ InCall
  BY DEF TypeOK, ReturnFrame, Doing, InCall
<1>2. PICK stamp \in Nat : stamp = Shown(buf)
  BY <1>1, HeadOK DEF TypeOK, Shown
<1>3. Return(stamp)
  BY <1>2 DEF ReturnFrame
<1>4. ClientOK'
  BY <1>1, <1>3, ReturnType
<1>5. result' \in [call : Calls \cup {"none"}, buf : Buffers, stamp : Nat]
  BY <1>1, <1>2, <1>3, HeadOK DEF Return, buf
<1>6. QED
  BY <1>4, <1>5 DEF TypeOK, ReturnFrame, driver, world

(* New buffers *)
LEMMA OpenType ==
    ASSUME TypeOK, Open
    PROVE  TypeOK'
<1>1. ClientOK'
  BY DEF TypeOK, Open, ClientOK, InCall
<1>2. result' \in [call : Calls \cup {"none"}, buf : Buffers, stamp : Nat]
  BY DEF TypeOK, Open
<1>3. troubles' \subseteq Troubles
  BY DEF TypeOK, Open, Short, Troubles
<1>4. QED
  BY <1>1, <1>2, <1>3 DEF TypeOK, Open

(* The camera delivers. *)
LEMMA CaptureType ==
    ASSUME TypeOK, Capture
    PROVE  TypeOK'
<1>1. PICK b \in Buffers : b = Head(queued)
  BY DEF TypeOK, Capture
<1>2. /\ queued' \in Seq(Buffers) /\ done' \in Seq(Buffers)
      /\ captured' \in Nat /\ mm_buf' \in [Buffers -> Nat]
  <2>1. queued' = Tail(queued) /\ done' = Append(done, b)
        /\ mm_buf' = [mm_buf EXCEPT ![b] = captured + 1] /\ captured' = captured + 1
    BY <1>1 DEF Capture
  <2>2. QED
    BY <2>1 DEF TypeOK, Capture
<1>3. ClientOK'
  BY DEF TypeOK, Capture, ClientOK, client, InCall
<1>4. QED
  BY <1>2, <1>3 DEF TypeOK, Capture, client, world

(* A stuttering step *)
LEMMA StutterType == TypeOK /\ UNCHANGED vars => TypeOK'
  BY DEF TypeOK, ClientOK, InCall, vars, client, driver, world

(* Every step keeps the types. *)
LEMMA NextType == TypeOK /\ [Next]_vars => TypeOK'
  BY CallType, InitiateAcquireType, WaitForCompletionType, CopyPixelsType,
     DequeueFailsType, ReturnFrameType, OpenType, CaptureType, StutterType
     DEF Next, Client

(* The variables of XVV4L2 and of its driver keep their types, among them  *)
(* the ring index and the queues, whatever the driver grants or refuses.   *)
THEOREM TypeCorrect == Spec => []TypeOK
  BY InitType, NextType, PTL DEF Spec
-----------------------------------------------------------------------------
(* What the driver has, in the order in which it gives it back *)
Held == done \o queued

(* Unless a DQBUF has failed, the driver has nothing, or no buffer but     *)
(* these in this order; unless anything has gone wrong, exactly these.     *)
HoldsNone == failures = 0 => Held = <<>>
HoldsOne(b) == /\ failures = 0 => Held \in {<<>>, <<b>>}
               /\ troubles = {} => Held = <<b>>
HoldsTwo(b, c) == /\ failures = 0 => Held \in {<<>>, <<b>>, <<c>>, <<b, c>>}
                  /\ troubles = {} => Held = <<b, c>>

(* Between calls, in the rounds of the polling loop, and on the way to     *)
(* returning buffer b of continuous mode *)
Idle == /\ ~InCall
        /\ IF capture_mode = "MODE_CAP_CONTINUOUS" THEN HoldsOne(current_buffer)
           ELSE HoldsNone
Polling == \/ PollInit /\ Doing("initiate") /\ HoldsNone
           \/ PollWait /\ Doing("wait") /\ HoldsOne(buf)
           \/ PollWait /\ Doing("decode") /\ HoldsNone
           \/ PollReturn /\ HoldsNone
Continuing(b) == \/ StreamFirst(b) /\ Doing("initiate") /\ HoldsNone
                 \/ StreamAhead(b) /\ Doing("initiate") /\ HoldsOne(b)
                 \/ StreamWait(b) /\ Doing("wait") /\ HoldsTwo(b, After(b, 1))
                 \/ StreamWait(b) /\ Doing("decode") /\ HoldsOne(After(b, 1))
                 \/ StreamReturn(b) /\ HoldsOne(After(b, 1))

(* A frame in the user's hands is not the driver's. *)
Kept == ~InCall /\ result.call # "none" /\ failures = 0 => result.buf \notin InDriver

IInv ==
    /\ TypeOK
    /\ troubles = {} => failures = 0 /\ granted = NBuffers
    /\ Idle \/ Polling \/ \E b \in Buffers : Continuing(b)
    /\ Kept

(* The queues of the driver as one *)
LEMMA HeldQueued ==
    ASSUME NEW d \in Seq(Buffers), NEW q \in Seq(Buffers), NEW b \in Buffers
    PROVE  d \o Append(q, b) = Append(d \o q, b)
  OBVIOUS

(* A buffer that becomes full keeps its place. *)
LEMMA HeldMoved ==
    ASSUME NEW d \in Seq(Buffers), NEW q \in Seq(Buffers), q # <<>>
    PROVE  Append(d, Head(q)) \o Tail(q) = d \o q
  OBVIOUS

(* The oldest full buffer is the first of all. *)
LEMMA HeldTaken ==
    ASSUME NEW d \in Seq(Buffers), NEW q \in Seq(Buffers), d # <<>>
    PROVE  d \o q # <<>> /\ Head(d) = Head(d \o q) /\ Tail(d) \o q = Tail(d \o q)
  OBVIOUS

(* The buffers of the two queues are those of both together.               *)
LEMMA HeldMembers ==
    ASSUME NEW d \in Seq(Buffers), NEW q \in Seq(Buffers)
    PROVE  Members(q) \cup Members(d) = Members(d \o q)
<1>1. PICK m \in Nat : m = Len(d)
  OBVIOUS
<1>2. PICK n \in Nat : n = Len(q)
  OBVIOUS
<1>3. PICK s \in Seq(Buffers) : s = d \o q /\ Len(s) = m + n
        /\ (\A i \in 1..m : s[i] = d[i]) /\ (\A i \in 1..n : s[m + i] = q[i])
  <2> d \o q \in Seq(Buffers)
    OBVIOUS
  <2>1. PICK s \in Seq(Buffers) : s = d \o q
    OBVIOUS
  <2>2. Len(s) = m + n /\ \A i \in 1..m : s[i] = d[i]
    BY <1>1, <1>2, <2>1
  <2>3. ASSUME NEW i \in 1..n PROVE s[m + i] = q[i]
    <3>1. PICK k \in 1..(m + n) : k = m + i /\ k > m /\ i = k - m
      OBVIOUS
    <3>2. s[k] = q[k - Len(d)]
      BY <1>1, <1>2, <2>1, <3>1
    <3>3. QED
      BY <1>1, <3>1, <3>2
  <2>4. QED
    BY <2>1, <2>2, <2>3
<1>4. \A i \in 1..(m + n) : i \in 1..m \/ (i - m \in 1..n /\ s[i] = q[i - m])
  <2>1. TAKE i \in 1..(m + n)
  <2>2. CASE i > m
    <3>1. PICK j \in 1..n : j = i - m /\ i = m + j
      BY <2>2
    <3>2. QED
      BY <1>3, <3>1
  <2>3. QED
    BY <2>2
<1>5. \A i \in 1..n : m + i \in 1..(m + n)
  OBVIOUS
<1>6. \A i \in 1..m : i \in 1..(m + n)
  OBVIOUS
<1>7. DOMAIN s = 1..(m + n) /\ DOMAIN d = 1..m /\ DOMAIN q = 1..n
  BY <1>1, <1>2, <1>3
<1>8. Members(s) \subseteq Members(q) \cup Members(d)
  BY <1>3, <1>4, <1>7 DEF Members
<1>9. Members(q) \subseteq Members(s) /\ Members(d) \subseteq Members(s)
  BY <1>3, <1>5, <1>6, <1>7 DEF Members
<1>10. QED
  BY <1>3, <1>8, <1>9
-----------------------------------------------------------------------------
(* What a step does to what the driver has *)

(* A step that leaves the queues as one, and cures nothing *)
LEMMA HoldsSame ==
    ASSUME Held' = Held, failures' = failures, troubles \subseteq troubles'
    PROVE  /\ HoldsNone => HoldsNone'
           /\ \A b \in Buffers : HoldsOne(b) => HoldsOne(b)'
           /\ \A b, c \in Buffers : HoldsTwo(b, c) => HoldsTwo(b, c)'
  BY DEF HoldsNone, HoldsOne, HoldsTwo

(* A list of one becomes a list of two.                                    *)
LEMMA AppendOne ==
    ASSUME NEW S, NEW a \in S, NEW b \in S
    PROVE  Append(<<a>>, b) = <<a, b>>
<1>1. <<a>> \in Seq(S) /\ Len(<<a>>) = 1 /\ <<a>>[1] = a
  OBVIOUS
<1>2. PICK s \in Seq(S) : s = <<a>> /\ Len(s) = 1 /\ s[1] = a
  BY <1>1, Zenon
<1>3. /\ Append(s, b) \in Seq(S) /\ Len(Append(s, b)) = Len(s) + 1
      /\ Append(s, b)[Len(s) + 1] = b
  OBVIOUS
<1>4. \A i \in 1..Len(s) : Append(s, b)[i] = s[i]
  OBVIOUS
<1>5. PICK t \in Seq(S) : /\ t = Append(s, b) /\ Len(t) = Len(s) + 1
      /\ (\A i \in 1..Len(s) : t[i] = s[i]) /\ t[Len(s) + 1] = b
  BY <1>3, <1>4, Zenon
<1>6. Len(t) = 2 /\ t[1] = a /\ t[2] = b
  BY <1>2, <1>5
<1>7. t = <<a, b>>
  BY <1>6
<1>8. QED
  BY <1>2, <1>5, <1>7, Zenon

(* QBUF appends a buffer, unless the driver has it or does not know it.    *)
LEMMA InitiateHolds ==
    ASSUME IInv, InitiateAcquire, NEW b \in Buffers, buf = b
    PROVE  /\ HoldsNone => HoldsOne(b)'
           /\ \A a \in Buffers \ {b} : HoldsOne(a) => HoldsTwo(a, b)'
<1>1. /\ done \in Seq(Buffers) /\ queued \in Seq(Buffers) /\ granted = granted'
      /\ failures' = failures /\ troubles' = troubles
      /\ troubles = {} => failures = 0 /\ granted = NBuffers
  BY DEF IInv, TypeOK, InitiateAcquire, world
<1>2. PICK h : h = Held
  OBVIOUS
<1>3. h \in Seq(Buffers) /\ InDriver = Members(h)
  BY <1>1, <1>2, HeldMembers DEF Held, InDriver
<1>4. \/ Held' = h
      \/ Held' = Append(h, b)
  BY <1>1, <1>2, HeldQueued DEF Held, InitiateAcquire, Scheduled
<1>5. troubles = {} /\ b \notin Members(h) => Held' = Append(h, b)
  <2>1. ASSUME troubles = {}, b \notin Members(h) PROVE queued' = Append(queued, b)
    <3>1. b < granted
      BY <1>1, <2>1, RingAssumption DEF Buffers
    <3>2. QED
      BY <1>3, <2>1, <3>1 DEF InitiateAcquire, Scheduled
  <2>2. done' = done
    BY DEF InitiateAcquire
  <2>3. QED
    BY <1>1, <1>2, <2>1, <2>2, HeldQueued DEF Held
<1>6. Members(<<>>) = {}
  BY DEF Members
<1>7. ASSUME HoldsNone PROVE HoldsOne(b)'
  <2>1. failures = 0 => h = <<>>
    BY <1>2, <1>7 DEF HoldsNone
  <2>2. failures = 0 => Held' \in {<<>>, <<b>>}
    BY <1>4, <2>1
  <2>3. troubles = {} => Held' = <<b>>
    BY <1>1, <1>5, <1>6, <2>1
  <2>4. QED
    BY <1>1, <2>2, <2>3 DEF HoldsOne
<1>8. ASSUME NEW a \in Buffers \ {b}, HoldsOne(a) PROVE HoldsTwo(a, b)'
  <2>1. /\ failures = 0 => h \in {<<>>, <<a>>}
        /\ troubles = {} => h = <<a>>
    BY <1>2, <1>8 DEF HoldsOne
  <2>2. Append(<<>>, b) = <<b>> /\ Append(<<a>>, b) = <<a, b>>
    BY AppendOne
  <2>3. failures = 0 => Held' \in {<<>>, <<a>>, <<b>>, <<a, b>>}
    BY <1>4, <2>1, <2>2
  <2>4. Members(<<a>>) = {a}
    BY DEF Members
  <2>5. troubles = {} => Held' = <<a, b>>
    BY <1>5, <1>8, <2>1, <2>2, <2>4
  <2>6. QED
    BY <1>1, <2>3, <2>5 DEF HoldsTwo
<1>9. QED
  BY <1>7, <1>8

(* DQBUF takes the first of them. *)
LEMMA WaitHolds ==
    ASSUME TypeOK, WaitForCompletion
    PROVE  /\ \A b \in Buffers : HoldsOne(b) => HoldsNone'
           /\ \A b, c \in Buffers : HoldsTwo(b, c) => HoldsOne(c)'
<1>1. /\ done \in Seq(Buffers) /\ queued \in Seq(Buffers) /\ done # <<>>
      /\ failures' = failures /\ troubles' = troubles
      /\ troubles = {} => failures = 0 \/ failures # 0
  BY DEF TypeOK, WaitForCompletion, world
<1>2. PICK h : h = Held
  OBVIOUS
<1>3. h # <<>> /\ Held' = Tail(h)
  BY <1>1, <1>2, HeldTaken DEF Held, WaitForCompletion
<1>4. ASSUME NEW b \in Buffers, HoldsOne(b) PROVE HoldsNone'
  <2>1. Tail(<<b>>) = <<>>
    OBVIOUS
  <2>2. QED
    BY <1>1, <1>2, <1>3, <1>4, <2>1 DEF HoldsOne, HoldsNone
<1>5. ASSUME NEW b \in Buffers, NEW c \in Buffers, HoldsTwo(b, c) PROVE HoldsOne(c)'
  <2>1. Tail(<<b>>) = <<>> /\ Tail(<<c>>) = <<>> /\ Tail(<<b, c>>) = <<c>>
    OBVIOUS
  <2>2. QED
    BY <1>1, <1>2, <1>3, <1>5, <2>1 DEF HoldsOne, HoldsTwo
<1>6. QED
  BY <1>4, <1>5

(* After a failure nothing is promised. *)
LEMMA FailureHolds ==
    ASSUME TypeOK, DequeueFails
    PROVE  /\ failures' # 0 /\ troubles' # {} /\ HoldsNone'
           /\ \A b \in Buffers : HoldsOne(b)'
<1>1. failures' # 0
  BY DEF TypeOK, DequeueFails
<1>2. troubles' # {}
  BY DEF DequeueFails, FailedIn
<1>3. QED
  BY <1>1, <1>2 DEF HoldsNone, HoldsOne
-----------------------------------------------------------------------------
(* Each operation keeps the invariant. *)

(* Where the invariant is, from what the client does *)
LEMMA Phase ==
    ASSUME IInv
    PROVE  /\ ~InCall => Idle
           /\ Doing("initiate") =>
                \/ PollInit /\ HoldsNone
                \/ \E b \in Buffers : \/ StreamFirst(b) /\ HoldsNone
                                      \/ StreamAhead(b) /\ HoldsOne(b)
           /\ Doing("wait") =>
                \/ PollWait /\ HoldsOne(buf)
                \/ \E b \in Buffers : StreamWait(b) /\ HoldsTwo(b, After(b, 1))
           /\ Doing("decode") =>
                \/ PollWait /\ HoldsNone
                \/ \E b \in Buffers : StreamWait(b) /\ HoldsOne(After(b, 1))
           /\ Doing("return") =>
                \/ PollReturn /\ HoldsNone
                \/ \E b \in Buffers : StreamReturn(b) /\ HoldsOne(After(b, 1))
  BY DEF IInv, Idle, Polling, Continuing, Doing, InCall, PollInit, PollWait, PollReturn,
         StreamFirst, StreamAhead, StreamWait, StreamReturn, HeadIs, InitOps, WaitOps

(* The user has no frame in the middle of a call. *)
LEMMA BusyKept == InCall' => Kept'
  BY DEF Kept

(* A call begins. *)
LEMMA CallStep ==
    ASSUME IInv, Call
    PROVE  IInv'
<1>1. TypeOK' /\ ClientOK /\ BeginCall
  BY CallType DEF IInv, TypeOK, Call
<1>2. PICK b \in Buffers : b = current_buffer
  BY <1>1 DEF ClientOK
<1>3. Idle
  BY <1>1, Phase DEF BeginCall, NextFrameContinuous, NextFramePoll, RequestFramePoll, Poll,
     Begin, InCall
<1>4. /\ capture_mode = "MODE_CAP_CONTINUOUS" => HoldsOne(b)
      /\ capture_mode # "MODE_CAP_CONTINUOUS" => HoldsNone
  BY <1>2, <1>3 DEF Idle
<1>5. Held' = Held /\ failures' = failures /\ troubles \subseteq troubles' /\ granted' = granted
  BY DEF Call, driver, Held
<1>6. (HoldsNone => HoldsNone') /\ (HoldsOne(b) => HoldsOne(b)')
  BY <1>5, HoldsSame
<1>7. BeginsOnPlan(b)
  BY <1>1, <1>2, CallBegins
<1>8. (Polling \/ \E c \in Buffers : Continuing(c))'
  BY <1>4, <1>6, <1>7 DEF BeginsOnPlan, Polling, Continuing, buf
<1>9. Kept'
  BY <1>7 DEF Kept, BeginsOnPlan, InCall, StreamFirst, StreamAhead, HeadIs, PollInit, PollWait,
     PollReturn
<1>10. troubles' = {} => failures' = 0 /\ granted' = NBuffers
  BY <1>5 DEF IInv
<1>11. QED
  BY <1>1, <1>8, <1>9, <1>10 DEF IInv

(* A buffer is queued. *)
LEMMA InitiateStep ==
    ASSUME NBuffers > 1, IInv, InitiateAcquire
    PROVE  IInv'
<1>1. TypeOK /\ TypeOK' /\ ClientOK /\ InCall
  BY InitiateAcquireType DEF IInv, TypeOK, InitiateAcquire, Doing, InCall
<1>2. PICK b \in Buffers : b = buf
  BY <1>1, HeadOK
<1>3. Done /\ Doing("initiate")
  BY DEF InitiateAcquire
<1>4. (HoldsNone => HoldsOne(b)') /\ \A a \in Buffers \ {b} : HoldsOne(a) => HoldsTwo(a, b)'
  BY <1>2, InitiateHolds
<1>5. CASE PollInit /\ HoldsNone
  <2>1. PollWait' /\ Doing("wait")' /\ Head(todo').buf = b
    BY <1>2, <1>3, <1>5, PollInitDone DEF buf
  <2>2. Polling'
    BY <1>4, <1>5, <2>1 DEF Polling, buf
  <2>3. QED
    BY <2>1, <2>2, BusyKept, <1>1 DEF IInv, InitiateAcquire, world, PollWait, InCall
<1>6. ASSUME NEW a \in Buffers, StreamFirst(a), HoldsNone
      PROVE  IInv'
  <2>1. StreamAhead(a)' /\ Doing("initiate")' /\ a = b
    BY <1>2, <1>3, <1>6, StreamFirstDone DEF StreamFirst, HeadIs, buf
  <2>2. Continuing(a)'
    BY <1>4, <1>6, <2>1 DEF Continuing
  <2>3. QED
    BY <2>1, <2>2, BusyKept, <1>1 DEF IInv, InitiateAcquire, world, StreamAhead, HeadIs, InCall
<1>7. ASSUME NEW a \in Buffers, StreamAhead(a), HoldsOne(a)
      PROVE  IInv'
  <2>1. StreamWait(a)' /\ Doing("wait")' /\ After(a, 1) = b
    BY <1>2, <1>3, <1>7, StreamAheadDone DEF StreamAhead, HeadIs, buf
  <2>2. a \in Buffers \ {b}
    BY <2>1, AfterDiffers
  <2>3. HoldsTwo(a, After(a, 1))'
    BY <1>4, <1>7, <2>1, <2>2
  <2>4. Continuing(a)'
    BY <2>1, <2>3 DEF Continuing
  <2>5. QED
    BY <2>1, <2>4, BusyKept, <1>1 DEF IInv, InitiateAcquire, world, StreamWait, HeadIs, InCall
<1>8. QED
  BY <1>3, <1>5, <1>6, <1>7, Phase

(* A buffer is given back, and copied or not. *)
LEMMA WaitStep ==
    ASSUME IInv, WaitForCompletion
    PROVE  IInv'
<1>1. TypeOK /\ TypeOK' /\ ClientOK /\ InCall /\ Doing("wait")
  BY WaitForCompletionType DEF IInv, TypeOK, WaitForCompletion, Doing, InCall
<1>2. PICK b \in Buffers : b = buf
  BY <1>1, HeadOK
<1>3. troubles' = {} => failures' = 0 /\ granted' = NBuffers
  BY DEF IInv, WaitForCompletion, world
<1>4. /\ \A c \in Buffers : HoldsOne(c) => HoldsNone'
      /\ \A c, d \in Buffers : HoldsTwo(c, d) => HoldsOne(d)'
  BY <1>1, WaitHolds
<1>5. CASE PollWait /\ HoldsOne(buf)
  <2>1. HoldsNone'
    BY <1>2, <1>4, <1>5
  <2>2. CASE Done
    <3>1. (PollInit' /\ Doing("initiate")') \/ PollReturn'
      BY <1>5, <2>2, PollWaitDone
    <3>2. Polling' /\ InCall'
      BY <2>1, <3>1 DEF Polling, InCall, PollInit, PollReturn
    <3>3. QED
      BY <1>1, <1>3, <3>2, BusyKept DEF IInv
  <2>3. CASE Becomes("decode")
    <3>1. PollWait' /\ Doing("decode")'
      BY <1>1, <1>5, <2>3, WaitBecomes, BecomesSame DEF WaitOps, Ops
    <3>2. Polling' /\ InCall'
      BY <2>1, <3>1 DEF Polling, InCall, PollWait
    <3>3. QED
      BY <1>1, <1>3, <3>2, BusyKept DEF IInv
  <2>4. QED
    BY <2>2, <2>3 DEF WaitForCompletion
<1>6. ASSUME NEW a \in Buffers, StreamWait(a), HoldsTwo(a, After(a, 1))
      PROVE  IInv'
  <2>1. HoldsOne(After(a, 1))'
    BY <1>4, <1>6, AfterInRing
  <2>2. CASE Done
    <3>1. StreamReturn(a)'
      BY <1>6, <2>2, StreamWaitDone
    <3>2. Continuing(a)' /\ InCall'
      BY <2>1, <3>1 DEF Continuing, InCall, StreamReturn, HeadIs
    <3>3. QED
      BY <1>1, <1>3, <3>2, BusyKept DEF IInv
  <2>3. CASE Becomes("decode")
    <3>1. StreamWait(a)' /\ Doing("decode")'
      BY <1>1, <1>6, <2>3, WaitBecomes, BecomesSame DEF WaitOps, Ops
    <3>2. Continuing(a)' /\ InCall'
      BY <2>1, <3>1 DEF Continuing, InCall, StreamWait, HeadIs
    <3>3. QED
      BY <1>1, <1>3, <3>2, BusyKept DEF IInv
  <2>4. QED
    BY <2>2, <2>3 DEF WaitForCompletion
<1>7. QED
  BY <1>1, <1>5, <1>6, Phase

(* What leaves the client, the queues as one and the failures alone keeps  *)
(* the phase of the call. *)
LEMMA UnchangedPhase ==
    ASSUME todo' = todo, capture_mode' = capture_mode, current_buffer' = current_buffer,
           Held' = Held, failures' = failures, troubles' = troubles,
           Idle \/ Polling \/ \E b \in Buffers : Continuing(b)
    PROVE  (Idle \/ Polling \/ \E b \in Buffers : Continuing(b))'
<1>1. CASE Idle
  BY <1>1 DEF Idle, HoldsOne, HoldsNone, InCall
<1>2. CASE Polling
  BY <1>2 DEF Polling, PollInit, PollWait, PollReturn, Doing, HoldsOne, HoldsNone, buf
<1>3. ASSUME NEW b \in Buffers, Continuing(b) PROVE Continuing(b)'
  BY <1>3 DEF Continuing, StreamFirst, StreamAhead, StreamWait, StreamReturn, Streaming,
     HeadIs, Doing, HoldsNone, HoldsOne, HoldsTwo
<1>4. QED
  BY <1>1, <1>2, <1>3

(* A copy of pixels *)
LEMMA CopyStep ==
    ASSUME IInv, CopyPixels
    PROVE  IInv'
<1>1. TypeOK' /\ Done /\ Doing("decode") /\ ClientOK
  BY CopyPixelsType DEF IInv, TypeOK, CopyPixels
<1>2. Held' = Held /\ failures' = failures /\ troubles' = troubles /\ granted' = granted
  BY DEF CopyPixels, driver, world, Held
<1>3. (HoldsNone => HoldsNone') /\ \A b \in Buffers : HoldsOne(b) => HoldsOne(b)'
  BY <1>2, HoldsSame
<1>4. CASE PollWait /\ HoldsNone
  <2>1. (PollInit' /\ Doing("initiate")') \/ PollReturn'
    BY <1>1, <1>4, PollWaitDone
  <2>2. Polling' /\ InCall'
    BY <1>3, <1>4, <2>1 DEF Polling, InCall, PollInit, PollReturn
  <2>3. QED
    BY <1>1, <1>2, <2>2, BusyKept DEF IInv
<1>5. ASSUME NEW a \in Buffers, StreamWait(a), HoldsOne(After(a, 1))
      PROVE  IInv'
  <2>1. StreamReturn(a)' /\ HoldsOne(After(a, 1))'
    BY <1>1, <1>3, <1>5, StreamWaitDone, AfterInRing
  <2>2. Continuing(a)' /\ InCall'
    BY <2>1 DEF Continuing, InCall, StreamReturn, HeadIs
  <2>3. QED
    BY <1>1, <1>2, <2>2, BusyKept DEF IInv
<1>6. QED
  BY <1>1, <1>4, <1>5, Phase

(* A failure ends the promises. *)
LEMMA DequeueFailsStep ==
    ASSUME IInv, DequeueFails
    PROVE  IInv'
<1>1. TypeOK /\ TypeOK' /\ Done /\ Doing("wait") /\ ClientOK
  BY DequeueFailsType DEF IInv, TypeOK, DequeueFails
<1>2. failures' # 0 /\ troubles' # {} /\ HoldsNone' /\ \A b \in Buffers : HoldsOne(b)'
  BY <1>1, FailureHolds
<1>3. CASE PollWait
  <2>1. (PollInit' /\ Doing("initiate")') \/ PollReturn'
    BY <1>1, <1>3, PollWaitDone
  <2>2. Polling' /\ InCall'
    BY <1>2, <2>1 DEF Polling, InCall, PollInit, PollReturn
  <2>3. QED
    BY <1>1, <1>2, <2>2, BusyKept DEF IInv
<1>4. ASSUME NEW a \in Buffers, StreamWait(a)
      PROVE  IInv'
  <2>1. StreamReturn(a)' /\ HoldsOne(After(a, 1))'
    BY <1>1, <1>2, <1>4, StreamWaitDone, AfterInRing
  <2>2. Continuing(a)' /\ InCall'
    BY <2>1 DEF Continuing, InCall, StreamReturn, HeadIs
  <2>3. QED
    BY <1>1, <1>2, <2>2, BusyKept DEF IInv
<1>5. QED
  BY <1>1, <1>3, <1>4, Phase

(* A frame is handed out, which the driver does not have. *)
LEMMA ReturnStep ==
    ASSUME NBuffers > 1, IInv, ReturnFrame
    PROVE  IInv'
<1>1. TypeOK /\ TypeOK' /\ Doing("return") /\ ClientOK /\ InCall
  BY ReturnFrameType DEF IInv, TypeOK, ReturnFrame, Doing, InCall
<1>2. PICK b \in Buffers : b = buf
  BY <1>1, HeadOK
<1>3. /\ Held' = Held /\ failures' = failures /\ troubles' = troubles /\ granted' = granted
      /\ InDriver' = InDriver
  BY DEF ReturnFrame, driver, world, Held, InDriver
<1>4. (HoldsNone => HoldsNone') /\ \A c \in Buffers : HoldsOne(c) => HoldsOne(c)'
  BY <1>3, HoldsSame
<1>5. InDriver = Members(Held)
  BY <1>1, HeldMembers DEF TypeOK, InDriver, Held
<1>6. Members(<<>>) = {} /\ \A c : Members(<<c>>) = {c}
  BY DEF Members
<1>7. Return(Shown(buf))
  BY DEF ReturnFrame
<1>8. CASE PollReturn /\ HoldsNone
  <2>1. ~InCall' /\ result'.buf = b /\ capture_mode' = "MODE_CAP_SINGLE"
    BY <1>2, <1>7, <1>8, ReturnEnds DEF buf, PollReturn
  <2>2. Idle'
    BY <1>4, <1>8, <2>1 DEF Idle
  <2>3. failures' = 0 => b \notin InDriver'
    BY <1>3, <1>5, <1>6, <1>8 DEF HoldsNone
  <2>4. Kept'
    BY <2>1, <2>3 DEF Kept
  <2>5. QED
    BY <1>1, <1>3, <2>2, <2>4 DEF IInv
<1>9. ASSUME NEW a \in Buffers, StreamReturn(a), HoldsOne(After(a, 1))
      PROVE  IInv'
  <2>1. /\ ~InCall' /\ result'.buf = b /\ capture_mode' = "MODE_CAP_CONTINUOUS"
        /\ current_buffer' = After(a, 1) /\ a = b
    BY <1>2, <1>7, <1>9, ReturnEnds DEF buf, StreamReturn, Streaming, HeadIs
  <2>2. HoldsOne(After(a, 1))'
    BY <1>4, <1>9, AfterInRing
  <2>3. Idle'
    BY <2>1, <2>2 DEF Idle
  <2>4. failures' = 0 => InDriver' \subseteq {After(a, 1)}
    BY <1>3, <1>5, <1>6, <1>9 DEF HoldsOne
  <2>5. Kept'
    BY <2>1, <2>4, AfterDiffers DEF Kept
  <2>6. QED
    BY <1>1, <1>3, <2>3, <2>5 DEF IInv
<1>10. QED
  BY <1>1, <1>8, <1>9, Phase

(* The device is opened anew, and the driver has nothing. *)
LEMMA OpenStep ==
    ASSUME IInv, Open
    PROVE  IInv'
<1>1. TypeOK /\ TypeOK' /\ ~InCall /\ Idle
  BY OpenType, Phase DEF IInv, Open
<1>2. /\ todo' = todo /\ capture_mode' = capture_mode /\ current_buffer' = current_buffer
      /\ failures' = failures /\ queued' = <<>> /\ done' = <<>>
  BY DEF Open
<1>3. Held' = <<>>
  BY <1>2 DEF Held
<1>4. /\ troubles \subseteq troubles'
      /\ granted' # NBuffers => troubles' # {}
      /\ capture_mode = "MODE_CAP_CONTINUOUS" => troubles' # {}
  <2>1. granted' \in 1..NBuffers
    BY <1>1 DEF TypeOK
  <2>2. granted' # NBuffers => granted' < NBuffers
    BY <2>1, RingAssumption
  <2>3. QED
    BY <2>2 DEF Open, Short
<1>5. Idle'
  BY <1>1, <1>2, <1>3, <1>4 DEF Idle, InCall, HoldsOne, HoldsNone
<1>6. Kept'
  BY <1>1 DEF Kept, Open, TypeOK
<1>7. troubles' = {} => failures' = 0 /\ granted' = NBuffers
  BY <1>2, <1>4 DEF IInv
<1>8. QED
  BY <1>1, <1>5, <1>6, <1>7 DEF IInv

(* The driver fills a buffer. *)
LEMMA CaptureStep ==
    ASSUME IInv, Capture
    PROVE  IInv'
<1>1. TypeOK /\ TypeOK'
  BY CaptureType DEF IInv
<1>2. /\ done \in Seq(Buffers) /\ queued \in Seq(Buffers) /\ queued # <<>>
      /\ done' = Append(done, Head(queued)) /\ queued' = Tail(queued)
      /\ failures' = failures /\ troubles' = troubles /\ granted' = granted
  BY <1>1 DEF TypeOK, Capture, world
<1>3. Held' = Held
  BY <1>2, HeldMoved DEF Held
<1>4. InDriver' = InDriver
  <2>1. done' \in Seq(Buffers) /\ queued' \in Seq(Buffers)
    BY <1>1 DEF TypeOK
  <2>2. InDriver = Members(Held) /\ InDriver' = Members(Held')
    BY <1>2, <2>1, HeldMembers DEF InDriver, Held
  <2>3. QED
    BY <1>3, <2>2
<1>5. /\ todo' = todo /\ capture_mode' = capture_mode /\ current_buffer' = current_buffer
      /\ result' = result
  BY DEF Capture, client
<1>6. QED
  BY <1>1, <1>2, <1>3, <1>4, <1>5, UnchangedPhase DEF IInv, Kept, InCall

(* A stuttering step *)
LEMMA StutterStep ==
    ASSUME IInv, UNCHANGED vars
    PROVE  IInv'
<1>1. TypeOK' /\ Held' = Held /\ InDriver' = InDriver
  BY StutterType DEF IInv, vars, driver, Held, InDriver
<1>2. /\ todo' = todo /\ capture_mode' = capture_mode /\ current_buffer' = current_buffer
      /\ result' = result /\ failures' = failures /\ troubles' = troubles
      /\ granted' = granted
  BY DEF vars, client, driver, world
<1>3. QED
  BY <1>1, <1>2, UnchangedPhase DEF IInv, Kept, InCall

(* Every step of a device with two buffers or more keeps the invariant.    *)
LEMMA StepOK == NBuffers > 1 /\ IInv /\ [Next]_vars => IInv'
  BY CallStep, InitiateStep, WaitStep, CopyStep, DequeueFailsStep, ReturnStep, OpenStep,
     CaptureStep, StutterStep DEF Next, Client

(* At first nothing is scheduled. *)
LEMMA InitOK == Init => IInv
<1> SUFFICES ASSUME Init
             PROVE  IInv
  OBVIOUS
<1>1. TypeOK
  BY InitType
<1>2. Held = <<>> /\ ~InCall /\ capture_mode = "MODE_CAP_SINGLE" /\ result.call = "none"
  BY DEF Init, ClientInit, Held, InCall
<1>3. troubles = {} => granted = NBuffers
  <2>1. granted \in 1..NBuffers
    BY DEF Init
  <2>2. QED
    BY <2>1, RingAssumption DEF Init, Short
<1>4. QED
  BY <1>1, <1>2, <1>3 DEF IInv, Idle, HoldsNone, Kept, Init

-----------------------------------------------------------------------------
(* With two buffers or more, and while no DQBUF has failed, the driver has *)
(* neither the memory that is being copied nor the one the user looks at,  *)
(* whatever is granted, opened again and called.                           *)
THEOREM MemoryIsRead ==
    ASSUME NBuffers > 1
    PROVE  Spec => []ReadsItsOwn
<1>1. IInv => ReadsItsOwn
  <2> SUFFICES ASSUME IInv, failures = 0, NEW b \in InDriver, Reading(b)
               PROVE  FALSE
    BY DEF ReadsItsOwn
  <2>1. InDriver = Members(Held)
    BY HeldMembers DEF IInv, TypeOK, InDriver, Held
  <2>2. Members(<<>>) = {} /\ \A c : Members(<<c>>) = {c}
    BY DEF Members
  <2>3. CASE Doing("decode") /\ buf = b
    <3>1. CASE PollWait /\ HoldsNone
      BY <2>1, <2>2, <3>1 DEF HoldsNone
    <3>2. ASSUME NEW a \in Buffers, StreamWait(a), HoldsOne(After(a, 1))
          PROVE  FALSE
      <4>1. a = b
        BY <2>3, <3>2 DEF StreamWait, HeadIs, buf
      <4>2. InDriver \subseteq {After(a, 1)}
        BY <2>1, <2>2, <3>2 DEF HoldsOne
      <4>3. QED
        BY <4>1, <4>2, AfterDiffers
    <3>3. QED
      BY <2>3, <3>1, <3>2, Phase
  <2>4. CASE ~InCall /\ result.call # "none" /\ result.buf = b
    BY <2>4 DEF IInv, Kept
  <2>5. QED
    BY <2>3, <2>4 DEF Reading
<1>2. Init => IInv
  BY InitOK
<1>3. IInv /\ [Next]_vars => IInv'
  BY StepOK
<1>4. QED
  BY <1>1, <1>2, <1>3, PTL DEF Spec

(* As long as nothing goes wrong, the buffer that DQBUF returns is the one *)
(* that was asked for, and between calls the driver has exactly the buffer *)
(* that continuous mode has scheduled ahead: what XVV4L2 and XVPwc rely on *)
(* when they ignore the index.                                             *)
THEOREM IndexNotNeeded ==
    ASSUME NBuffers > 1
    PROVE  Spec => []GivesWhatIsAsked
<1>1. IInv => GivesWhatIsAsked
  <2> SUFFICES ASSUME IInv, troubles = {}
               PROVE  /\ Doing("wait") /\ done # <<>> => Head(done) = buf
                      /\ ~InCall => Held = IF capture_mode = "MODE_CAP_CONTINUOUS"
                                           THEN <<current_buffer>> ELSE <<>>
    BY DEF GivesWhatIsAsked, Held
  <2>1. failures = 0
    BY DEF IInv
  <2>2. ASSUME Doing("wait"), done # <<>> PROVE Head(done) = buf
    <3>1. Head(done) = Head(Held)
      BY <2>2, HeldTaken DEF IInv, TypeOK, Held
    <3>2. CASE HoldsOne(buf)
      BY <3>1, <3>2 DEF HoldsOne
    <3>3. ASSUME NEW a \in Buffers, StreamWait(a), HoldsTwo(a, After(a, 1))
          PROVE  Head(done) = buf
      BY <3>1, <3>3 DEF HoldsTwo, StreamWait, HeadIs, buf
    <3>4. QED
      BY <2>2, <3>2, <3>3, Phase
  <2>3. ~InCall => Held = IF capture_mode = "MODE_CAP_CONTINUOUS"
                          THEN <<current_buffer>> ELSE <<>>
    BY <2>1, Phase DEF Idle, HoldsOne, HoldsNone
  <2>4. QED
    BY <2>2, <2>3
<1>2. Init => IInv
  BY InitOK
<1>3. IInv /\ [Next]_vars => IInv'
  BY StepOK
<1>4. QED
  BY <1>1, <1>2, <1>3, PTL DEF Spec
-----------------------------------------------------------------------------
(* Frames are numbered in the order in which they are captured.  None has  *)
(* a number that is still to come; as long as nothing goes wrong, the full *)
(* buffers are newer than the frame given out last and in order, and the   *)
(* frame in the client's hands comes between the two.                      *)
NoLater ==
    /\ result.stamp <= captured
    /\ \A b \in Buffers : mm_buf[b] <= captured /\ images[b] <= captured
Rising ==
    /\ \A i \in DOMAIN done : result.stamp < mm_buf[done[i]]
    /\ \A i, j \in DOMAIN done : i < j => mm_buf[done[i]] < mm_buf[done[j]]
Between(n) == result.stamp < n /\ \A i \in DOMAIN done : n < mm_buf[done[i]]
InHand ==
    capture_mode = "MODE_CAP_CONTINUOUS" =>
        /\ Doing("decode") => Between(mm_buf[buf])
        /\ Doing("return") => Between(Shown(buf))
Ordered == NoLater /\ Polled /\ (troubles = {} => Rising /\ InHand)

(* What the continuous mode is doing when it is doing it *)
LEMMA PhaseContinuous ==
    ASSUME IInv, capture_mode = "MODE_CAP_CONTINUOUS"
    PROVE  /\ Doing("initiate") => \E b \in Buffers : StreamFirst(b) \/ StreamAhead(b)
           /\ Doing("wait") => HoldsTwo(buf, After(buf, 1))
           /\ Doing("decode") \/ Doing("return") => HoldsOne(After(buf, 1))
  BY Phase DEF PollInit, PollWait, PollReturn, StreamWait, StreamReturn, HeadIs, buf

(* Unless something has gone wrong, the driver has no buffer twice, and    *)
(* none that the continuous mode has in hand.                              *)
LEMMA HeldOnce ==
    ASSUME NBuffers > 1, IInv, troubles = {}
    PROVE  /\ \A i, j \in DOMAIN Held : Held[i] = Held[j] => i = j
           /\ capture_mode = "MODE_CAP_CONTINUOUS" /\ (Doing("decode") \/ Doing("return"))
                => buf \notin Members(Held)
<1>1. ClientOK
  BY DEF IInv, TypeOK
<1>2. \/ Held = <<>>
      \/ \E b \in Buffers : Held = <<b>>
      \/ \E b \in Buffers : Held = <<b, After(b, 1)>>
  <2>1. current_buffer \in Buffers /\ \A b \in Buffers : After(b, 1) \in Buffers
    BY <1>1, AfterInRing DEF ClientOK
  <2>2. InCall => buf \in Buffers
    BY <1>1, HeadOK
  <2>3. CASE Idle
    BY <2>1, <2>3 DEF Idle, HoldsOne, HoldsNone, IInv
  <2>4. CASE Polling
    BY <2>2, <2>4 DEF Polling, HoldsOne, HoldsNone, IInv, PollWait, InCall
  <2>5. ASSUME NEW b \in Buffers, Continuing(b)
        PROVE  \/ Held = <<>>
               \/ \E c \in Buffers : Held = <<c>>
               \/ \E c \in Buffers : Held = <<c, After(c, 1)>>
    BY <2>1, <2>5 DEF Continuing, HoldsOne, HoldsTwo, HoldsNone, IInv
  <2>6. QED
    BY <2>3, <2>4, <2>5 DEF IInv
<1>3. \A i, j \in DOMAIN Held : Held[i] = Held[j] => i = j
  <2>1. CASE Held = <<>>
    BY <2>1
  <2>2. ASSUME NEW b \in Buffers, Held = <<b>>
        PROVE  \A i, j \in DOMAIN Held : Held[i] = Held[j] => i = j
    BY <2>2
  <2>3. ASSUME NEW b \in Buffers, Held = <<b, After(b, 1)>>
        PROVE  \A i, j \in DOMAIN Held : Held[i] = Held[j] => i = j
    <3>1. PICK c : c = After(b, 1) /\ c # b
      BY AfterDiffers
    <3>2. Held = <<b, c>>
      BY <2>3, <3>1
    <3>3. QED
      BY <3>1, <3>2
  <2>4. QED
    BY <1>2, <2>1, <2>2, <2>3
<1>4. ASSUME capture_mode = "MODE_CAP_CONTINUOUS", Doing("decode") \/ Doing("return")
      PROVE  buf \notin Members(Held)
  <2>1. PICK b \in Buffers : b = buf
    BY <1>1, <1>4, HeadOK DEF Doing, InCall
  <2>2. Held = <<After(b, 1)>>
    BY <1>4, <2>1, PhaseContinuous DEF HoldsOne
  <2>3. After(b, 1) # b
    BY AfterDiffers
  <2>4. Members(<<After(b, 1)>>) = {After(b, 1)}
    BY DEF Members
  <2>5. QED
    BY <2>1, <2>2, <2>3, <2>4
<1>5. QED
  BY <1>3, <1>4

(* The buffer that is filled next is full nowhere. *)
LEMMA NextToFill ==
    ASSUME NBuffers > 1, IInv, troubles = {}, queued # <<>>
    PROVE  /\ Head(queued) \in Buffers /\ Head(queued) \notin Members(done)
           /\ capture_mode = "MODE_CAP_CONTINUOUS" /\ (Doing("decode") \/ Doing("return"))
                => buf # Head(queued)
<1>1. done \in Seq(Buffers) /\ queued \in Seq(Buffers)
  BY DEF IInv, TypeOK
<1>2. PICK d \in Seq(Buffers), q \in Seq(Buffers) : d = done /\ q = queued /\ q # <<>>
  BY <1>1
<1> d \o q \in Seq(Buffers)
  OBVIOUS
<1>3. PICK h \in Seq(Buffers) : h = d \o q
  OBVIOUS
<1>4. /\ Len(h) = Len(d) + Len(q) /\ Len(q) > 0
      /\ \A i \in 1..Len(d) : h[i] = d[i]
      /\ h[Len(d) + 1] = Head(q) /\ Head(q) \in Buffers
  BY <1>2, <1>3
<1>5. h = Held
  BY <1>2, <1>3 DEF Held
<1>6. \A i \in DOMAIN d : d[i] # Head(q)
  <2>1. Len(d) + 1 \in DOMAIN h /\ \A i \in DOMAIN d : i \in DOMAIN h /\ i # Len(d) + 1
    BY <1>4
  <2>2. QED
    BY <1>4, <1>5, <2>1, HeldOnce
<1>7. Head(q) \in Members(h)
  <2>1. Len(d) + 1 \in DOMAIN h
    BY <1>4
  <2>2. QED
    BY <1>4, <2>1 DEF Members
<1>8. QED
  BY <1>2, <1>4, <1>5, <1>6, <1>7, HeldOnce DEF Members

(* The oldest full buffer is between the client's last frame and the rest. *)
LEMMA TakenIsBetween ==
    ASSUME NEW d \in Seq(Buffers), d # <<>>, d = done, done' = Tail(d),
           mm_buf' = mm_buf, result' = result, Rising
    PROVE  Rising' /\ Between(mm_buf[Head(d)])'
<1>1. PICK t \in Seq(Buffers) : t = Tail(d)
  OBVIOUS
<1>2. /\ \A i \in DOMAIN t : i + 1 \in DOMAIN d /\ 1 < i + 1 /\ t[i] = d[i + 1]
      /\ 1 \in DOMAIN d /\ Head(d) = d[1]
  BY <1>1
<1>3. /\ \A i \in DOMAIN t : result.stamp < mm_buf[t[i]] /\ mm_buf[d[1]] < mm_buf[t[i]]
      /\ result.stamp < mm_buf[d[1]]
  BY <1>2 DEF Rising
<1>4. \A i, j \in DOMAIN t : i < j => mm_buf[t[i]] < mm_buf[t[j]]
  BY <1>2 DEF Rising
<1>5. QED
  BY <1>1, <1>2, <1>3, <1>4 DEF Rising, Between

(* What leaves the full buffers and what they hold alone *)
LEMMA RisingKept ==
    ASSUME done' = done, mm_buf' = mm_buf, result' = result
    PROVE  /\ Rising => Rising'
           /\ \A n : Between(n) => Between(n)'
  BY DEF Rising, Between

(* A call begins, or a buffer is queued. *)
LEMMA OrderedBegin ==
    ASSUME NBuffers > 1, IInv, Ordered, Call \/ InitiateAcquire
    PROVE  Ordered'
<1>1. /\ done' = done /\ mm_buf' = mm_buf /\ result' = result /\ images' = images
      /\ captured' = captured /\ troubles \subseteq troubles'
  BY DEF Call, InitiateAcquire, driver, world, Done, BeginCall, NextFrameContinuous,
     NextFramePoll, RequestFramePoll, Poll, Begin
<1>2. NoLater' /\ (troubles' = {} => Rising')
  BY <1>1, RisingKept DEF Ordered, NoLater
<1>3. ClientOK
  BY DEF IInv, TypeOK
<1>4. CASE Call
  <2>1. Polled'
    BY <1>3, <1>4, PolledBegin DEF Call
  <2>2. PICK b \in Buffers : b = current_buffer
    BY <1>3 DEF ClientOK
  <2>3. BeginsOnPlan(b)
    BY <1>3, <1>4, <2>2, CallBegins DEF Call
  <2>4. InHand'
    BY <2>3 DEF BeginsOnPlan, InHand, Doing, PollInit, PollWait, PollReturn
  <2>5. QED
    BY <1>2, <2>1, <2>4 DEF Ordered
<1>5. CASE InitiateAcquire
  <2>1. Done /\ InCall /\ Doing("initiate")
    BY <1>5 DEF InitiateAcquire, Doing, InCall
  <2>2. Polled'
    BY <1>3, <2>1, PolledGoesOn DEF Ordered
  <2>3. InHand'
    <3>1. SUFFICES ASSUME capture_mode' = "MODE_CAP_CONTINUOUS"
                   PROVE  ~Doing("decode")' /\ ~Doing("return")'
      BY DEF InHand
    <3>2. capture_mode = "MODE_CAP_CONTINUOUS"
      BY <2>1, <3>1 DEF Done
    <3>3. PICK b \in Buffers : StreamFirst(b) \/ StreamAhead(b)
      BY <2>1, <3>2, PhaseContinuous
    <3>4. Doing("initiate")' \/ Doing("wait")'
      BY <2>1, <3>3, StreamFirstDone, StreamAheadDone
    <3>5. QED
      BY <3>4 DEF Doing
  <2>4. QED
    BY <1>2, <2>2, <2>3 DEF Ordered
<1>6. QED
  BY <1>4, <1>5

(* DQBUF: the frame comes into the client's hands. *)
LEMMA OrderedWait ==
    ASSUME NBuffers > 1, IInv, Ordered, WaitForCompletion
    PROVE  Ordered'
<1>1. /\ ClientOK /\ InCall /\ Doing("wait") /\ (Done \/ Becomes("decode"))
      /\ done \in Seq(Buffers) /\ queued \in Seq(Buffers)
  BY DEF IInv, TypeOK, WaitForCompletion, Doing, InCall
<1>2. /\ done # <<>> /\ done' = Tail(done) /\ mm_buf' = mm_buf /\ result' = result
      /\ images' = images /\ captured' = captured /\ troubles' = troubles
      /\ remapped' = remapped /\ (remapped => Done) /\ (~remapped => Becomes("decode"))
  BY DEF WaitForCompletion, world, Done, Becomes
<1>3. Polled'
  BY <1>1, PolledGoesOn DEF Ordered, Ops
<1>4. PICK d \in Seq(Buffers) : d = done
  BY <1>1
<1>5. troubles = {} => Rising' /\ Between(mm_buf[Head(d)])'
  BY <1>2, <1>4, TakenIsBetween DEF Ordered
<1>6. ASSUME troubles = {}, capture_mode' = "MODE_CAP_CONTINUOUS"
      PROVE  /\ Doing("decode")' => Between(mm_buf[buf])'
             /\ Doing("return")' => Between(Shown(buf))'
  <2>1. capture_mode = "MODE_CAP_CONTINUOUS"
    BY <1>2, <1>6 DEF Done, Becomes
  <2>2. PICK b \in Buffers : StreamWait(b) /\ HoldsTwo(b, After(b, 1))
    BY <1>1, <2>1, Phase DEF PollWait
  <2>3. Head(d) = b
    <3>1. Held = <<b, After(b, 1)>>
      BY <1>6, <2>2 DEF HoldsTwo
    <3>2. Head(d) = Head(Held)
      BY <1>1, <1>2, <1>4, HeldTaken DEF Held
    <3>3. QED
      BY <3>1, <3>2
  <2>4. buf' = b
    <3>1. CASE Done
      BY <2>2, <3>1, StreamWaitDone DEF StreamReturn, HeadIs, buf
    <3>2. CASE Becomes("decode")
      BY <1>1, <2>2, <3>2, BecomesSame DEF Ops, StreamWait, HeadIs, buf
    <3>3. QED
      BY <1>2, <3>1, <3>2
  <2>5. Doing("return")' => remapped
    <3>1. SUFFICES ASSUME Becomes("decode") PROVE ~Doing("return")'
      BY <1>2
    <3>2. Doing("decode")'
      BY <1>1, <3>1, BecomesSame DEF Ops
    <3>3. QED
      BY <3>2 DEF Doing
  <2>6. Between(mm_buf[b])'
    BY <1>5, <1>6, <2>3
  <2>7. Doing("return")' => Shown(buf)' = mm_buf'[b]
    BY <1>2, <2>4, <2>5 DEF Shown
  <2>8. QED
    BY <2>4, <2>6, <2>7 DEF Between
<1>7. NoLater'
  BY <1>2 DEF Ordered, NoLater
<1>8. QED
  BY <1>2, <1>3, <1>5, <1>6, <1>7 DEF Ordered, InHand

(* The frame is copied. *)
LEMMA OrderedCopy ==
    ASSUME NBuffers > 1, IInv, Ordered, CopyPixels
    PROVE  Ordered'
<1>1. /\ ClientOK /\ InCall /\ Doing("decode") /\ Done
      /\ images \in [Buffers -> Nat] /\ mm_buf \in [Buffers -> Nat]
  BY DEF IInv, TypeOK, CopyPixels, Doing, InCall
<1>2. PICK b \in Buffers : b = buf
  BY <1>1, HeadOK
<1>3. /\ images' = [images EXCEPT ![b] = mm_buf[b]] /\ mm_buf' = mm_buf
      /\ done' = done /\ result' = result /\ captured' = captured
      /\ troubles' = troubles /\ remapped' = remapped
  BY <1>2 DEF CopyPixels, driver, world, Done
<1>4. Polled'
  BY <1>1, PolledGoesOn DEF Ordered
<1>5. NoLater'
  BY <1>1, <1>3 DEF Ordered, NoLater
<1>6. /\ troubles = {} => Rising'
      /\ \A n : Between(n) => Between(n)'
  BY <1>3, RisingKept DEF Ordered
<1>7. ASSUME troubles = {}, capture_mode' = "MODE_CAP_CONTINUOUS"
      PROVE  /\ ~Doing("decode")'
             /\ Doing("return")' => Between(Shown(buf))'
  <2>1. capture_mode = "MODE_CAP_CONTINUOUS"
    BY <1>1, <1>7 DEF Done
  <2>2. PICK a \in Buffers : StreamWait(a)
    BY <1>1, <2>1, Phase DEF PollWait
  <2>3. StreamReturn(a)' /\ a = b
    BY <1>1, <1>2, <2>2, StreamWaitDone DEF StreamWait, HeadIs, buf
  <2>4. buf' = b /\ ~Doing("decode")'
    BY <2>3 DEF StreamReturn, HeadIs, buf, Doing
  <2>5. Shown(buf)' = mm_buf[b]
    BY <1>1, <1>3, <2>4 DEF Shown
  <2>6. Between(mm_buf[b])
    BY <1>1, <1>2, <1>7, <2>1 DEF Ordered, InHand
  <2>7. PICK n : n = mm_buf[b]
    OBVIOUS
  <2>8. Between(n)'
    BY <1>6, <2>6, <2>7
  <2>9. QED
    BY <2>4, <2>5, <2>7, <2>8 DEF Between
<1>8. QED
  BY <1>3, <1>4, <1>5, <1>6, <1>7 DEF Ordered, InHand

(* The frame is handed out. *)
LEMMA OrderedReturn ==
    ASSUME NBuffers > 1, IInv, Ordered, ReturnFrame
    PROVE  Ordered' /\ Newer
<1>1. /\ ClientOK /\ InCall /\ Doing("return") /\ capture_mode \in Modes
      /\ done \in Seq(Buffers) /\ queued \in Seq(Buffers)
  BY DEF IInv, TypeOK, ClientOK, ReturnFrame, Doing, InCall
<1>2. PICK b \in Buffers : b = buf
  BY <1>1, HeadOK
<1>3. PICK s : s = Shown(buf) /\ Return(s)
  BY DEF ReturnFrame
<1>4. /\ result'.stamp = s /\ mm_buf' = mm_buf /\ images' = images /\ done' = done
      /\ captured' = captured /\ troubles' = troubles /\ capture_mode' = capture_mode
  BY <1>3 DEF ReturnFrame, Return, driver, world
<1>5. NoLater'
  <2>1. s <= captured
    BY <1>2, <1>3 DEF Shown, Ordered, NoLater
  <2>2. QED
    BY <1>4, <2>1 DEF Ordered, NoLater
<1>6. CASE capture_mode = "MODE_CAP_CONTINUOUS"
  <2>1. Polled'
    BY <1>4, <1>6 DEF Polled
  <2>2. ~InCall'
    BY <1>1, <1>3, <1>6, ReturnEnds, Phase DEF PollReturn
  <2>3. InHand'
    BY <2>2 DEF InHand, Doing, InCall
  <2>4. troubles = {} => Between(s)
    BY <1>1, <1>3, <1>6 DEF Ordered, InHand
  <2>5. troubles = {} => Rising'
    BY <1>4, <2>4 DEF Ordered, Rising, Between
  <2>6. result.stamp \in Nat /\ s \in Nat
    <3>1. result \in [call : Calls \cup {"none"}, buf : Buffers, stamp : Nat]
          /\ mm_buf \in [Buffers -> Nat] /\ images \in [Buffers -> Nat]
      BY DEF IInv, TypeOK
    <3>2. QED
      BY <1>2, <1>3, <3>1 DEF Shown
  <2>7. troubles = {} => s > result.stamp
    BY <2>4, <2>6 DEF Between
  <2>8. Newer
    BY <1>4, <2>7 DEF Newer
  <2>9. QED
    BY <1>4, <1>5, <2>1, <2>3, <2>5, <2>8 DEF Ordered
<1>7. CASE capture_mode = "MODE_CAP_SINGLE"
  <2>1. Polled' /\ result'.call # "continuous"
    BY <1>3, <1>7, PolledResult DEF Ordered
  <2>2. InHand' /\ Newer
    BY <1>4, <1>7, <2>1 DEF InHand, Newer
  <2>3. ASSUME troubles = {} PROVE Rising'
    <3>1. Held = <<>>
      BY <1>1, <1>7, <2>3, Phase DEF StreamReturn, Streaming, HoldsNone, IInv
    <3>2. done = <<>>
      BY <1>1, <3>1, HeldTaken DEF Held
    <3>3. QED
      BY <1>4, <3>2 DEF Rising
  <2>4. QED
    BY <1>4, <1>5, <2>1, <2>2, <2>3 DEF Ordered
<1>8. QED
  BY <1>1, <1>6, <1>7 DEF Modes

(* The device is opened anew: what was captured is gone, and the numbers   *)
(* go on. *)
LEMMA OrderedOpen ==
    ASSUME IInv, Ordered, Open
    PROVE  Ordered' /\ Newer
<1>1. /\ result \in [call : Calls \cup {"none"}, buf : Buffers, stamp : Nat]
      /\ captured \in Nat
  BY DEF IInv, TypeOK
<1>2. /\ result'.stamp = result.stamp /\ result'.call = "none" /\ captured' = captured
      /\ \A b \in Buffers : mm_buf'[b] = 0 /\ images'[b] = 0
      /\ done' = <<>> /\ todo' = todo /\ todo = <<>> /\ capture_mode' = capture_mode
  BY <1>1 DEF Open, InCall
<1>3. NoLater'
  BY <1>1, <1>2 DEF Ordered, NoLater
<1>4. Rising'
  BY <1>2 DEF Rising
<1>5. InHand'
  BY <1>2 DEF InHand, Doing
<1>6. Polled'
  BY <1>2 DEF Ordered, Polled
<1>7. Newer
  BY <1>2 DEF Newer
<1>8. QED
  BY <1>3, <1>4, <1>5, <1>6, <1>7 DEF Ordered

(* The driver fills a buffer, which neither the client has in hand nor a   *)
(* full one waits in.                                                      *)
LEMMA OrderedCapture ==
    ASSUME NBuffers > 1, IInv, Ordered, Capture
    PROVE  Ordered'
<1>1. /\ done \in Seq(Buffers) /\ queued \in Seq(Buffers) /\ queued # <<>>
      /\ captured \in Nat /\ mm_buf \in [Buffers -> Nat] /\ images \in [Buffers -> Nat]
      /\ result \in [call : Calls \cup {"none"}, buf : Buffers, stamp : Nat]
      /\ ClientOK
  BY DEF IInv, TypeOK, Capture
<1>2. PICK b \in Buffers : b = Head(queued)
  BY <1>1
<1>3. PICK n \in Nat : n = captured + 1
  BY <1>1
<1>4. /\ captured' = n /\ mm_buf' = [mm_buf EXCEPT ![b] = n] /\ done' = Append(done, b)
      /\ UNCHANGED client /\ images' = images /\ troubles' = troubles /\ remapped' = remapped
  BY <1>2, <1>3 DEF Capture, world
<1>5. result' = result /\ todo' = todo /\ capture_mode' = capture_mode
  BY <1>4 DEF client
<1>6. mm_buf'[b] = n /\ \A c \in Buffers \ {b} : mm_buf'[c] = mm_buf[c]
  BY <1>1, <1>4
<1>7. Polled'
  BY <1>5 DEF Ordered, Polled
<1>8. /\ result.stamp < n /\ result.stamp \in Nat
      /\ \A c \in Buffers : /\ mm_buf[c] < n /\ images[c] < n
                            /\ mm_buf[c] \in Nat /\ images[c] \in Nat
  BY <1>1, <1>3 DEF Ordered, NoLater
<1>9. NoLater'
  BY <1>4, <1>5, <1>6, <1>8 DEF NoLater
<1>10. CASE troubles = {}
  <2>1. PICK d \in Seq(Buffers) : d = done
    BY <1>1
  <2>2. \A i \in DOMAIN d : d[i] \in Buffers \ {b}
    BY <1>1, <1>2, <1>10, <2>1, NextToFill DEF Members
  <2>3. PICK e \in Seq(Buffers) : e = done'
    BY <1>4, <2>1
  <2>4. \A i \in DOMAIN e : \/ i \in DOMAIN d /\ e[i] = d[i]
                            \/ i = Len(d) + 1 /\ e[i] = b
    BY <1>4, <2>1, <2>3
  <2>5. \A i \in DOMAIN d : i < Len(d) + 1
    OBVIOUS
  <2>6. \A i \in DOMAIN e : \/ i \in DOMAIN d /\ mm_buf'[e[i]] = mm_buf[d[i]]
                            \/ i = Len(d) + 1 /\ mm_buf'[e[i]] = n
    BY <1>6, <2>2, <2>4
  <2>7. \A i \in DOMAIN d : mm_buf[d[i]] < n
    BY <1>8, <2>2
  <2>8. Rising'
    <3>1. \A i \in DOMAIN e : result.stamp < mm_buf'[e[i]]
      BY <1>8, <1>10, <2>1, <2>6 DEF Ordered, Rising
    <3>2. ASSUME NEW i \in DOMAIN e, NEW j \in DOMAIN e, i < j
          PROVE  mm_buf'[e[i]] < mm_buf'[e[j]]
      <4>1. CASE j \in DOMAIN d
        <5>1. i \in DOMAIN d /\ mm_buf'[e[i]] = mm_buf[d[i]] /\ mm_buf'[e[j]] = mm_buf[d[j]]
          BY <2>5, <2>6, <3>2, <4>1
        <5>2. QED
          BY <1>10, <2>1, <3>2, <4>1, <5>1 DEF Ordered, Rising
      <4>2. CASE j \notin DOMAIN d
        <5>1. j = Len(d) + 1 /\ mm_buf'[e[j]] = n
          BY <2>6, <4>2
        <5>2. i \in DOMAIN d /\ mm_buf'[e[i]] = mm_buf[d[i]]
          BY <2>6, <3>2, <5>1
        <5>3. QED
          BY <2>7, <5>1, <5>2
      <4>3. QED
        BY <4>1, <4>2
    <3>3. QED
      BY <1>5, <2>3, <3>1, <3>2 DEF Rising
  <2>9. ASSUME NEW x, Between(x), x < n PROVE Between(x)'
    BY <1>5, <2>1, <2>3, <2>6, <2>9 DEF Between
  <2>10. ASSUME capture_mode = "MODE_CAP_CONTINUOUS", Doing("decode") \/ Doing("return")
         PROVE  /\ buf \in Buffers \ {b}
                /\ Between(mm_buf[buf]) => Between(mm_buf[buf])'
                /\ Between(Shown(buf)) => Between(Shown(buf))'
    <3>1. PICK c \in Buffers : c = buf /\ c # b
      BY <1>1, <1>2, <1>10, <2>10, HeadOK, NextToFill DEF Doing, InCall
    <3>2. mm_buf'[c] = mm_buf[c] /\ images'[c] = images[c] /\ buf' = c
      BY <1>4, <1>5, <1>6, <3>1 DEF buf
    <3>3. PICK x, y : x = mm_buf[c] /\ y = Shown(c)
      OBVIOUS
    <3>4. mm_buf'[c] = x /\ Shown(buf)' = y /\ x < n /\ y < n
      BY <1>4, <1>8, <3>1, <3>2, <3>3 DEF Shown
    <3>5. (Between(x) => Between(x)') /\ (Between(y) => Between(y)')
      BY <2>9, <3>4
    <3>6. QED
      BY <3>1, <3>2, <3>3, <3>4, <3>5 DEF Between
  <2>11. InHand'
    BY <1>5, <1>10, <2>10 DEF Ordered, InHand, Doing
  <2>12. QED
    BY <1>7, <1>9, <2>8, <2>11 DEF Ordered
<1>11. CASE troubles # {}
  BY <1>4, <1>7, <1>9, <1>11 DEF Ordered
<1>12. QED
  BY <1>10, <1>11

(* Every step keeps the order, and gives out newer frames only.            *)
LEMMA OrderedStep ==
    ASSUME NBuffers > 1, IInv, Ordered, [Next]_vars
    PROVE  Ordered' /\ (Newer \/ UNCHANGED result)
<1>1. CASE Call \/ InitiateAcquire
  <2>1. result' = result
    BY <1>1 DEF Call, InitiateAcquire, Done, BeginCall, NextFrameContinuous, NextFramePoll,
       RequestFramePoll, Poll, Begin
  <2>2. QED
    BY <1>1, <2>1, OrderedBegin
<1>2. CASE WaitForCompletion
  <2>1. result' = result
    BY <1>2 DEF WaitForCompletion, Done, Becomes
  <2>2. QED
    BY <1>2, <2>1, OrderedWait
<1>3. CASE CopyPixels
  <2>1. result' = result
    BY <1>3 DEF CopyPixels, Done
  <2>2. QED
    BY <1>3, <2>1, OrderedCopy
<1>4. CASE ReturnFrame
  BY <1>4, OrderedReturn
<1>5. CASE Open
  BY <1>5, OrderedOpen
<1>6. CASE Capture
  <2>1. result' = result
    BY <1>6 DEF Capture, client
  <2>2. QED
    BY <1>6, <2>1, OrderedCapture
<1>7. CASE DequeueFails
  <2>1. /\ result' = result /\ mm_buf' = mm_buf /\ images' = images /\ captured' = captured
        /\ troubles' # {} /\ Done /\ InCall /\ ClientOK
    BY <1>7 DEF DequeueFails, driver, Done, FailedIn, Doing, InCall, IInv, TypeOK
  <2>2. Polled'
    BY <2>1, PolledGoesOn DEF Ordered
  <2>3. QED
    BY <2>1, <2>2 DEF Ordered, NoLater
<1>8. CASE UNCHANGED vars
  BY <1>8 DEF vars, client, driver, world, Ordered, NoLater, Polled, Rising, InHand, Between,
     Doing, Shown, buf
<1>9. QED
  BY <1>1, <1>2, <1>3, <1>4, <1>5, <1>6, <1>7, <1>8 DEF Next, Client

(* With two buffers or more, and as long as nothing goes wrong, each frame *)
(* of next_frame_continuous() was captured after the frame that the client *)
(* was given before, by whichever function, although a buffer may have     *)
(* been filled long before the call that waits for it.                     *)
THEOREM FramesGetNewer ==
    ASSUME NBuffers > 1
    PROVE  Spec => EachFrameNewer
<1>1. Init => Ordered
  BY DEF Init, ClientInit, Ordered, NoLater, Polled, Rising, InHand, Doing
<1>2. Init => IInv
  BY InitOK
<1>3. IInv /\ Ordered /\ [Next]_vars => IInv' /\ Ordered' /\ [Newer]_result
  BY StepOK, OrderedStep
<1>4. QED
  BY <1>1, <1>2, <1>3, PTL DEF Spec, EachFrameNewer
=============================================================================
