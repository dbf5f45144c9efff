------------------------- MODULE VideoClient_proofs --------------------------
(* What every device can rely on when a call of the client begins.         *)
EXTENDS VideoClient, TLAPS

(* next_buffer() and current_frame() stay in the ring.                     *)
LEMMA AfterInRing ==
    ASSUME NEW b \in Buffers, NEW i \in Int
    PROVE  After(b, i) \in Buffers
<1>1. b + i \in Int /\ NBuffers \in Nat \ {0}
  BY RingAssumption DEF Buffers
<1>2. \A x \in Int, n \in Nat \ {0} : x % n \in 0..(n - 1)
  OBVIOUS
<1>3. QED
  BY <1>1, <1>2 DEF After, Buffers

(* In a ring of two buffers or more, the next buffer is another one.       *)
LEMMA AfterDiffers ==
    ASSUME NBuffers > 1, NEW b \in Buffers
    PROVE  After(b, 1) # b
<1>1. PICK n \in Nat : n = NBuffers /\ n > 1
  BY RingAssumption
<1>2. b \in 0..(n - 1)
  BY <1>1 DEF Buffers
<1>3. CASE b + 1 < n
  <2>1. (b + 1) % n = b + 1
    BY <1>1, <1>2, <1>3
  <2>2. QED
    BY <1>1, <1>2, <2>1 DEF After
<1>4. CASE b + 1 = n
  <2>1. (b + 1) % n = 0
    BY <1>1, <1>4
  <2>2. QED
    BY <1>1, <1>2, <1>4, <2>1 DEF After
<1>5. QED
  BY <1>1, <1>2, <1>3, <1>4

(* A planned step is a legal step.                                         *)
LEMMA DoType ==
    ASSUME NEW b \in Buffers, NEW call \in Calls, NEW op \in {"initiate", "wait", "return"}
    PROVE  Do(op, b, call) \in PlanStep
  BY DEF Do, PlanStep

(* The rounds of the polling loop *)
LEMMA PollPlanType ==
    ASSUME NEW b \in Buffers, NEW left \in Nat, NEW call \in Calls
    PROVE  PollPlan(b, left, call) \in Seq(PlanStep)
<1> DEFINE round(j) == IF j % 2 = 1
                       THEN Do("initiate", After(b, (j + 1) \div 2), call)
                       ELSE Do("wait", After(b, j \div 2), call)
<1>1. ASSUME NEW j \in 1..(2 * left)
      PROVE  round(j) \in PlanStep
  <2>1. (j + 1) \div 2 \in Int /\ j \div 2 \in Int
    OBVIOUS
  <2>2. QED
    BY <2>1, AfterInRing, DoType
<1>2. PollPlan(b, left, call) = [j \in 1..(2 * left) |-> round(j)]
  BY DEF PollPlan
<1>3. 2 * left \in Nat
  OBVIOUS
<1> HIDE DEF round
<1>4. QED
  BY <1>1, <1>2, <1>3

(* The plan of next_frame_continuous() consists of legal steps.            *)
LEMMA ContinuousPlanType ==
    ASSUME NEW b \in Buffers
    PROVE  ContinuousPlan(b) \in Seq(PlanStep)
<1>1. After(b, 1) \in Buffers /\ "continuous" \in Calls
  BY AfterInRing DEF Calls
<1>2. QED
  BY <1>1, DoType DEF ContinuousPlan

(* A list of planned steps makes ClientOK of the rest of it.               *)
LEMMA PlanIsOK ==
    ASSUME NEW s \in Seq(PlanStep)
    PROVE  s \in Seq(Step) /\ (s # <<>> => Tail(s) \in Seq(PlanStep))
<1>1. PlanStep \subseteq Step
  BY DEF PlanStep, Step, Ops
<1>2. QED
  BY <1>1
-----------------------------------------------------------------------------
(* A call that begins is a plan, and leaves the client's variables of      *)
(* their types.                                                            *)
BeginOK ==
    /\ todo' \in Seq(PlanStep)
    /\ current_buffer' \in Buffers /\ frame_count' \in Nat /\ calls' \in Nat
    /\ capture_mode' \in Modes

(* request_frame_continuous() keeps the ring counters in range.            *)
LEMMA NextFrameContinuousType ==
    ASSUME ClientOK, NextFrameContinuous
    PROVE  BeginOK
<1>1. current_buffer \in Buffers /\ frame_count \in Nat /\ calls \in Nat
  BY DEF ClientOK
<1>2. todo' \in Seq(PlanStep)
  <2>1. ContinuousPlan(current_buffer) \in Seq(PlanStep)
    BY <1>1, ContinuousPlanType
  <2>2. Do("initiate", current_buffer, "continuous") \in PlanStep
    BY <1>1, DoType DEF Calls
  <2>3. QED
    BY <2>1, <2>2 DEF NextFrameContinuous
<1>3. /\ current_buffer' \in Buffers /\ frame_count' \in Nat /\ calls' \in Nat
      /\ capture_mode' \in Modes
  BY <1>1, AfterInRing DEF NextFrameContinuous, Begin, Modes
<1>4. QED
  BY <1>2, <1>3 DEF BeginOK

(* request_frame_poll() plans legal steps.                                 *)
LEMMA PollType ==
    ASSUME ClientOK, NEW framenum \in Nat, NEW count \in Nat, NEW call \in Calls,
           NEW offset \in Int, Poll(framenum, count, call, offset)
    PROVE  BeginOK
<1> DEFINE reached == IF capture_mode # "MODE_CAP_SINGLE" THEN count + 1 ELSE count
           left    == IF framenum > reached THEN framenum - reached ELSE 0
           last    == After(current_buffer, left)
<1>1. current_buffer \in Buffers /\ calls \in Nat
  BY DEF ClientOK
<1>2. reached \in Nat /\ left \in Nat
  OBVIOUS
<1>3. last \in Buffers
  BY <1>1, <1>2, AfterInRing
<1>4. /\ todo' = Drain(call) \o PollPlan(current_buffer, left, call)
                  \o <<Do("return", After(last, offset), call)>>
      /\ capture_mode' = "MODE_CAP_SINGLE"
      /\ current_buffer' = last
      /\ frame_count' = reached + left
      /\ calls' = calls + 1
  BY DEF Poll, Begin
<1> HIDE DEF reached, left, last
<1>5. todo' \in Seq(PlanStep)
  <2>1. Drain(call) \in Seq(PlanStep)
    BY <1>1, DoType DEF Drain
  <2>2. PollPlan(current_buffer, left, call) \in Seq(PlanStep)
    BY <1>1, <1>2, PollPlanType
  <2>3. Do("return", After(last, offset), call) \in PlanStep
    BY <1>3, AfterInRing, DoType
  <2>4. QED
    BY <1>4, <2>1, <2>2, <2>3
<1>6. /\ current_buffer' \in Buffers /\ frame_count' \in Nat /\ calls' \in Nat
      /\ capture_mode' \in Modes
  BY <1>1, <1>2, <1>3, <1>4 DEF Modes
<1>7. QED
  BY <1>5, <1>6 DEF BeginOK

(* Every call starts with a legal plan.                                    *)
LEMMA BeginCallOK == ClientOK /\ BeginCall => BeginOK
<1> SUFFICES ASSUME ClientOK, BeginCall
             PROVE  BeginOK
  OBVIOUS
<1>1. frame_count \in Nat
  BY DEF ClientOK
<1>2. CASE NextFrameContinuous
  BY <1>2, NextFrameContinuousType
<1>3. CASE NextFramePoll
  BY <1>1, <1>3, PollType DEF NextFramePoll, Calls
<1>4. ASSUME NEW ahead \in 0..2, RequestFramePoll(frame_count + ahead)
      PROVE  BeginOK
  BY <1>1, <1>4, PollType DEF RequestFramePoll, Calls
<1>5. QED
  BY <1>2, <1>3, <1>4 DEF BeginCall

(* The plan of every call consists of legal steps.                         *)
LEMMA BeginCallPlans == ClientOK /\ BeginCall => todo' \in Seq(PlanStep)
  BY BeginCallOK DEF BeginOK

(* Starting a call keeps the client well typed.                            *)
LEMMA BeginCallType == ClientOK /\ BeginCall => ClientOK'
<1> SUFFICES ASSUME ClientOK, BeginCall
             PROVE  ClientOK'
  OBVIOUS
<1>1. BeginOK
  BY BeginCallOK
<1>2. todo' \in Seq(Step) /\ (todo' # <<>> => Tail(todo') \in Seq(PlanStep))
  BY <1>1, PlanIsOK DEF BeginOK
<1>3. QED
  BY <1>1, <1>2 DEF BeginOK, ClientOK, InCall

(* The steps of a device on the head of todo *)
LEMMA DoneType == ClientOK /\ InCall /\ Done => ClientOK'
<1> SUFFICES ASSUME ClientOK, InCall, Done
             PROVE  ClientOK'
  OBVIOUS
<1>1. todo' \in Seq(PlanStep)
  BY DEF ClientOK, Done
<1>2. QED
  BY <1>1, PlanIsOK DEF ClientOK, Done, InCall

(* Returning a frame keeps the client well typed.                          *)
LEMMA ReturnType ==
    ASSUME ClientOK, NEW stamp, Return(stamp)
    PROVE  ClientOK'
<1>1. todo' \in Seq(PlanStep)
  BY DEF ClientOK, Return, InCall
<1>2. QED
  BY <1>1, PlanIsOK DEF ClientOK, Return, InCall

(* Entering the next part of a step keeps the client well typed.           *)
LEMMA BecomesType ==
    ASSUME ClientOK, InCall, NEW op \in Ops, Becomes(op)
    PROVE  ClientOK'
<1>1. todo \in Seq(Step) /\ todo # <<>> /\ Tail(todo) \in Seq(PlanStep)
  BY DEF ClientOK, InCall
<1>2. Do(op, Head(todo).buf, Head(todo).call) \in Step
  <2>1. Head(todo) \in Step
    BY <1>1
  <2>2. QED
    BY <2>1 DEF Do, Step
<1>3. todo' = <<Do(op, Head(todo).buf, Head(todo).call)>> \o Tail(todo)
  BY DEF Becomes
<1>4. todo' \in Seq(Step) /\ Tail(todo') = Tail(todo)
  BY <1>1, <1>2, <1>3
<1>5. QED
  BY <1>1, <1>4 DEF ClientOK, Becomes, InCall

(* A new client is well typed.                                             *)
LEMMA ClientInitType == ClientInit => ClientOK
  BY RingAssumption DEF ClientInit, ClientOK, Buffers, Modes, InCall
-----------------------------------------------------------------------------
(* The shape of a call: where the client is in what it has planned.  The   *)
(* device may have replaced the operation at the head of todo by another   *)
(* one of the same phase.                                                  *)
InitOps == {"initiate", "push", "give", "lock", "nudge_released", "unlock_released",
            "nudge_locked", "unlock_locked"}
WaitOps == {"wait", "take", "decode", "lockframe", "condwait", "asleep", "pop", "putback"}

(* Rounds of the polling loop that are still to come *)
Rounds(s) ==
    /\ s \in Seq(PlanStep) /\ s # <<>>
    /\ \A j \in 1..Len(s) :
          \/ /\ s[j].op = "initiate" /\ j < Len(s)
             /\ s[j + 1].op = "wait" /\ s[j + 1].buf = s[j].buf
          \/ s[j].op = "wait" /\ j < Len(s) /\ s[j + 1].op # "wait"
          \/ s[j].op = "return" /\ j = Len(s)

HeadIs(ops, b, rest) ==
    todo # <<>> /\ Head(todo).op \in ops /\ Head(todo).buf = b /\ Tail(todo) = rest

WaitAndReturn(b) == <<Do("wait", b, "continuous"), Do("return", b, "continuous")>>

(* Continuous mode, about to return buffer b *)
Streaming(b) == capture_mode = "MODE_CAP_CONTINUOUS" /\ current_buffer = After(b, 1)
StreamFirst(b) == Streaming(b) /\ HeadIs(InitOps, b, ContinuousPlan(b))
StreamAhead(b) == Streaming(b) /\ HeadIs(InitOps, After(b, 1), WaitAndReturn(b))
StreamWait(b)  == Streaming(b) /\ HeadIs(WaitOps, b, <<Do("return", b, "continuous")>>)
StreamReturn(b) == Streaming(b) /\ HeadIs({"return"}, b, <<>>)

(* Polling mode *)
PollInit ==
    /\ capture_mode = "MODE_CAP_SINGLE"
    /\ todo # <<>> /\ Head(todo).op \in InitOps
    /\ Rounds(Tail(todo))
    /\ Tail(todo)[1].op = "wait" /\ Tail(todo)[1].buf = Head(todo).buf
PollWait ==
    /\ capture_mode = "MODE_CAP_SINGLE"
    /\ todo # <<>> /\ Head(todo).op \in WaitOps
    /\ Rounds(Tail(todo))
    /\ Tail(todo)[1].op # "wait"
PollReturn ==
    /\ capture_mode = "MODE_CAP_SINGLE"
    /\ todo # <<>> /\ Head(todo).op = "return" /\ Tail(todo) = <<>>

(* What a plan's steps are. *)
LEMMA DoIs ==
    ASSUME NEW op, NEW b, NEW call
    PROVE  Do(op, b, call).op = op /\ Do(op, b, call).buf = b
  BY DEF Do

(* Rounds are left one step at a time. *)
LEMMA RoundsTail ==
    ASSUME NEW s, Rounds(s), s[1].op # "return"
    PROVE  Rounds(Tail(s))
<1>1. s \in Seq(PlanStep) /\ Len(s) > 1
  BY DEF Rounds
<1>2. PICK n \in Nat : n = Len(s) /\ n > 1
  BY <1>1
<1>3. PICK t : t = Tail(s)
  OBVIOUS
<1>4. /\ t \in Seq(PlanStep) /\ Len(t) = n - 1
      /\ \A j \in 1..(n - 1) : t[j] = s[j + 1]
  BY <1>1, <1>2, <1>3
<1>5. ASSUME NEW j \in 1..(n - 1)
      PROVE  \/ /\ t[j].op = "initiate" /\ j < n - 1
                /\ t[j + 1].op = "wait" /\ t[j + 1].buf = t[j].buf
             \/ t[j].op = "wait" /\ j < n - 1 /\ t[j + 1].op # "wait"
             \/ t[j].op = "return" /\ j = n - 1
  <2>1. PICK k \in 1..n : k = j + 1 /\ t[j] = s[k]
    BY <1>4
  <2>2. k < n => j < n - 1 /\ t[j + 1] = s[k + 1]
    BY <1>4, <2>1
  <2>3. k = n => j = n - 1
    BY <2>1
  <2>4. \/ /\ s[k].op = "initiate" /\ k < n
           /\ s[k + 1].op = "wait" /\ s[k + 1].buf = s[k].buf
        \/ s[k].op = "wait" /\ k < n /\ s[k + 1].op # "wait"
        \/ s[k].op = "return" /\ k = n
    BY <1>2 DEF Rounds
  <2>5. QED
    BY <2>1, <2>2, <2>3, <2>4
<1>6. t # <<>>
  BY <1>2, <1>4
<1>7. Rounds(t)
  BY <1>4, <1>5, <1>6 DEF Rounds
<1>8. QED
  BY <1>3, <1>7

(* The polling loop and its return are rounds, and so they are after a     *)
(* wait for the acquisition that continuous mode has left.                 *)
LEMMA PollRounds ==
    ASSUME NEW b \in Buffers, NEW left \in Nat, NEW call \in Calls, NEW last \in Buffers,
           NEW s, s = PollPlan(b, left, call) \o <<Do("return", last, call)>>
    PROVE  Rounds(s) /\ s[1].op # "wait"
<1> DEFINE round(j) == IF j % 2 = 1
                       THEN Do("initiate", After(b, (j + 1) \div 2), call)
                       ELSE Do("wait", After(b, j \div 2), call)
<1>1. PollPlan(b, left, call) \in Seq(PlanStep) /\ Do("return", last, call) \in PlanStep
  BY PollPlanType, DoType
<1>2. /\ Len(PollPlan(b, left, call)) = 2 * left
      /\ \A j \in 1..(2 * left) : PollPlan(b, left, call)[j] = round(j)
  <2>1. 2 * left \in Nat
    OBVIOUS
  <2>2. PollPlan(b, left, call) = [j \in 1..(2 * left) |-> round(j)]
    BY DEF PollPlan
  <2> HIDE DEF round
  <2>3. QED
    BY <1>1, <2>1, <2>2
<1>3. PICK ret \in PlanStep : ret = Do("return", last, call) /\ ret.op = "return"
  BY <1>1, DoIs
<1>4. PICK p \in Seq(PlanStep) : /\ p = PollPlan(b, left, call) /\ Len(p) = 2 * left
                                 /\ \A j \in 1..(2 * left) : p[j] = round(j)
  BY <1>1, <1>2
<1>5. /\ s \in Seq(PlanStep) /\ Len(s) = 2 * left + 1
      /\ \A j \in 1..(2 * left) : s[j] = round(j)
      /\ s[2 * left + 1] = ret
  <2> HIDE DEF round
  <2>1. s = p \o <<ret>>
    BY <1>3, <1>4
  <2>2. /\ s \in Seq(PlanStep) /\ Len(s) = Len(p) + 1 /\ s[Len(p) + 1] = ret
        /\ \A j \in 1..Len(p) : s[j] = p[j]
    BY ONLY <2>1, p \in Seq(PlanStep), ret \in PlanStep
  <2>3. QED
    BY <1>4, <2>2
<1>6. ASSUME NEW j \in 1..(2 * left), j % 2 = 1
      PROVE  /\ s[j].op = "initiate" /\ j < Len(s)
             /\ s[j + 1].op = "wait" /\ s[j + 1].buf = s[j].buf
  <2>1. j + 1 \in 1..(2 * left) /\ (j + 1) % 2 # 1
    BY <1>6
  <2>2. /\ s[j] = Do("initiate", After(b, (j + 1) \div 2), call)
        /\ s[j + 1] = Do("wait", After(b, (j + 1) \div 2), call)
    BY <1>5, <1>6, <2>1
  <2>3. QED
    BY <1>5, <2>2, DoIs
<1>7. ASSUME NEW j \in 1..(2 * left), j % 2 # 1
      PROVE  s[j].op = "wait" /\ j < Len(s) /\ s[j + 1].op # "wait"
  <2>1. s[j].op = "wait"
    <3>1. \A x : Do("wait", x, call).op = "wait"
      BY DoIs
    <3>2. s[j] = Do("wait", After(b, j \div 2), call)
      BY <1>5, <1>7
    <3>3. QED
      BY <3>1, <3>2
  <2>2. CASE j = 2 * left
    BY <1>3, <1>5, <2>1, <2>2, DoIs
  <2>3. CASE j # 2 * left
    <3>1. PICK k \in 1..(2 * left) : k = j + 1 /\ k % 2 = 1
      BY <1>7, <2>3
    <3>2. s[k].op = "initiate"
      BY <1>6, <3>1
    <3>3. s[j].op = "wait"
      BY <2>1
    <3>4. s[j + 1].op # "wait"
      BY <3>1, <3>2
    <3>5. j < Len(s)
      BY <1>5
    <3>6. QED
      BY <3>3, <3>4, <3>5
  <2>4. QED
    BY <2>2, <2>3
<1>8. ASSUME NEW j \in 1..Len(s)
      PROVE  \/ /\ s[j].op = "initiate" /\ j < Len(s)
                /\ s[j + 1].op = "wait" /\ s[j + 1].buf = s[j].buf
             \/ s[j].op = "wait" /\ j < Len(s) /\ s[j + 1].op # "wait"
             \/ s[j].op = "return" /\ j = Len(s)
  <2>1. j \in 1..(2 * left) \/ j = 2 * left + 1
    BY <1>5
  <2> HIDE DEF round
  <2>2. QED
    BY <1>3, <1>5, <1>6, <1>7, <2>1
<1>9. s[1].op # "wait"
  <2>1. CASE left = 0
    BY <1>3, <1>5, <2>1
  <2>2. CASE left # 0
    <3>1. 1 \in 1..(2 * left) /\ 1 % 2 = 1
      BY <2>2
    <3>2. s[1].op = "initiate"
      BY <1>6, <3>1
    <3>3. QED
      BY <3>2
  <2>3. QED
    BY <2>1, <2>2
<1>10. QED
  BY <1>5, <1>8, <1>9 DEF Rounds
-----------------------------------------------------------------------------
(* How a call begins: in continuous mode by scheduling the buffer after    *)
(* the next one, otherwise at the start of its rounds, which leaving       *)
(* continuous mode precedes by a wait for the buffer scheduled ahead.      *)
BeginsOnPlan(b) ==
    \/ capture_mode = "MODE_CAP_SINGLE" /\ StreamFirst(b)' /\ Doing("initiate")'
    \/ capture_mode = "MODE_CAP_CONTINUOUS" /\ StreamAhead(b)' /\ Doing("initiate")'
    \/ /\ capture_mode = "MODE_CAP_CONTINUOUS" /\ PollWait' /\ Doing("wait")'
       /\ Head(todo').buf = b
    \/ capture_mode = "MODE_CAP_SINGLE" /\ PollInit' /\ Doing("initiate")'
    \/ capture_mode = "MODE_CAP_SINGLE" /\ PollReturn'

(* Continuous mode schedules one buffer ahead. *)
LEMMA ContinuousBegins ==
    ASSUME ClientOK, NextFrameContinuous, NEW b \in Buffers, b = current_buffer
    PROVE  BeginsOnPlan(b)
<1>1. capture_mode' = "MODE_CAP_CONTINUOUS" /\ current_buffer' = After(b, 1)
  BY DEF NextFrameContinuous
<1>2. PICK p : p = ContinuousPlan(b)
  OBVIOUS
<1>3. p = <<Do("initiate", After(b, 1), "continuous"), Do("wait", b, "continuous"),
            Do("return", b, "continuous")>>
  BY <1>2 DEF ContinuousPlan
<1>4. CASE capture_mode = "MODE_CAP_SINGLE"
  <2>1. todo' = <<Do("initiate", b, "continuous")>> \o p
    BY <1>2, <1>4 DEF NextFrameContinuous
  <2>2. p \in Seq(PlanStep)
    BY <1>2, ContinuousPlanType
  <2>3. todo' # <<>> /\ Head(todo') = Do("initiate", b, "continuous") /\ Tail(todo') = p
    <3>1. PICK d \in PlanStep : d = Do("initiate", b, "continuous")
      BY DoType DEF Calls
    <3>2. QED
      BY <2>1, <2>2, <3>1
  <2>4. QED
    BY <1>1, <1>2, <1>4, <2>3, DoIs
       DEF BeginsOnPlan, StreamFirst, Streaming, HeadIs, InitOps, Doing
<1>5. CASE capture_mode = "MODE_CAP_CONTINUOUS"
  <2>1. todo' = p
    BY <1>2, <1>5 DEF NextFrameContinuous
  <2>2. /\ todo' # <<>> /\ Head(todo') = Do("initiate", After(b, 1), "continuous")
        /\ Tail(todo') = WaitAndReturn(b)
    BY <1>3, <2>1 DEF WaitAndReturn
  <2>3. QED
    BY <1>1, <1>5, <2>2, DoIs
       DEF BeginsOnPlan, StreamAhead, Streaming, HeadIs, InitOps, Doing
<1>6. QED
  BY <1>4, <1>5 DEF ClientOK, Modes

(* The first of the rounds is at the head of the plan. *)
LEMMA RoundsBegin ==
    ASSUME NEW s, Rounds(s), s[1].op # "wait", todo' = s,
           capture_mode' = "MODE_CAP_SINGLE"
    PROVE  (PollInit' /\ Doing("initiate")') \/ PollReturn'
<1>1. s \in Seq(PlanStep) /\ s # <<>> /\ Len(s) \in Nat /\ 1 \in 1..Len(s) /\ Head(s) = s[1]
  BY DEF Rounds
<1>2. \/ /\ s[1].op = "initiate" /\ 1 < Len(s)
         /\ s[2].op = "wait" /\ s[2].buf = s[1].buf
      \/ s[1].op = "return" /\ 1 = Len(s)
  <2>1. /\ \A j \in 1..Len(s) :
            \/ /\ s[j].op = "initiate" /\ j < Len(s)
               /\ s[j + 1].op = "wait" /\ s[j + 1].buf = s[j].buf
            \/ s[j].op = "wait" /\ j < Len(s) /\ s[j + 1].op # "wait"
            \/ s[j].op = "return" /\ j = Len(s)
    BY DEF Rounds
  <2>2. PICK k \in 1..Len(s) : k = 1 /\ k + 1 = 2
    BY <1>1
  <2>3. s[k].op # "wait"
    BY <2>2
  <2>4. \/ /\ s[k].op = "initiate" /\ k < Len(s)
           /\ s[k + 1].op = "wait" /\ s[k + 1].buf = s[k].buf
        \/ s[k].op = "return" /\ k = Len(s)
    BY <2>1, <2>3
  <2>5. QED
    BY <2>2, <2>4
<1>3. CASE s[1].op = "initiate"
  <2>1. Rounds(Tail(s)) /\ Tail(s)[1] = s[2]
    BY <1>1, <1>2, <1>3, RoundsTail
  <2>2. QED
    BY <1>1, <1>2, <1>3, <2>1 DEF PollInit, Doing, InitOps
<1>4. CASE s[1].op = "return"
  <2>1. Tail(s) = <<>>
    <3>1. Len(s) = 1
      BY <1>2, <1>4
    <3>2. Tail(s) \in Seq(PlanStep) /\ Len(Tail(s)) = 0
      BY <1>1, <3>1
    <3>3. \A q \in Seq(PlanStep) : Len(q) = 0 => q = <<>>
      OBVIOUS
    <3>4. QED
      BY <3>2, <3>3
  <2>2. QED
    BY <1>1, <1>4, <2>1 DEF PollReturn
<1>5. QED
  BY <1>2, <1>3, <1>4

(* The polling mode starts its rounds, after waiting for what continuous   *)
(* mode has scheduled ahead.                                               *)
LEMMA PollBegins ==
    ASSUME ClientOK, NEW framenum \in Nat, NEW count \in Nat, NEW call \in Calls,
           NEW offset \in Int, Poll(framenum, count, call, offset),
           NEW b \in Buffers, b = current_buffer
    PROVE  BeginsOnPlan(b)
<1> DEFINE reached == IF capture_mode # "MODE_CAP_SINGLE" THEN count + 1 ELSE count
<1>1. PICK left \in Nat : left = IF framenum > reached THEN framenum - reached ELSE 0
  <2>1. reached \in Nat
    OBVIOUS
  <2> HIDE DEF reached
  <2>2. (IF framenum > reached THEN framenum - reached ELSE 0) \in Nat
    BY <2>1
  <2>3. QED
    BY <2>2
<1>2. PICK last \in Buffers : last = After(After(b, left), offset)
  BY AfterInRing
<1>3. /\ todo' = Drain(call) \o PollPlan(b, left, call) \o <<Do("return", last, call)>>
      /\ capture_mode' = "MODE_CAP_SINGLE"
  BY <1>1, <1>2 DEF Poll
<1>4. PICK p \in Seq(PlanStep) : p = PollPlan(b, left, call)
  BY PollPlanType
<1>5. PICK r \in PlanStep : r = Do("return", last, call)
  BY DoType
<1>6. PICK s : s = p \o <<r>>
  OBVIOUS
<1>7. Rounds(s) /\ s[1].op # "wait" /\ s \in Seq(PlanStep) /\ s # <<>>
  <2>1. s = PollPlan(b, left, call) \o <<Do("return", last, call)>>
    BY <1>4, <1>5, <1>6
  <2>2. Rounds(s) /\ s[1].op # "wait"
    BY <2>1, PollRounds
  <2>3. QED
    BY <2>2 DEF Rounds
<1>8. CASE capture_mode = "MODE_CAP_SINGLE"
  <2>1. todo' = s
    BY <1>3, <1>4, <1>5, <1>6, <1>8 DEF Drain
  <2>2. QED
    BY <1>3, <1>7, <1>8, <2>1, RoundsBegin DEF BeginsOnPlan
<1>9. CASE capture_mode = "MODE_CAP_CONTINUOUS"
  <2>1. PICK w \in PlanStep : w = Do("wait", b, call) /\ w.op = "wait" /\ w.buf = b
    BY DoType, DoIs
  <2>2. todo' = <<w>> \o p \o <<r>>
    BY <1>3, <1>4, <1>5, <1>9, <2>1 DEF Drain
  <2>3. todo' = <<w>> \o s
    BY <1>4, <1>5, <1>6, <2>1, <2>2
  <2>4. todo' # <<>> /\ Head(todo') = w /\ Tail(todo') = s
    BY <1>7, <2>1, <2>3
  <2>5. QED
    BY <1>3, <1>7, <1>9, <2>1, <2>4 DEF BeginsOnPlan, PollWait, Doing, WaitOps
<1>10. QED
  BY <1>8, <1>9 DEF ClientOK, Modes

(* Every call begins on its plan. *)
LEMMA CallBegins ==
    ASSUME ClientOK, BeginCall, NEW b \in Buffers, b = current_buffer
    PROVE  BeginsOnPlan(b)
<1>1. frame_count \in Nat
  BY DEF ClientOK
<1>2. CASE NextFrameContinuous
  BY <1>2, ContinuousBegins
<1>3. CASE NextFramePoll
  BY <1>1, <1>3, PollBegins DEF NextFramePoll, Calls
<1>4. ASSUME NEW ahead \in 0..2, RequestFramePoll(frame_count + ahead)
      PROVE  BeginsOnPlan(b)
  BY <1>1, <1>4, PollBegins DEF RequestFramePoll, Calls
<1>5. QED
  BY <1>2, <1>3, <1>4 DEF BeginCall
-----------------------------------------------------------------------------
(* How a call goes on when the device has done one of its steps. *)
LEMMA StreamFirstDone ==
    ASSUME NEW b \in Buffers, StreamFirst(b), Done
    PROVE  StreamAhead(b)' /\ Doing("initiate")'
<1>1. /\ todo' = <<Do("initiate", After(b, 1), "continuous"), Do("wait", b, "continuous"),
                   Do("return", b, "continuous")>>
      /\ capture_mode' = capture_mode /\ current_buffer' = current_buffer
  BY DEF StreamFirst, HeadIs, Done, ContinuousPlan
<1>2. /\ todo' # <<>> /\ Head(todo') = Do("initiate", After(b, 1), "continuous")
      /\ Tail(todo') = WaitAndReturn(b)
  BY <1>1 DEF WaitAndReturn
<1>3. QED
  BY <1>1, <1>2, DoIs DEF StreamFirst, StreamAhead, Streaming, HeadIs, InitOps, Doing

(* After scheduling ahead, the client waits. *)
LEMMA StreamAheadDone ==
    ASSUME NEW b \in Buffers, StreamAhead(b), Done
    PROVE  StreamWait(b)' /\ Doing("wait")'
<1>1. /\ todo' = <<Do("wait", b, "continuous"), Do("return", b, "continuous")>>
      /\ capture_mode' = capture_mode /\ current_buffer' = current_buffer
  BY DEF StreamAhead, HeadIs, Done, WaitAndReturn
<1>2. /\ todo' # <<>> /\ Head(todo') = Do("wait", b, "continuous")
      /\ Tail(todo') = <<Do("return", b, "continuous")>>
  BY <1>1
<1>3. QED
  BY <1>1, <1>2, DoIs DEF StreamAhead, StreamWait, Streaming, HeadIs, WaitOps, Doing

(* After waiting, it returns. *)
LEMMA StreamWaitDone ==
    ASSUME NEW b \in Buffers, StreamWait(b), Done
    PROVE  StreamReturn(b)'
<1>1. /\ todo' = <<Do("return", b, "continuous")>>
      /\ capture_mode' = capture_mode /\ current_buffer' = current_buffer
  BY DEF StreamWait, HeadIs, Done
<1>2. /\ todo' # <<>> /\ Head(todo') = Do("return", b, "continuous") /\ Tail(todo') = <<>>
  BY <1>1
<1>3. QED
  BY <1>1, <1>2, DoIs DEF StreamWait, StreamReturn, Streaming, HeadIs

(* A round waits for the buffer that it has scheduled. *)
LEMMA PollInitDone ==
    ASSUME PollInit, Done
    PROVE  PollWait' /\ Doing("wait")' /\ Head(todo').buf = Head(todo).buf
<1>1. PICK s : s = Tail(todo)
  OBVIOUS
<1>2. /\ Rounds(s) /\ s[1].op = "wait" /\ s[1].buf = Head(todo).buf
      /\ todo' = s /\ capture_mode' = "MODE_CAP_SINGLE"
  BY <1>1 DEF PollInit, Done
<1>3. s \in Seq(PlanStep) /\ s # <<>> /\ Len(s) \in Nat /\ 1 \in 1..Len(s) /\ Head(s) = s[1]
  BY <1>2 DEF Rounds
<1>4. 1 < Len(s) /\ s[2].op # "wait"
  BY <1>2, <1>3 DEF Rounds
<1>5. Rounds(Tail(s)) /\ Tail(s)[1] = s[2]
  BY <1>2, <1>3, <1>4, RoundsTail
<1>6. QED
  BY <1>2, <1>3, <1>4, <1>5 DEF PollWait, WaitOps, Doing

(* After a round comes another one or the return. *)
LEMMA PollWaitDone ==
    ASSUME PollWait, Done
    PROVE  (PollInit' /\ Doing("initiate")') \/ PollReturn'
<1>1. PICK s : s = Tail(todo)
  OBVIOUS
<1>2. QED
  BY <1>1, RoundsBegin DEF PollWait, Done
-----------------------------------------------------------------------------
(* The device may go on with the head of todo within its phase. *)
LEMMA BecomesSame ==
    ASSUME ClientOK, InCall, NEW op \in Ops, Becomes(op)
    PROVE  /\ todo' # <<>> /\ Head(todo').op = op /\ Head(todo').buf = Head(todo).buf
           /\ Tail(todo') = Tail(todo) /\ Doing(op)'
           /\ capture_mode' = capture_mode /\ current_buffer' = current_buffer
<1>1. PICK d : d = Do(op, Head(todo).buf, Head(todo).call)
  OBVIOUS
<1>2. d.op = op /\ d.buf = Head(todo).buf
  BY <1>1, DoIs
<1>3. PICK t \in Seq(PlanStep) : t = Tail(todo)
  BY DEF ClientOK
<1>4. todo' = <<d>> \o t
  BY <1>1, <1>3 DEF Becomes
<1>5. d \in Step
  <2>1. Head(todo) \in Step
    BY DEF ClientOK, InCall
  <2>2. QED
    BY <1>1, <2>1 DEF Do, Step
<1>6. PlanStep \subseteq Step
  BY DEF PlanStep, Step, Ops
<1>7. todo' # <<>> /\ Head(todo') = d /\ Tail(todo') = t
  BY <1>3, <1>4, <1>5, <1>6
<1>8. QED
  BY <1>2, <1>3, <1>7 DEF Becomes, Doing

(* A step of scheduling is followed by another one. *)
LEMMA InitBecomes ==
    ASSUME ClientOK, InCall, NEW op \in InitOps, Becomes(op)
    PROVE  /\ \A b \in Buffers : StreamFirst(b) => StreamFirst(b)'
           /\ \A b \in Buffers : StreamAhead(b) => StreamAhead(b)'
           /\ PollInit => PollInit'
<1>1. op \in Ops
  BY DEF InitOps, Ops
<1>2. QED
  BY <1>1, BecomesSame DEF StreamFirst, StreamAhead, Streaming, HeadIs, PollInit

(* A step of waiting is followed by another one. *)
LEMMA WaitBecomes ==
    ASSUME ClientOK, InCall, NEW op \in WaitOps, Becomes(op)
    PROVE  /\ \A b \in Buffers : StreamWait(b) => StreamWait(b)'
           /\ PollWait => PollWait'
<1>1. op \in Ops
  BY DEF WaitOps, Ops
<1>2. QED
  BY <1>1, BecomesSame DEF StreamWait, Streaming, HeadIs, PollWait

(* A return ends the call. *)
LEMMA ReturnEnds ==
    ASSUME NEW stamp, Return(stamp),
           PollReturn \/ \E b \in Buffers : StreamReturn(b)
    PROVE  /\ ~InCall' /\ result'.buf = Head(todo).buf
           /\ capture_mode' = capture_mode /\ current_buffer' = current_buffer
  BY DEF Return, PollReturn, StreamReturn, HeadIs, InCall
-----------------------------------------------------------------------------
(* Queues of different things, as the devices keep them *)

(* Appending something new *)
LEMMA AppendSet ==
    ASSUME NEW S, NEW s \in Seq(S), NEW x \in S
    PROVE  /\ Append(s, x) \in Seq(S)
           /\ ToSet(Append(s, x)) = ToSet(s) \cup {x}
           /\ IsInjective(s) /\ x \notin ToSet(s) => IsInjective(Append(s, x))
<1>1. PICK n \in Nat : n = Len(s)
  OBVIOUS
<1> Append(s, x) \in Seq(S)
  OBVIOUS
<1>2. PICK t \in Seq(S) : t = Append(s, x)
  OBVIOUS
<1>3. /\ DOMAIN s = 1..n /\ DOMAIN t = 1..(n + 1)
      /\ \A i \in 1..n : t[i] = s[i]
      /\ t[n + 1] = x
  BY <1>1, <1>2
<1>4. \A i \in 1..(n + 1) : i \in 1..n \/ i = n + 1
  OBVIOUS
<1>5. \A i \in 1..n : i \in 1..(n + 1) /\ n + 1 \in 1..(n + 1)
  OBVIOUS
<1>6. n + 1 \in 1..(n + 1)
  OBVIOUS
<1>7. ToSet(t) = ToSet(s) \cup {x}
  BY <1>3, <1>4, <1>5, <1>6 DEF ToSet
<1>8. ASSUME IsInjective(s), x \notin ToSet(s)
      PROVE  IsInjective(t)
  BY <1>3, <1>4, <1>8 DEF ToSet, IsInjective
<1>9. QED
  BY <1>2, <1>7, <1>8

(* Taking the first *)
LEMMA TailSet ==
    ASSUME NEW S, NEW s \in Seq(S), s # <<>>
    PROVE  /\ Tail(s) \in Seq(S) /\ Head(s) \in S
           /\ ToSet(s) = ToSet(Tail(s)) \cup {Head(s)}
           /\ IsInjective(s) => IsInjective(Tail(s)) /\ Head(s) \notin ToSet(Tail(s))
<1>1. PICK n \in Nat : n = Len(s) /\ n > 0
  OBVIOUS
<1> Tail(s) \in Seq(S)
  OBVIOUS
<1>2. PICK t \in Seq(S) : t = Tail(s)
  OBVIOUS
<1>3. /\ DOMAIN s = 1..n /\ DOMAIN t = 1..(n - 1)
      /\ \A i \in 1..(n - 1) : t[i] = s[i + 1]
      /\ Head(s) = s[1] /\ Head(s) \in S
  BY <1>1, <1>2
<1>4. \A i \in 1..n : i = 1 \/ (i - 1 \in 1..(n - 1) /\ t[i - 1] = s[i])
  <2>1. TAKE i \in 1..n
  <2>2. CASE i = 1
    BY <2>2
  <2>3. CASE i # 1
    <3>1. PICK j \in 1..(n - 1) : j = i - 1 /\ j + 1 = i
      BY <1>1, <2>3
    <3>2. QED
      BY <1>3, <3>1
  <2>4. QED
    BY <2>2, <2>3
<1>5. \A i \in 1..(n - 1) : i + 1 \in 1..n /\ i + 1 # 1
  BY <1>1
<1>6. 1 \in 1..n
  BY <1>1
<1>7. ToSet(s) = ToSet(t) \cup {Head(s)}
  <2>1. \A i \in 1..n : s[i] \in ToSet(t) \cup {Head(s)}
    BY <1>3, <1>4 DEF ToSet
  <2>2. \A i \in 1..(n - 1) : t[i] \in ToSet(s)
    BY <1>3, <1>5 DEF ToSet
  <2>3. Head(s) \in ToSet(s)
    BY <1>3, <1>6 DEF ToSet
  <2>4. ToSet(s) \subseteq ToSet(t) \cup {Head(s)}
    BY <1>3, <2>1 DEF ToSet
  <2>5. ToSet(t) \subseteq ToSet(s)
    BY <1>3, <2>2 DEF ToSet
  <2>6. QED
    BY <2>3, <2>4, <2>5
<1>8. ASSUME IsInjective(s)
      PROVE  IsInjective(t) /\ Head(s) \notin ToSet(t)
  <2>1. \A i, j \in 1..n : s[i] = s[j] => i = j
    BY <1>3, <1>8 DEF IsInjective
  <2>2. ASSUME NEW i \in 1..(n - 1), NEW j \in 1..(n - 1), t[i] = t[j]
        PROVE  i = j
    <3>1. i + 1 = j + 1
      BY <1>3, <1>5, <2>1, <2>2
    <3>2. QED
      BY <3>1
  <2>3. ASSUME NEW i \in 1..(n - 1), t[i] = s[1]
        PROVE  FALSE
    BY <1>3, <1>5, <1>6, <2>1, <2>3
  <2>4. QED
    BY <1>3, <2>2, <2>3 DEF IsInjective, ToSet
<1>9. QED
  BY <1>2, <1>3, <1>7, <1>8

(* Taking the last *)
LEMMA FrontSet ==
    ASSUME NEW S, NEW s \in Seq(S), s # <<>>
    PROVE  /\ Front(s) \in Seq(S) /\ Last(s) \in S
           /\ ToSet(s) = ToSet(Front(s)) \cup {Last(s)}
           /\ IsInjective(s) => IsInjective(Front(s)) /\ Last(s) \notin ToSet(Front(s))
<1>1. PICK n \in Nat : n = Len(s) /\ n > 0
  OBVIOUS
<1> SubSeq(s, 1, n - 1) \in Seq(S)
  BY <1>1
<1>2. PICK t \in Seq(S) : t = Front(s) /\ Len(t) = n - 1 /\ \A i \in 1..(n - 1) : t[i] = s[i]
  <2>1. PICK t \in Seq(S) : t = SubSeq(s, 1, n - 1)
    OBVIOUS
  <2>2. Len(t) = n - 1 /\ \A i \in 1..(n - 1) : t[i] = s[i]
    BY <1>1, <2>1
  <2>3. t = Front(s)
    BY <1>1, <2>1 DEF Front
  <2>4. QED
    BY <2>2, <2>3
<1>3. /\ DOMAIN s = 1..n /\ DOMAIN t = 1..(n - 1)
      /\ Last(s) = s[n] /\ Last(s) \in S
  BY <1>1, <1>2 DEF Last
<1>4. \A i \in 1..n : i = n \/ i \in 1..(n - 1)
  BY <1>1
<1>5. \A i \in 1..(n - 1) : i \in 1..n /\ i # n
  BY <1>1
<1>6. n \in 1..n
  BY <1>1
<1>7. ToSet(s) = ToSet(t) \cup {Last(s)}
  BY <1>2, <1>3, <1>4, <1>5, <1>6 DEF ToSet
<1>8. ASSUME IsInjective(s)
      PROVE  IsInjective(t) /\ Last(s) \notin ToSet(t)
  BY <1>2, <1>3, <1>5, <1>6, <1>8 DEF IsInjective, ToSet
<1>9. QED
  BY <1>2, <1>3, <1>7, <1>8

(* Putting queues of different things together *)
LEMMA ConcatSet ==
    ASSUME NEW S, NEW s \in Seq(S), NEW t \in Seq(S)
    PROVE  /\ s \o t \in Seq(S)
           /\ ToSet(s \o t) = ToSet(s) \cup ToSet(t)
           /\ IsInjective(s) /\ IsInjective(t) /\ ToSet(s) \cap ToSet(t) = {}
                 => IsInjective(s \o t)
<1>1. PICK m \in Nat : m = Len(s)
  OBVIOUS
<1>2. PICK n \in Nat : n = Len(t)
  OBVIOUS
<1> s \o t \in Seq(S)
  OBVIOUS
<1>3. PICK u \in Seq(S) : u = s \o t
  OBVIOUS
<1>4. /\ DOMAIN s = 1..m /\ DOMAIN t = 1..n /\ DOMAIN u = 1..(m + n)
      /\ \A i \in 1..m : u[i] = s[i]
  BY <1>1, <1>2, <1>3
<1>5. \A i \in 1..n : m + i \in 1..(m + n) /\ u[m + i] = t[i]
  <2>1. TAKE i \in 1..n
  <2>2. PICK k \in 1..(m + n) : k = m + i /\ k > m /\ i = k - m
    OBVIOUS
  <2>3. u[k] = t[k - Len(s)]
    BY <1>1, <1>2, <1>3, <2>2
  <2>4. QED
    BY <1>1, <2>2, <2>3
<1>6. \A k \in 1..(m + n) : k \in 1..m \/ \E i \in 1..n : k = m + i
  <2>1. TAKE k \in 1..(m + n)
  <2>2. CASE k > m
    <3>1. k - m \in 1..n /\ k = m + (k - m)
      BY <2>2
    <3>2. QED
      BY <3>1
  <2>3. QED
    BY <2>2
<1>7. \A i \in 1..m : i \in 1..(m + n)
  OBVIOUS
<1>8. ToSet(u) = ToSet(s) \cup ToSet(t)
  <2>1. \A k \in 1..(m + n) : u[k] \in ToSet(s) \cup ToSet(t)
    BY <1>4, <1>5, <1>6 DEF ToSet
  <2>2. \A i \in 1..m : s[i] \in ToSet(u)
    BY <1>4, <1>7 DEF ToSet
  <2>3. \A i \in 1..n : t[i] \in ToSet(u)
    BY <1>4, <1>5 DEF ToSet
  <2>4. ToSet(u) \subseteq ToSet(s) \cup ToSet(t)
    BY <1>4, <2>1 DEF ToSet
  <2>5. ToSet(s) \subseteq ToSet(u) /\ ToSet(t) \subseteq ToSet(u)
    BY <1>4, <2>2, <2>3 DEF ToSet
  <2>6. QED
    BY <2>4, <2>5
<1>9. ASSUME IsInjective(s), IsInjective(t), ToSet(s) \cap ToSet(t) = {},
             NEW k \in 1..(m + n), NEW l \in 1..(m + n), u[k] = u[l]
      PROVE  k = l
  <2>1. \A i \in 1..m, j \in 1..n : s[i] # t[j]
    BY <1>4, <1>9 DEF ToSet
  <2>2. CASE k \in 1..m /\ l \in 1..m
    BY <1>4, <1>9, <2>2 DEF IsInjective
  <2>3. ASSUME NEW i \in 1..n, NEW j \in 1..n, k = m + i, l = m + j
        PROVE  k = l
    BY <1>4, <1>5, <1>9, <2>3 DEF IsInjective
  <2>4. ASSUME NEW i \in 1..n, k = m + i, l \in 1..m
        PROVE  k = l
    BY <1>4, <1>5, <1>9, <2>1, <2>4
  <2>5. ASSUME NEW j \in 1..n, l = m + j, k \in 1..m
        PROVE  k = l
    BY <1>4, <1>5, <1>9, <2>1, <2>5
  <2>6. QED
    BY <1>6, <2>2, <2>3, <2>4, <2>5
<1>10. QED
  BY <1>3, <1>4, <1>8, <1>9 DEF IsInjective

(* A queue of different things has each of them at one place, if at all.   *)
LEMMA OnePlace ==
    ASSUME NEW q, IsInjective(q), NEW f, NEW tag
    PROVE  /\ f \notin ToSet(q) => {<<tag, i>> : i \in {j \in DOMAIN q : q[j] = f}} = {}
           /\ f \in ToSet(q) =>
                \E i : {<<tag, k>> : k \in {j \in DOMAIN q : q[j] = f}} = {<<tag, i>>}
<1>1. CASE f \notin ToSet(q)
  BY <1>1 DEF ToSet
<1>2. CASE f \in ToSet(q)
  <2>1. PICK i \in DOMAIN q : q[i] = f
    BY <1>2 DEF ToSet
  <2>2. {j \in DOMAIN q : q[j] = f} = {i}
    BY <2>1 DEF IsInjective
  <2>3. {<<tag, k>> : k \in {j \in DOMAIN q : q[j] = f}} = {<<tag, i>>}
    BY <2>2
  <2>4. QED
    BY <1>2, <2>3
<1>3. QED
  BY <1>1, <1>2
-----------------------------------------------------------------------------
(* In single mode nothing is under way of a call of the continuous mode.   *)
PolledStep == {s \in Step : s.call # "continuous"}
Polled == capture_mode = "MODE_CAP_SINGLE" => todo \in Seq(PolledStep)

(* request_frame_poll() plans steps of its own. *)
LEMMA PollPolled ==
    ASSUME ClientOK, NEW framenum \in Nat, NEW count \in Nat,
           NEW call \in Calls \ {"continuous"}, NEW offset \in Int,
           Poll(framenum, count, call, offset)
    PROVE  Polled'
<1> DEFINE reached == IF capture_mode # "MODE_CAP_SINGLE" THEN count + 1 ELSE count
           left    == IF framenum > reached THEN framenum - reached ELSE 0
           last    == After(current_buffer, left)
           round(j) == IF j % 2 = 1
                       THEN Do("initiate", After(current_buffer, (j + 1) \div 2), call)
                       ELSE Do("wait", After(current_buffer, j \div 2), call)
<1>1. current_buffer \in Buffers /\ left \in Nat
  BY DEF ClientOK
<1>2. ASSUME NEW b \in Buffers, NEW op \in {"initiate", "wait", "return"}
      PROVE  Do(op, b, call) \in PolledStep
  BY DEF Do, PolledStep, Step, Ops
<1>3. Drain(call) \in Seq(PolledStep)
  BY <1>1, <1>2 DEF Drain
<1>4. PollPlan(current_buffer, left, call) \in Seq(PolledStep)
  <2>1. ASSUME NEW j \in 1..(2 * left) PROVE round(j) \in PolledStep
    <3>1. (j + 1) \div 2 \in Int /\ j \div 2 \in Int
      OBVIOUS
    <3>2. QED
      BY <1>1, <1>2, <3>1, AfterInRing
  <2>2. PollPlan(current_buffer, left, call) = [j \in 1..(2 * left) |-> round(j)]
    BY DEF PollPlan
  <2>3. 2 * left \in Nat
    BY <1>1
  <2> HIDE DEF round, left
  <2>4. QED
    BY <2>1, <2>2, <2>3
<1>5. Do("return", After(last, offset), call) \in PolledStep
  BY <1>1, <1>2, AfterInRing
<1>6. todo' = Drain(call) \o PollPlan(current_buffer, left, call)
              \o <<Do("return", After(last, offset), call)>>
  BY DEF Poll
<1> HIDE DEF left, last
<1>7. todo' \in Seq(PolledStep)
  BY <1>3, <1>4, <1>5, <1>6
<1>8. QED
  BY <1>7 DEF Polled

(* A call of the continuous mode enters that mode, and the others leave it *)
LEMMA PolledBegin ==
    ASSUME ClientOK, BeginCall
    PROVE  Polled'
<1>1. frame_count \in Nat
  BY DEF ClientOK
<1>2. CASE NextFrameContinuous
  BY <1>2 DEF NextFrameContinuous, Polled
<1>3. CASE NextFramePoll
  BY <1>1, <1>3, PollPolled DEF NextFramePoll, Calls
<1>4. ASSUME NEW ahead \in 0..2, RequestFramePoll(frame_count + ahead)
      PROVE  Polled'
  BY <1>1, <1>4, PollPolled DEF RequestFramePoll, Calls
<1>5. QED
  BY <1>2, <1>3, <1>4 DEF BeginCall

(* A step of a call leaves the others of the same call.                    *)
LEMMA PolledGoesOn ==
    ASSUME ClientOK, InCall, Polled, Done \/ \E op \in Ops : Becomes(op)
    PROVE  Polled'
<1> SUFFICES ASSUME capture_mode = "MODE_CAP_SINGLE"
             PROVE  todo' \in Seq(PolledStep)
  BY DEF Polled, Done, Becomes
<1>1. todo \in Seq(PolledStep) /\ todo # <<>>
  BY DEF Polled, InCall
<1>2. CASE Done
  BY <1>1, <1>2 DEF Done
<1>3. ASSUME NEW op \in Ops, Becomes(op) PROVE todo' \in Seq(PolledStep)
  <2>1. Head(todo) \in PolledStep
    BY <1>1
  <2>2. Do(op, Head(todo).buf, Head(todo).call) \in PolledStep
    BY <2>1 DEF Do, PolledStep, Step
  <2>3. Tail(todo) \in Seq(PolledStep)
    BY <1>1
  <2>4. QED
    BY <1>3, <2>2, <2>3 DEF Becomes
<1>4. QED
  BY <1>2, <1>3

(* In single mode a frame is not one of the continuous mode. *)
LEMMA PolledResult ==
    ASSUME Polled, NEW stamp, Return(stamp), capture_mode = "MODE_CAP_SINGLE"
    PROVE  Polled' /\ result'.call # "continuous"
<1>1. todo \in Seq(PolledStep) /\ todo # <<>>
  BY DEF Polled, Return
<1>2. Head(todo) \in PolledStep /\ Tail(todo) \in Seq(PolledStep)
  BY <1>1
<1>3. QED
  BY <1>2 DEF Polled, PolledStep, Return
=============================================================================
