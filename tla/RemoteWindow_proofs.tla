------------------------- MODULE RemoteWindow_proofs -------------------------
(* Theorems about RemoteWindow, for every number of frames, drawings and   *)
(* events.                                                                 *)
EXTENDS RemoteWindow, SequenceTheorems, TLAPS

(* The reversal in flush() makes a list of drawings of a list of drawings. *)
LEMMA ReverseType ==
    ASSUME NEW S, NEW s \in Seq(S)
    PROVE  Reverse(s) \in Seq(S)
<1>1. \A i \in 1..Len(s) : (Len(s) - i) + 1 \in 1..Len(s)
  OBVIOUS
<1>2. Reverse(s) \in [1..Len(s) -> S]
  BY <1>1 DEF Reverse
<1>3. QED
  BY <1>2

(* The pointers and the threads' carriers name Requests objects: only the  *)
(* two exchanges and the rotation move them.                               *)
LEMMA PointersStep == PointersOK /\ [Next]_vars => PointersOK'
<1> SUFFICES ASSUME PointersOK, [Next]_vars
             PROVE  PointersOK'
  OBVIOUS
<1> USE DEF PointersOK, Threads
<1>1. CASE UNCHANGED pointers
  BY <1>1 DEF pointers
<1>2. CASE FlushLock
  BY <1>2 DEF FlushLock
<1>3. CASE FlushSwap
  BY <1>3 DEF FlushSwap
<1>4. CASE SupLockNext
  BY <1>4 DEF SupLockNext
<1>5. CASE SupMove
  BY <1>5 DEF SupMove
<1>6. CASE SupRotate
  BY <1>6 DEF SupRotate
<1>7. QED
  BY <1>1, <1>2, <1>3, <1>4, <1>5, <1>6
     DEF Next, Begin, Finish, Supervisor, vars, Draw, CopySubImage, SwapBuffers,
         Issue, FlushClear, FlushSignal, LockLast, GetImage, CheckEvents,
         DeleteDie, DeleteJoin, SupDie, SupSend, SupFlush, SupLockLast, SupTest,
         SupSleep, SpuriousWakeup, XEvent

(* clear(), push_front() and flush() make a Requests object of one.        *)
LEMMA ClearedType ==
    ASSUME NEW r \in Requests
    PROVE  Cleared(r) \in Requests /\ Cleared(r).frame = 0
  BY DEF Cleared, Requests

(* Pushing a request keeps the records of requests well typed.             *)
LEMMA PushedType ==
    ASSUME NEW r \in Requests, NEW kind \in Kinds, issued \in Nat
    PROVE  Pushed(r, kind) \in Requests /\ Pushed(r, kind).frame = r.frame
  BY DEF Pushed, Requests, Drawing

(* Handing the records over keeps them well typed.                         *)
LEMMA PublishedType ==
    ASSUME NEW r \in Requests, frames \in Nat
    PROVE  Published(r) \in Requests /\ Published(r).frame = frames + 1
<1>1. IssueOrder(r.drawings) \in Seq(Drawing)
  BY ReverseType DEF IssueOrder, Requests
<1>2. QED
  BY <1>1 DEF Published, Requests

(* The Requests objects stay what Requests::Requests() makes them.         *)
LEMMA RequestsStep == PointersOK /\ RequestsOK /\ [Next]_vars => RequestsOK'
<1> SUFFICES ASSUME PointersOK, RequestsOK, [Next]_vars
             PROVE  RequestsOK'
  OBVIOUS
<1>0. next \in Buffers /\ dnext \in Buffers /\ carrier["supervisor"] \in Buffers
  BY DEF PointersOK, Threads
<1> USE <1>0 DEF RequestsOK
<1>1. CASE UNCHANGED <<req, sending, issued, frames>>
  BY <1>1
<1>3. ASSUME NEW kind \in Kinds, Issue(kind)
      PROVE  RequestsOK'
  BY <1>3, PushedType DEF Issue
<1>6. CASE FlushLock
  BY <1>6, PublishedType DEF FlushLock
<1>7. CASE FlushClear
  BY <1>7, ClearedType DEF FlushClear, counters
<1>8. CASE SupMove
  <2>1. req' \in [Buffers -> Requests]
    BY <1>8, ClearedType DEF SupMove, NextCleared
  <2>2. sending' \in Seq(Drawing)
    BY <1>8 DEF SupMove, Requests
  <2>3. QED
    BY <1>8, <2>1, <2>2 DEF SupMove, counters
<1>9. CASE SupSend
  BY <1>9 DEF SupSend, counters
<1>10. QED
  BY <1>1, <1>3, <1>6, <1>7, <1>8, <1>9
     DEF Next, Begin, Finish, Supervisor, vars, counters, Kinds, Draw,
         CopySubImage, SwapBuffers, FlushSwap,
         FlushSignal, LockLast, GetImage, CheckEvents, DeleteDie, DeleteJoin,
         SupLockNext, SupDie, SupFlush, SupLockLast, SupRotate, SupTest,
         SupSleep, SpuriousWakeup, XEvent

(* The mutexes, `die' and the control states of the two threads.           *)
LEMMA ControlStep == ControlOK /\ [Next]_vars => ControlOK'
<1> SUFFICES ASSUME ControlOK, [Next]_vars
             PROVE  ControlOK'
  OBVIOUS
<1> USE DEF ControlOK, Threads, locks
<1>1. CASE Draw \/ CopySubImage \/ SwapBuffers
  BY <1>1 DEF Draw, CopySubImage, SwapBuffers, Issue, Signalled
<1>2. CASE FlushLock \/ FlushSwap
  BY <1>2 DEF FlushLock, FlushSwap
<1>3. CASE FlushClear \/ FlushSignal
  BY <1>3 DEF FlushClear, FlushSignal, Signalled
<1>4. CASE LockLast \/ GetImage \/ CheckEvents
  BY <1>4 DEF LockLast, GetImage, CheckEvents
<1>5. CASE DeleteDie \/ DeleteJoin
  BY <1>5 DEF DeleteDie, DeleteJoin
<1>6. CASE SupLockNext \/ SupDie \/ SupMove
  BY <1>6 DEF SupLockNext, SupDie, SupMove
<1>7. CASE SupSend \/ SupFlush \/ SupLockLast
  BY <1>7 DEF SupSend, SupFlush, SupLockLast
<1>8. CASE SupRotate \/ SupTest
  BY <1>8 DEF SupRotate, SupTest
<1>9. CASE SupSleep \/ SpuriousWakeup \/ XEvent
  BY <1>9 DEF SupSleep, SpuriousWakeup, XEvent
<1>10. CASE UNCHANGED vars
  BY <1>10 DEF vars
<1>11. QED
  BY <1>1, <1>2, <1>3, <1>4, <1>5, <1>6, <1>7, <1>8, <1>9, <1>10
     DEF Next, Begin, Finish, Supervisor

(* What is known of the X server and of the events it delivers.            *)
LEMMA ServerStep == RequestsOK /\ PointersOK /\ ServerOK /\ [Next]_vars => ServerOK'
<1> SUFFICES ASSUME RequestsOK, PointersOK, ServerOK, [Next]_vars
             PROVE  ServerOK'
  OBVIOUS
<1>0. req[current] \in Requests
  BY DEF RequestsOK, PointersOK
<1> USE DEF ServerOK
<1>1. CASE UNCHANGED <<events, server>>
  BY <1>1 DEF server
<1>2. CASE CheckEvents
  BY <1>2 DEF CheckEvents, server
<1>3. CASE SupSend
  <2>1. Head(sending) \in Drawing
    BY <1>3 DEF SupSend, RequestsOK
  <2>2. QED
    BY <1>0, <1>3, <2>1 DEF SupSend, Drawing, Requests
<1>4. CASE SupFlush
  BY <1>0, <1>4 DEF SupFlush, Requests
<1>5. CASE SupRotate
  BY <1>5 DEF SupRotate
<1>6. CASE XEvent
  BY <1>6 DEF XEvent
<1>7. QED
  BY <1>1, <1>2, <1>3, <1>4, <1>5, <1>6
     DEF Next, Begin, Finish, Supervisor, vars, Draw, CopySubImage, SwapBuffers,
         Issue, FlushLock, FlushSwap, FlushClear, FlushSignal, LockLast, GetImage,
         DeleteDie, DeleteJoin, SupLockNext, SupDie, SupMove, SupLockLast,
         SupTest, SupSleep, SpuriousWakeup

(* The constructor establishes the types.                                  *)
LEMMA InitType == Init => TypeOK
<1>1. Init => PointersOK
  BY DEF Init, PointersOK, Buffers
<1>2. Init => RequestsOK
  BY DEF Init, RequestsOK, EmptyRequests, Requests
<1>3. Init => ControlOK
  BY DEF Init, ControlOK
<1>4. Init => ServerOK
  BY DEF Init, ServerOK
<1>5. QED
  BY <1>1, <1>2, <1>3, <1>4 DEF TypeOK

(* Each variable keeps its type, whatever the two threads do.              *)
THEOREM TypeCorrect == Spec => []TypeOK
<1>1. TypeOK /\ [Next]_vars => TypeOK'
  BY PointersStep, RequestsStep, ControlStep, ServerStep DEF TypeOK
<1>2. QED
  BY InitType, <1>1, PTL DEF Spec

(* IInv is inductive: an exchange moves a pointer only under its mutex, so *)
(* the carrier it goes through still names the object the pointer named.   *)
LEMMA IInvStep == IInv /\ [Next]_vars => Locking' /\ Exclusive'
<1> SUFFICES ASSUME TypeOK, Locking, Exclusive, [Next]_vars
             PROVE  Locking' /\ Exclusive'
  BY DEF IInv
<1> USE DEF TypeOK, ControlOK, Locking, Exclusive, Free, pointers, locks
<1>1. CASE Draw \/ CopySubImage \/ SwapBuffers
  BY <1>1 DEF Draw, CopySubImage, SwapBuffers, Issue, Signalled
<1>2. CASE FlushLock
  BY <1>2 DEF FlushLock, PointersOK, Threads
<1>3. CASE FlushSwap
  BY <1>3 DEF FlushSwap
<1>4. CASE FlushClear \/ FlushSignal
  BY <1>4 DEF FlushClear, FlushSignal, Signalled
<1>5. CASE LockLast \/ GetImage \/ CheckEvents
  BY <1>5 DEF LockLast, GetImage, CheckEvents
<1>6. CASE DeleteDie \/ DeleteJoin
  BY <1>6 DEF DeleteDie, DeleteJoin
<1>7. CASE SupLockNext
  BY <1>7 DEF SupLockNext, PointersOK, Threads
<1>8. CASE SupDie
  BY <1>8 DEF SupDie
<1>9. CASE SupMove
  BY <1>9 DEF SupMove
<1>10. CASE SupSend \/ SupFlush \/ SupLockLast
  BY <1>10 DEF SupSend, SupFlush, SupLockLast
<1>11. CASE SupRotate
  BY <1>11 DEF SupRotate, PointersOK, Threads
<1>12. CASE SupTest \/ SupSleep \/ SpuriousWakeup \/ XEvent
  BY <1>12 DEF SupTest, SupSleep, SpuriousWakeup, XEvent
<1>13. CASE UNCHANGED vars
  BY <1>13 DEF vars
<1>14. QED
  BY <1>1, <1>2, <1>3, <1>4, <1>5, <1>6, <1>7, <1>8, <1>9, <1>10, <1>11,
     <1>12, <1>13 DEF Next, Begin, Finish, Supervisor

(* The constructor establishes the inductive invariant.                    *)
LEMMA InitIInv == Init => IInv
<1>1. Init => Locking /\ Exclusive
  BY DEF Init, Locking, Exclusive
<1>2. QED
  BY <1>1, InitType DEF IInv

(* No Requests object is ever in the hands of both threads, nor sent from  *)
(* while getLastImage or getEventsImage copies its image.                  *)
THEOREM ExclusiveCorrect == Spec => []Exclusive
<1>1. IInv /\ [Next]_vars => IInv'
  <2>1. TypeOK /\ [Next]_vars => TypeOK'
    BY PointersStep, RequestsStep, ControlStep, ServerStep DEF TypeOK
  <2>2. QED
    BY <2>1, IInvStep DEF IInv
<1>2. IInv => Exclusive
  BY DEF IInv
<1>3. QED
  BY InitIInv, <1>1, <1>2, PTL DEF Spec

-----------------------------------------------------------------------------
(* Frames keep their order                                                 *)

(* What PipelineOrder and NewestKept need besides the inductive invariant: *)
(* no object is numbered beyond the last flush(), the object that flush()  *)
(* is about to exchange is the only one with the newest number, and an     *)
(* object asks for the rotation exactly when it was published.             *)
Numbered ==
    /\ \A b \in Buffers : req[b].frame <= frames
    /\ cpc = "swap" =>
          /\ frames > 0 /\ req[next].frame = frames
          /\ \A b \in Buffers \ {next} : req[b].frame < frames
    /\ \A b \in Buffers : req[b].flush <=> req[b].frame # 0

FInv == IInv /\ Numbered /\ PipelineOrder /\ NewestKept

(* What the client, the supervisor and the X server do elsewhere leaves    *)
(* the frames where they are: no pointer moves, no object gets a number,   *)
(* and the supervisor does not start or stop sending.                      *)
LEMMA FramesKept ==
    ASSUME FInv, UNCHANGED <<next, dnext, current, last, prelast, frames>>,
           \A b \in Buffers : /\ req'[b].frame = req[b].frame
                              /\ req'[b].flush = req[b].flush,
           cpc' = cpc \/ (cpc # "swap" /\ cpc' # "swap"),
           \/ spc' = spc
           \/ spc \notin {"send", "locklast", "rotate"}
              /\ spc' \notin {"send", "locklast", "rotate"}
           \/ spc \in {"send", "locklast", "rotate"}
              /\ spc' \in {"send", "locklast", "rotate"}
    PROVE  Numbered' /\ PipelineOrder' /\ NewestKept'
  BY DEF FInv, IInv, TypeOK, PointersOK, Numbered, PipelineOrder, NewestKept, Older

(* The steps that move a pointer or number an object preserve the order.   *)
LEMMA FramesStep == FInv /\ [Next]_vars => Numbered' /\ PipelineOrder' /\ NewestKept'
<1> SUFFICES ASSUME FInv, [Next]_vars
             PROVE  Numbered' /\ PipelineOrder' /\ NewestKept'
  OBVIOUS
<1>0. /\ TypeOK /\ PointersOK /\ RequestsOK /\ Locking /\ Exclusive
      /\ Numbered /\ PipelineOrder /\ NewestKept
      /\ next \in Buffers /\ dnext \in Buffers /\ current \in Buffers
      /\ last \in Buffers /\ prelast \in Buffers
      /\ req \in [Buffers -> Requests] /\ frames \in Nat /\ issued \in Nat
      /\ \A b \in Buffers : req[b].frame \in Nat /\ req[b].flush \in BOOLEAN
  BY DEF FInv, IInv, TypeOK, PointersOK, RequestsOK, Requests
<1>1. ASSUME NEW kind \in Kinds, Issue(kind),
             spc' = spc \/ (spc = "asleep" /\ spc' = "top")
      PROVE  Numbered' /\ PipelineOrder' /\ NewestKept'
  <2>1. \A b \in Buffers : /\ req'[b].frame = req[b].frame
                           /\ req'[b].flush = req[b].flush
    BY <1>0, <1>1 DEF Issue, Pushed
  <2>2. QED
    BY <1>1, <2>1, FramesKept DEF Issue, pointers
<1>2. CASE Draw \/ CopySubImage \/ SwapBuffers
  BY <1>1, <1>2 DEF Draw, CopySubImage, SwapBuffers, Kinds, Signalled
<1>3. CASE FlushLock
  <2>1. /\ frames' = frames + 1 /\ cpc' = "swap" /\ spc' = spc
        /\ UNCHANGED <<next, dnext, current, last, prelast>>
        /\ req'[next].frame = frames + 1 /\ req'[next].flush
        /\ \A b \in Buffers \ {next} : req'[b] = req[b]
    BY <1>0, <1>3 DEF FlushLock, Published
  <2>2. Numbered'
    BY <1>0, <2>1 DEF Numbered
  <2>3. PipelineOrder'
    BY <1>0, <2>1 DEF PipelineOrder, Older, Exclusive
  <2>4. QED
    BY <2>1, <2>2, <2>3 DEF NewestKept
<1>4. CASE FlushSwap
  <2>1. /\ cpc = "swap" /\ cpc' = "clear" /\ dnext' = next /\ next' = dnext
        /\ UNCHANGED <<current, last, prelast, req, spc, frames>>
    BY <1>0, <1>4 DEF FlushSwap, counters, Locking
  <2>2. QED
    BY <1>0, <2>1 DEF Numbered, PipelineOrder, NewestKept, Older, Exclusive
<1>5. CASE FlushClear
  <2>1. /\ cpc = "clear" /\ cpc' = "signal" /\ UNCHANGED <<pointers, frames>>
        /\ spc' = spc \/ (spc = "none" /\ spc' = "top")
        /\ req'[next].frame = 0 /\ ~req'[next].flush
        /\ \A b \in Buffers \ {next} : req'[b] = req[b]
    BY <1>0, <1>5 DEF FlushClear, Cleared, counters
  <2>2. Numbered'
    BY <1>0, <2>1 DEF Numbered, pointers
  <2>3. PipelineOrder' /\ NewestKept'
    BY <1>0, <2>1 DEF PipelineOrder, NewestKept, Older, Exclusive, pointers
  <2>4. QED
    BY <2>2, <2>3
<1>6. CASE SupMove
  <2>1. /\ spc = "move" /\ spc' = "send" /\ current' = dnext /\ dnext' = current
        /\ UNCHANGED <<next, last, prelast, cpc, frames>>
        /\ req'[current].frame = 0 /\ ~req'[current].flush
        /\ \A b \in Buffers \ {current} : req'[b] = req[b]
    BY <1>0, <1>6 DEF SupMove, NextCleared, Cleared, counters, Locking
  <2>2. Numbered'
    BY <1>0, <2>1 DEF Numbered, Exclusive
  <2>3. PipelineOrder' /\ NewestKept'
    BY <1>0, <2>1 DEF PipelineOrder, NewestKept, Older, Exclusive
  <2>4. QED
    BY <2>2, <2>3
<1>7. CASE SupRotate
  <2>1. /\ spc = "rotate" /\ spc' = "test"
        /\ UNCHANGED <<next, dnext, req, cpc, frames>>
    BY <1>7 DEF SupRotate, counters
  <2>2. CASE req[current].flush
    <3>1. prelast' = last /\ last' = current /\ current' = prelast
      BY <1>7, <2>2 DEF SupRotate
    <3>2. Numbered' /\ PipelineOrder'
      BY <1>0, <2>1, <3>1 DEF Numbered, PipelineOrder, Older
    <3>3. req[last].frame # frames
      BY <1>0, <2>1, <2>2 DEF PipelineOrder, Older, Numbered
    <3>4. NewestKept'
      BY <1>0, <2>1, <3>1, <3>3 DEF NewestKept
    <3>5. QED
      BY <3>2, <3>4
  <2>3. CASE ~req[current].flush
    <3>1. UNCHANGED <<prelast, last, current>>
      BY <1>7, <2>3 DEF SupRotate
    <3>2. frames > 0 => req[current].frame # frames
      BY <1>0, <2>3 DEF Numbered
    <3>3. QED
      BY <1>0, <2>1, <3>1, <3>2 DEF Numbered, PipelineOrder, NewestKept, Older
  <2>4. QED
    BY <2>2, <2>3
<1>8. CASE FlushSignal \/ LockLast \/ GetImage \/ CheckEvents \/ DeleteDie \/ DeleteJoin
  <2>1. spc' = spc \/ (spc = "asleep" /\ spc' = "top")
    BY <1>8 DEF FlushSignal, LockLast, GetImage, CheckEvents, DeleteDie, DeleteJoin,
                Signalled
  <2>2. req' = req /\ UNCHANGED <<pointers, frames>> /\ cpc # "swap" /\ cpc' # "swap"
    BY <1>8 DEF FlushSignal, LockLast, GetImage, CheckEvents, DeleteDie, DeleteJoin,
                counters
  <2>3. QED
    BY <2>1, <2>2, FramesKept DEF pointers
<1>9. CASE SupLockNext \/ SupDie \/ SupSend \/ SupFlush \/ SupLockLast \/ SupTest
           \/ SupSleep \/ SpuriousWakeup \/ XEvent \/ UNCHANGED vars
  <2>1. /\ req' = req /\ UNCHANGED <<next, dnext, current, last, prelast, frames, cpc>>
        /\ \/ spc' = spc
           \/ spc \notin {"send", "locklast", "rotate"}
              /\ spc' \notin {"send", "locklast", "rotate"}
           \/ spc \in {"send", "locklast", "rotate"}
              /\ spc' \in {"send", "locklast", "rotate"}
    BY <1>9 DEF SupLockNext, SupDie, SupSend, SupFlush, SupLockLast, SupTest, SupSleep,
                SpuriousWakeup, XEvent, vars, pointers, counters
  <2>2. QED
    BY <2>1, FramesKept
<1>10. QED
  BY <1>2, <1>3, <1>4, <1>5, <1>6, <1>7, <1>8, <1>9
     DEF Next, Begin, Finish, Supervisor

(* FInv is an invariant: before the first flush() no object has a number.  *)
LEMMA FramesInvariant == Spec => []FInv
<1>1. Init => FInv
  <2>1. Init => Numbered /\ PipelineOrder /\ NewestKept
    BY DEF Init, Numbered, PipelineOrder, NewestKept, Older, EmptyRequests, Buffers
  <2>2. QED
    BY <2>1, InitIInv DEF FInv
<1>2. FInv /\ [Next]_vars => FInv'
  <2>1. TypeOK /\ [Next]_vars => TypeOK'
    BY PointersStep, RequestsStep, ControlStep, ServerStep DEF TypeOK
  <2>2. QED
    BY <2>1, IInvStep, FramesStep DEF FInv, IInv
<1>3. QED
  BY <1>1, <1>2, PTL DEF Spec

(* Whatever the two threads interleave, the frame in pre_last is older     *)
(* than the one in last, that one older than the frame being sent, and     *)
(* that one older than the frame that waits in data->next.  (Which image   *)
(* or events go with a frame is not what this says.)                       *)
THEOREM PipelineInOrder == Spec => []PipelineOrder
<1>1. FInv => PipelineOrder
  BY DEF FInv
<1>2. QED
  BY <1>1, FramesInvariant, PTL

(* The newest frame a client has published is never the one that is        *)
(* skipped: it waits, is being sent, or is the last one.                   *)
THEOREM NewestIsKept == Spec => []NewestKept
<1>1. FInv => NewestKept
  BY DEF FInv
<1>2. QED
  BY <1>1, FramesInvariant, PTL

-----------------------------------------------------------------------------
(* Drawings are sent in the order they were issued                         *)

After(m, s)    == \A i \in 1..Len(s) : m < s[i].id
UpTo(s, m)     == \A i \in 1..Len(s) : s[i].id <= m
AllAfter(s, t) == \A i \in 1..Len(s), j \in 1..Len(t) : s[i].id < t[j].id
Ascending(s)   == \A i, j \in 1..Len(s) : i < j => s[i].id < s[j].id
Descending(s)  == \A i, j \in 1..Len(s) : i < j => s[i].id > s[j].id

(* What the server has received is older than what is being sent, that     *)
(* than what waits in data->next, that than what the client fills; each    *)
(* list is in order, the client's in the reverse one until flush().  What  *)
(* flush() gets back from data->next is out of order until it is cleared.  *)
SendingInOrder == /\ After(xsent, sending) /\ Ascending(sending)
                  /\ UpTo(sending, issued) /\ xsent <= issued
WaitingInOrder == /\ After(xsent, req[dnext].drawings)
                  /\ AllAfter(sending, req[dnext].drawings)
                  /\ Ascending(req[dnext].drawings)
                  /\ UpTo(req[dnext].drawings, issued)
FilledInOrder == /\ After(xsent, req[next].drawings)
                 /\ AllAfter(sending, req[next].drawings)
                 /\ AllAfter(req[dnext].drawings, req[next].drawings)
                 /\ UpTo(req[next].drawings, issued)
                 /\ IF cpc = "swap" THEN Ascending(req[next].drawings)
                                    ELSE Descending(req[next].drawings)
Serial == SendingInOrder /\ WaitingInOrder /\ (cpc # "clear" => FilledInOrder)

(* reverse() turns the client's list into one in the order of issue, with  *)
(* the same drawings.                                                      *)
LEMMA ReverseOrder ==
    ASSUME NEW s \in Seq(Drawing), Descending(s)
    PROVE  /\ Ascending(Reverse(s)) /\ Len(Reverse(s)) = Len(s)
           /\ \A i \in 1..Len(s) : \E j \in 1..Len(s) : Reverse(s)[i] = s[j]
<1>1. Len(s) \in Nat
  OBVIOUS
<1>2. \A i \in 1..Len(s) : (Len(s) - i) + 1 \in 1..Len(s)
  BY <1>1
<1>3. /\ Len(Reverse(s)) = Len(s)
      /\ \A i \in 1..Len(s) : Reverse(s)[i] = s[(Len(s) - i) + 1]
  BY <1>1 DEF Reverse
<1>4. ASSUME NEW i \in 1..Len(s), NEW j \in 1..Len(s), i < j
      PROVE  s[(Len(s) - i) + 1].id < s[(Len(s) - j) + 1].id
  <2>1. PICK m \in 1..Len(s) : m = (Len(s) - i) + 1
    BY <1>2
  <2>2. PICK n \in 1..Len(s) : n = (Len(s) - j) + 1
    BY <1>2
  <2>3. n < m /\ s[n].id \in Nat /\ s[m].id \in Nat
    <3>1. s[n] \in Drawing /\ s[m] \in Drawing
      BY ElementOfSeq
    <3>2. QED
      BY <1>1, <1>4, <2>1, <2>2, <3>1 DEF Drawing
  <2>4. QED
    BY <2>1, <2>2, <2>3 DEF Descending
<1>5. QED
  BY <1>2, <1>3, <1>4 DEF Ascending

(* push_front() puts a drawing of the next number before the others.       *)
LEMMA PushFrontOrder ==
    ASSUME NEW s \in Seq(Drawing), NEW d \in Drawing, UpTo(s, issued), issued \in Nat,
           d.id = issued + 1, Descending(s)
    PROVE  /\ Descending(<<d>> \o s) /\ UpTo(<<d>> \o s, issued + 1)
           /\ Len(<<d>> \o s) = Len(s) + 1
           /\ \A i \in 1..(Len(s) + 1) :
                 (<<d>> \o s)[i] = IF i = 1 THEN d ELSE s[i - 1]
<1>1. /\ Len(<<d>> \o s) = Len(s) + 1
      /\ \A i \in 1..(Len(s) + 1) : (<<d>> \o s)[i] = IF i = 1 THEN d ELSE s[i - 1]
  OBVIOUS
<1>2. \A i \in 1..Len(s) : s[i].id \in Nat /\ s[i].id <= issued
  <2>1. \A i \in 1..Len(s) : s[i] \in Drawing
    BY ElementOfSeq
  <2>2. QED
    BY <2>1 DEF UpTo, Drawing
<1>3. UpTo(<<d>> \o s, issued + 1)
  <2>1. SUFFICES ASSUME NEW i \in 1..(Len(s) + 1)
                 PROVE  (<<d>> \o s)[i].id <= issued + 1
    BY <1>1 DEF UpTo
  <2>2. CASE i = 1
    BY <1>1, <2>2
  <2>3. CASE i # 1
    <3>1. PICK k \in 1..Len(s) : k = i - 1
      BY <2>3
    <3>2. QED
      BY <1>1, <1>2, <2>3, <3>1
  <2>4. QED
    BY <2>2, <2>3
<1>4. Descending(<<d>> \o s)
  <2>1. SUFFICES ASSUME NEW i \in 1..(Len(s) + 1), NEW j \in 1..(Len(s) + 1), i < j
                 PROVE  (<<d>> \o s)[i].id > (<<d>> \o s)[j].id
    BY <1>1 DEF Descending
  <2>2. PICK l \in 1..Len(s) : l = j - 1
    BY <2>1
  <2>3. (<<d>> \o s)[j] = s[l]
    BY <1>1, <2>1, <2>2
  <2>4. CASE i = 1
    BY <1>1, <1>2, <2>3, <2>4
  <2>5. CASE i # 1
    <3>1. PICK k \in 1..Len(s) : k = i - 1
      BY <2>5
    <3>2. (<<d>> \o s)[i] = s[k] /\ k < l
      BY <1>1, <2>1, <2>2, <2>5, <3>1
    <3>3. QED
      BY <2>3, <3>2 DEF Descending
  <2>6. QED
    BY <2>4, <2>5
<1>5. QED
  BY <1>1, <1>3, <1>4

(* An empty list is in any order and after anything.                       *)
LEMMA EmptyInOrder ==
    ASSUME NEW m, NEW s
    PROVE  /\ After(m, <<>>) /\ UpTo(<<>>, m) /\ Ascending(<<>>) /\ Descending(<<>>)
           /\ AllAfter(s, <<>>) /\ AllAfter(<<>>, s)
  BY DEF After, UpTo, Ascending, Descending, AllAfter

(* Steps that leave the lists and the server alone keep the order.         *)
LEMMA SerialKept ==
    ASSUME Serial, UNCHANGED <<next, dnext, req, sending, xsent, issued>>,
           cpc' = cpc \/ (cpc \notin {"swap", "clear"} /\ cpc' \notin {"swap", "clear"})
    PROVE  Serial'
  BY DEF Serial, SendingInOrder, WaitingInOrder, FilledInOrder, After, UpTo, AllAfter,
         Ascending, Descending

(* Every step of either thread keeps the drawings in order.                *)
LEMMA SerialStep == FInv /\ Serial /\ [Next]_vars => Serial'
<1> SUFFICES ASSUME FInv, Serial, [Next]_vars
             PROVE  Serial'
  OBVIOUS
<1> DEFINE D == req[dnext].drawings
           N == req[next].drawings
<1>0. /\ Locking /\ Exclusive
      /\ next \in Buffers /\ dnext \in Buffers /\ current \in Buffers
      /\ req \in [Buffers -> Requests] /\ issued \in Nat /\ xsent \in Nat
      /\ sending \in Seq(Drawing) /\ D \in Seq(Drawing) /\ N \in Seq(Drawing)
      /\ SendingInOrder /\ WaitingInOrder /\ (cpc # "clear" => FilledInOrder)
  BY DEF FInv, IInv, TypeOK, PointersOK, RequestsOK, ServerOK, Requests, Serial
<1>a. \A s \in Seq(Drawing) : \A i \in 1..Len(s) : s[i].id \in Nat
  <2>1. \A s \in Seq(Drawing) : \A i \in 1..Len(s) : s[i] \in Drawing
    BY ElementOfSeq
  <2>2. QED
    BY <2>1 DEF Drawing
<1>1. ASSUME NEW kind \in Kinds, Issue(kind)
      PROVE  Serial'
  <2> DEFINE d == [kind |-> kind, id |-> issued + 1]
  <2>1. /\ cpc = "idle" /\ issued' = issued + 1 /\ req'[dnext] = req[dnext]
        /\ req'[next].drawings = <<d>> \o N
        /\ UNCHANGED <<next, dnext, cpc, sending, xsent>>
    BY <1>0, <1>1 DEF Issue, Pushed, pointers, server, Exclusive
  <2>2. d \in Drawing /\ d.id = issued + 1
    BY <1>0 DEF Drawing
  <2>3. FilledInOrder /\ Descending(N) /\ UpTo(N, issued)
    BY <1>0, <2>1 DEF FilledInOrder
  <2>4. /\ Descending(<<d>> \o N) /\ UpTo(<<d>> \o N, issued + 1)
        /\ Len(<<d>> \o N) = Len(N) + 1
        /\ \A i \in 1..(Len(N) + 1) :
              (<<d>> \o N)[i] = IF i = 1 THEN d ELSE N[i - 1]
    BY <1>0, <2>2, <2>3, PushFrontOrder
  <2>5. PICK M : M = <<d>> \o N
    OBVIOUS
  <2>6. ASSUME NEW i \in 1..Len(M)
        PROVE  M[i] = d \/ \E k \in 1..Len(N) : M[i] = N[k]
    <3>1. CASE i = 1
      BY <2>4, <2>5, <3>1
    <3>2. CASE i # 1
      <4>1. PICK k \in 1..Len(N) : k = i - 1
        BY <1>0, <2>4, <2>5, <2>6, <3>2
      <4>2. QED
        BY <1>0, <2>4, <2>5, <2>6, <3>2, <4>1
    <3>3. QED
      BY <3>1, <3>2
  <2>7. After(xsent, M)
    BY <1>0, <2>2, <2>3, <2>6 DEF After, FilledInOrder, SendingInOrder
  <2>8. AllAfter(sending, M)
    <3>1. \A i \in 1..Len(sending) : sending[i].id \in Nat /\ sending[i].id <= issued
      BY <1>0, <1>a DEF SendingInOrder, UpTo
    <3>2. AllAfter(sending, N)
      BY <2>3 DEF FilledInOrder
    <3>3. ASSUME NEW i \in 1..Len(sending), NEW j \in 1..Len(M)
          PROVE  sending[i].id < M[j].id
      <4>1. CASE M[j] = d
        BY <1>0, <2>2, <3>1, <4>1
      <4>2. CASE \E k \in 1..Len(N) : M[j] = N[k]
        BY <3>2, <4>2 DEF AllAfter
      <4>3. QED
        BY <2>6, <4>1, <4>2
    <3>4. QED
      BY <3>3 DEF AllAfter
  <2>9. AllAfter(D, M)
    <3>1. \A i \in 1..Len(D) : D[i].id \in Nat /\ D[i].id <= issued
      BY <1>0, <1>a DEF WaitingInOrder, UpTo
    <3>2. AllAfter(D, N)
      BY <2>3 DEF FilledInOrder
    <3>3. ASSUME NEW i \in 1..Len(D), NEW j \in 1..Len(M)
          PROVE  D[i].id < M[j].id
      <4>1. CASE M[j] = d
        BY <1>0, <2>2, <3>1, <4>1
      <4>2. CASE \E k \in 1..Len(N) : M[j] = N[k]
        BY <3>2, <4>2 DEF AllAfter
      <4>3. QED
        BY <2>6, <4>1, <4>2
    <3>4. QED
      BY <3>3 DEF AllAfter
  <2>10. FilledInOrder'
    BY <2>1, <2>4, <2>5, <2>7, <2>8, <2>9 DEF FilledInOrder
  <2>11. SendingInOrder' /\ WaitingInOrder'
    BY <1>0, <1>a, <2>1 DEF SendingInOrder, WaitingInOrder, UpTo
  <2>12. QED
    BY <2>10, <2>11 DEF Serial
<1>2. CASE Draw \/ CopySubImage \/ SwapBuffers
  BY <1>1, <1>2 DEF Draw, CopySubImage, SwapBuffers, Kinds
<1>3. CASE FlushLock
  <2>1. /\ cpc = "idle" /\ cpc' = "swap" /\ req'[dnext] = req[dnext]
        /\ req'[next].drawings = Reverse(N)
        /\ UNCHANGED <<next, dnext, sending, xsent, issued>>
    BY <1>0, <1>3 DEF FlushLock, Published, IssueOrder, server, Exclusive
  <2>2. FilledInOrder /\ Descending(N)
    BY <1>0, <2>1 DEF FilledInOrder
  <2>3. /\ Ascending(Reverse(N)) /\ Len(Reverse(N)) = Len(N)
        /\ \A i \in 1..Len(N) : \E j \in 1..Len(N) : Reverse(N)[i] = N[j]
    BY <1>0, <2>2, ReverseOrder
  <2>4. PICK M : M = Reverse(N)
    OBVIOUS
  <2>5. After(xsent, M) /\ AllAfter(sending, M) /\ AllAfter(D, M) /\ UpTo(M, issued)
    BY <2>2, <2>3, <2>4 DEF After, AllAfter, UpTo, FilledInOrder
  <2>6. FilledInOrder'
    BY <2>1, <2>3, <2>4, <2>5 DEF FilledInOrder
  <2>7. QED
    BY <1>0, <2>1, <2>6 DEF Serial, SendingInOrder, WaitingInOrder
<1>4. CASE FlushSwap
  <2>1. /\ cpc = "swap" /\ cpc' = "clear" /\ dnext' = next
        /\ UNCHANGED <<req, sending, xsent, issued>>
    BY <1>4 DEF FlushSwap, counters, server
  <2>2. QED
    BY <1>0, <2>1 DEF Serial, SendingInOrder, WaitingInOrder, FilledInOrder
<1>5. CASE FlushClear
  <2>1. /\ cpc' = "signal" /\ UNCHANGED <<next, dnext, sending, xsent, issued>>
        /\ req'[next].drawings = <<>> /\ req'[dnext] = req[dnext]
    BY <1>0, <1>5 DEF FlushClear, Cleared, counters, pointers, server, Exclusive
  <2>2. FilledInOrder'
    BY <2>1, EmptyInOrder DEF FilledInOrder
  <2>3. QED
    BY <1>0, <2>1, <2>2 DEF Serial, SendingInOrder, WaitingInOrder
<1>6. CASE SupMove
  <2>1. /\ sending' = D /\ dnext' = current /\ req'[current].drawings = <<>>
        /\ req'[next] = req[next]
        /\ UNCHANGED <<next, cpc, xsent, issued>>
    BY <1>0, <1>6 DEF SupMove, NextCleared, Cleared, counters, server, Locking, Exclusive
  <2>2. WaitingInOrder'
    BY <2>1, EmptyInOrder DEF WaitingInOrder
  <2>3. SendingInOrder'
    BY <1>0, <2>1 DEF SendingInOrder, WaitingInOrder
  <2>4. cpc # "clear" => FilledInOrder'
    BY <1>0, <2>1, EmptyInOrder DEF FilledInOrder
  <2>5. QED
    BY <2>1, <2>2, <2>3, <2>4 DEF Serial
<1>7. CASE SupSend
  <2>1. /\ sending # <<>> /\ xsent' = Head(sending).id /\ sending' = Tail(sending)
        /\ UNCHANGED <<next, dnext, req, cpc, issued>>
    BY <1>7 DEF SupSend, pointers, counters
  <2>2. PICK T : T = Tail(sending)
    OBVIOUS
  <2>3. /\ T \in Seq(Drawing) /\ Len(T) = Len(sending) - 1
        /\ \A i \in 1..Len(T) : T[i] = sending[i + 1]
    BY <1>0, <2>1, <2>2, HeadTailProperties
  <2>4. 1 \in 1..Len(sending) /\ Len(sending) \in Nat /\ xsent' = sending[1].id
        /\ \A i \in 1..Len(T) : i + 1 \in 1..Len(sending)
    BY <1>0, <2>1, <2>3
  <2>5. \A i \in 1..Len(T) : \E j \in 1..Len(sending) : 1 < j /\ T[i] = sending[j]
    BY <2>3, <2>4
  <2>6. After(xsent', T) /\ UpTo(T, issued)
    BY <1>0, <2>4, <2>5 DEF SendingInOrder, After, UpTo, Ascending
  <2>7. Ascending(T)
    <3>1. SUFFICES ASSUME NEW i \in 1..Len(T), NEW j \in 1..Len(T), i < j
                   PROVE  T[i].id < T[j].id
      BY DEF Ascending
    <3>2. PICK k \in 1..Len(sending) : k = i + 1
      BY <2>4
    <3>3. PICK l \in 1..Len(sending) : l = j + 1
      BY <2>4
    <3>4. k < l /\ T[i] = sending[k] /\ T[j] = sending[l]
      BY <2>3, <3>1, <3>2, <3>3
    <3>5. QED
      BY <1>0, <3>4 DEF SendingInOrder, Ascending
  <2>8. SendingInOrder'
    BY <1>0, <2>1, <2>2, <2>4, <2>6, <2>7 DEF SendingInOrder, UpTo
  <2>9. WaitingInOrder'
    BY <1>0, <2>1, <2>2, <2>4, <2>5 DEF WaitingInOrder, After, AllAfter
  <2>10. cpc # "clear" => FilledInOrder'
    BY <1>0, <2>1, <2>2, <2>4, <2>5 DEF FilledInOrder, After, AllAfter
  <2>11. QED
    BY <2>1, <2>8, <2>9, <2>10 DEF Serial
<1>8. CASE FlushSignal \/ LockLast \/ GetImage \/ CheckEvents \/ DeleteDie \/ DeleteJoin
  <2>1. /\ UNCHANGED <<next, dnext, req, sending, xsent, issued>>
        /\ cpc \notin {"swap", "clear"} /\ cpc' \notin {"swap", "clear"}
    BY <1>8 DEF FlushSignal, LockLast, GetImage, CheckEvents, DeleteDie, DeleteJoin,
                pointers, counters, server
  <2>2. QED
    BY <2>1, SerialKept
<1>9. CASE SupLockNext \/ SupDie \/ SupFlush \/ SupLockLast \/ SupRotate \/ SupTest
           \/ SupSleep \/ SpuriousWakeup \/ XEvent \/ UNCHANGED vars
  <2>1. UNCHANGED <<next, dnext, req, sending, xsent, issued, cpc>>
    BY <1>9 DEF SupLockNext, SupDie, SupFlush, SupLockLast, SupRotate, SupTest, SupSleep,
                SpuriousWakeup, XEvent, vars, pointers, counters, server
  <2>2. QED
    BY <2>1, SerialKept
<1>10. QED
  BY <1>2, <1>3, <1>4, <1>5, <1>6, <1>7, <1>8, <1>9
     DEF Next, Begin, Finish, Supervisor

(* Whatever the supervisor skips, each drawing it sends was issued after   *)
(* the one it sent before: none is sent twice, not even back to back, or   *)
(* after one that was issued later.                                        *)
THEOREM SentInIssueOrder == Spec => SentInOrder
<1>1. Init => Serial
  <2>1. Init => /\ req[next].drawings = <<>> /\ req[dnext].drawings = <<>>
                /\ sending = <<>> /\ xsent = 0 /\ issued = 0
    BY DEF Init, EmptyRequests, Buffers
  <2>2. QED
    BY <2>1, EmptyInOrder DEF Serial, SendingInOrder, WaitingInOrder, FilledInOrder
<1>2. FInv /\ FInv' /\ Serial /\ [Next]_vars => Serial'
  BY SerialStep
<1>3. FInv /\ Serial => [SupSend => xsent' > xsent]_vars
  <2> SUFFICES ASSUME FInv, Serial, SupSend
               PROVE  xsent' > xsent
    OBVIOUS
  <2>1. sending \in Seq(Drawing) /\ sending # <<>> /\ xsent' = Head(sending).id
    BY DEF SupSend, FInv, IInv, TypeOK, RequestsOK
  <2>2. 1 \in 1..Len(sending) /\ xsent' = sending[1].id
    BY <2>1
  <2>3. xsent < sending[1].id
    BY <2>2 DEF Serial, SendingInOrder, After
  <2>4. QED
    BY <2>1, <2>2, <2>3, ElementOfSeq DEF Drawing, FInv, IInv, TypeOK, ServerOK
<1>4. QED
  BY FramesInvariant, <1>1, <1>2, <1>3, PTL DEF Spec, SentInOrder
=============================================================================
