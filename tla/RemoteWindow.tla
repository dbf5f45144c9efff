---------------------------- MODULE RemoteWindow ----------------------------
(***************************************************************************)
(* XVRemoteWindowX (src/Consoles/XVRemoteWindowX.{h,cc}): a window whose   *)
(* drawing requests are sent to the X server by a supervisor thread.  Five *)
(* Requests objects circulate between the two threads: the client fills    *)
(* the one `next' points to, flush() exchanges it with data->next under    *)
(* access_next, the supervisor exchanges data->next with data->current,    *)
(* sends it, and rotates current, last and pre_last under access_last.     *)
(*                                                                         *)
(* A drawing is its kind and the serial number of the call that issued it; *)
(* an image is the serial number of the CopySubImage that wrote it; a      *)
(* frame is the number of the flush() that published a Requests object.    *)
(***************************************************************************)
EXTENDS Naturals, Sequences, SequencesExt

CONSTANTS MaxFrames,    \* bound: flush() calls
          MaxDrawings,  \* bound: drawings in one Requests object
          MaxEvents     \* bound: X events that occur

ASSUME BoundsAssumption ==
    /\ MaxFrames \in Nat
    /\ MaxDrawings \in Nat
    /\ MaxEvents \in Nat

VARIABLES
    next,                          \* XVRemoteWindowX::next, the client's
    dnext, current, last, prelast, \* Data::next, current, last, pre_last
    carrier,                       \* local `carrier' of the two threads
    req,                           \* the Requests objects
    accessNext, accessLast,        \* who holds the two mutexes
    die,                           \* Data::die
    cpc, spc,                      \* control state of client and supervisor
    sending,                       \* drawings of current still to be sent
    events,                        \* Data::events
    issued, frames,                \* drawings issued, frames published
    xpending, xsent, xshown, nevents  \* the X server

pointers == <<next, dnext, current, last, prelast, carrier>>
locks    == <<accessNext, accessLast>>
server   == <<xpending, xsent, xshown, nevents>>
counters == <<issued, frames>>
vars == <<pointers, req, locks, die, cpc, spc, sending, events, counters, server>>

(* Drawing::Type, as far as the two threads treat the kinds differently *)
Kinds == {"DrawImage", "SwapBuffer", "Draw"}
Drawing == [kind : Kinds, id : Nat]

(* the five `new Requests()' of init() and Data::Data() *)
Buffers == 1..5
Threads == {"client", "supervisor"}

Requests == [flush : BOOLEAN, drawings : Seq(Drawing), image : Nat, frame : Nat]

(* mutation: the constructor leaves the image uninitialised *)
UnsetRequests == [flush |-> FALSE, drawings |-> <<>>, image |-> 0 - 1, frame |-> 0]
(* mutation: clear() forgets the drawings' list and the flush flag *)
Uncleared(r) == r

(* Requests::Requests(); Requests::clear() leaves the image in place *)
EmptyRequests == [flush |-> FALSE, drawings |-> <<>>, image |-> 0, frame |-> 0]
Cleared(r) == [flush |-> FALSE, drawings |-> <<>>, image |-> r.image, frame |-> 0]

(* mutation: a thread goes on without the mutex *)
AlwaysFree(mutex) == TRUE

Init ==
    /\ next = 1 /\ dnext = 2 /\ current = 3 /\ last = 4 /\ prelast = 5
    /\ carrier = [t \in Threads |-> 1]
    /\ req = [b \in Buffers |-> EmptyRequests]
    /\ accessNext = "free" /\ accessLast = "free"
    /\ die = FALSE
    /\ cpc = "idle" /\ spc = "none"
    /\ sending = <<>> /\ events = <<>>
    /\ issued = 0 /\ frames = 0
    /\ xpending = <<>> /\ xsent = 0 /\ xshown = 0 /\ nevents = 0

Free(mutex) == mutex = "free"

(* mutation: the signal is never sent *)
NotSignalled == spc

(* pthread_cond_signal: a supervisor that already sleeps is woken, a       *)
(* signal nobody waits for is lost                                         *)
Signalled == IF spc = "asleep" THEN "top" ELSE spc

-----------------------------------------------------------------------------
(* The client thread                                                       *)

(* next->drawings.push_front(d): the newest drawing comes first; only      *)
(* CopySubImage() also overwrites the image of the Requests object         *)
Pushed(r, kind) ==
    [flush    |-> r.flush,
     drawings |-> <<[kind |-> kind, id |-> issued + 1]>> \o r.drawings,
     image    |-> IF kind = "DrawImage" THEN issued + 1 ELSE r.image,
     frame    |-> r.frame]

Issue(kind) ==
    /\ cpc = "idle"
    /\ Len(req[next].drawings) < MaxDrawings
    /\ frames < MaxFrames
    /\ issued' = issued + 1
    /\ req' = [req EXCEPT ![next] = Pushed(@, kind)]
    /\ UNCHANGED <<pointers, locks, die, cpc, sending, events, frames, server>>

(* drawXxxx(), fillXxxx() and ClearWindow() *)
Draw == Issue("Draw") /\ spc' = Signalled

CopySubImage == Issue("DrawImage") /\ spc' = Signalled

(* swap_buffers() does not signal *)
SwapBuffers == Issue("SwapBuffer") /\ UNCHANGED spc

(* mutation: flush() does not reverse the list *)
PushOrder(drawings) == drawings

(* next->drawings.reverse() *)
IssueOrder(drawings) == Reverse(drawings)

(* next->flush = true and the reversal; the frame gets its number *)
Published(r) == [flush |-> TRUE, drawings |-> IssueOrder(r.drawings),
                 image |-> r.image, frame |-> frames + 1]

(* flush(), up to lock_next() and the read of data->next *)
FlushLock ==
    /\ cpc = "idle"
    /\ frames < MaxFrames
    /\ Free(accessNext)
    /\ accessNext' = "client"
    /\ frames' = frames + 1
    /\ req' = [req EXCEPT ![next] = Published(@)]
    /\ carrier' = [carrier EXCEPT !["client"] = dnext]
    /\ cpc' = "swap"
    /\ UNCHANGED <<next, dnext, current, last, prelast, accessLast, die, spc,
                   sending, events, issued, server>>

(* flush(): the exchange of next and data->next, and unlock_next() *)
FlushSwap ==
    /\ cpc = "swap"
    /\ dnext' = next
    /\ next' = carrier["client"]
    /\ accessNext' = "free"
    /\ cpc' = "clear"
    /\ UNCHANGED <<current, last, prelast, carrier, req, accessLast, die, spc,
                   sending, events, counters, server>>

(* flush(): next->clear(), and on the first call pthread_create() *)
FlushClear ==
    /\ cpc = "clear"
    /\ req' = [req EXCEPT ![next] = Cleared(@)]
    /\ spc' = IF spc = "none" THEN "top" ELSE spc
    /\ cpc' = "signal"
    /\ UNCHANGED <<pointers, locks, die, sending, events, counters, server>>

(* flush(): signal_worker() *)
FlushSignal ==
    /\ cpc = "signal"
    /\ spc' = Signalled
    /\ cpc' = "idle"
    /\ UNCHANGED <<pointers, req, locks, die, sending, events, counters, server>>

(* getLastImage(), getEventsImage() and check_events() take access_last *)
LockLast ==
    /\ cpc = "idle"
    /\ Free(accessLast)
    /\ accessLast' = "client"
    /\ cpc' = "lastlocked"
    /\ UNCHANGED <<pointers, req, accessNext, die, spc, sending, events,
                   counters, server>>

(* getLastImage() and getEventsImage(): copy an image, unlock_last() *)
GetImage ==
    /\ cpc = "lastlocked"
    /\ accessLast' = "free"
    /\ cpc' = "idle"
    /\ UNCHANGED <<pointers, req, accessNext, die, spc, sending, events,
                   counters, server>>

(* check_events(): pop the oldest event if there is one, unlock_last() *)
CheckEvents ==
    /\ cpc = "lastlocked"
    /\ events' = IF events = <<>> THEN events ELSE Tail(events)
    /\ accessLast' = "free"
    /\ cpc' = "idle"
    /\ UNCHANGED <<pointers, req, accessNext, die, spc, sending, counters, server>>

(* ~XVRemoteWindowX(): set die under access_next *)
DeleteDie ==
    /\ cpc = "idle"
    /\ Free(accessNext)
    /\ die' = TRUE
    /\ cpc' = "join"
    /\ UNCHANGED <<pointers, req, locks, spc, sending, events, counters, server>>


(* `if( supervised ) pthread_join' returns *)
Joinable == spc \in {"none", "ended"}

(* ~XVRemoteWindowX(): pthread_join if supervised, then delete data *)
DeleteJoin ==
    /\ cpc = "join"
    /\ Joinable
    /\ cpc' = "deleted"
    /\ UNCHANGED <<pointers, req, locks, die, spc, sending, events, counters, server>>

Begin   == Draw \/ CopySubImage \/ SwapBuffers \/ FlushLock \/ LockLast \/ DeleteDie
Finish  == FlushSwap \/ FlushClear \/ FlushSignal \/ GetImage \/ CheckEvents \/ DeleteJoin

-----------------------------------------------------------------------------
(* The supervisor thread, supervising()                                    *)

(* lock_next() at the top of the loop, and the read of data->current *)
SupLockNext ==
    /\ spc = "top"
    /\ Free(accessNext)
    /\ accessNext' = "supervisor"
    /\ carrier' = [carrier EXCEPT !["supervisor"] = current]
    /\ spc' = "move"
    /\ UNCHANGED <<next, dnext, current, last, prelast, req, accessLast, die,
                   cpc, sending, events, counters, server>>

(* die: leave the loop *)
SupDie ==
    /\ spc = "move"
    /\ die
    /\ accessNext' = "free"
    /\ spc' = "ended"
    /\ UNCHANGED <<pointers, req, accessLast, die, cpc, sending, events,
                   counters, server>>

(* mutation: data->next is not cleared after the exchange *)
NextKept == req
(* mutation: the object is cleared before it is exchanged *)
ClearedTooEarly == [req EXCEPT ![dnext] = Cleared(@)]

(* data->next->clear(), once the exchange has been made *)
NextCleared == [req EXCEPT ![carrier["supervisor"]] = Cleared(@)]

(* move next to current, clear the new next, unlock_next() *)
SupMove ==
    /\ spc = "move"
    /\ ~die
    /\ current' = dnext
    /\ dnext' = carrier["supervisor"]
    /\ req' = NextCleared
    /\ sending' = req[dnext].drawings
    /\ accessNext' = "free"
    /\ spc' = "send"
    /\ UNCHANGED <<next, last, prelast, carrier, accessLast, die, cpc, events,
                   counters, server>>

(* one round of the sending loop *)
SupSend ==
    /\ spc = "send"
    /\ sending # <<>>
    /\ xsent' = Head(sending).id
    /\ sending' = Tail(sending)
    /\ UNCHANGED <<pointers, req, locks, die, cpc, spc, events, counters,
                   xpending, xshown, nevents>>

(* after the last drawing: worker->flush() if the frame asks for it *)
SupFlush ==
    /\ spc = "send"
    /\ sending = <<>>
    /\ xshown' = IF req[current].flush THEN req[current].frame ELSE xshown
    /\ spc' = "locklast"
    /\ UNCHANGED <<pointers, req, locks, die, cpc, sending, events, counters,
                   xpending, xsent, nevents>>

SupLockLast ==
    /\ spc = "locklast"
    /\ Free(accessLast)
    /\ accessLast' = "supervisor"
    /\ spc' = "rotate"
    /\ UNCHANGED <<pointers, req, accessNext, die, cpc, sending, events,
                   counters, server>>

(* collect the events, rotate current to last to pre_last, unlock_last() *)
SupRotate ==
    /\ spc = "rotate"
    /\ events' = events \o xpending
    /\ xpending' = <<>>
    /\ IF req[current].flush
       THEN /\ prelast' = last
            /\ last' = current
            /\ current' = prelast
            /\ carrier' = [carrier EXCEPT !["supervisor"] = prelast]
       ELSE UNCHANGED <<prelast, last, current, carrier>>
    /\ accessLast' = "free"
    /\ spc' = "test"
    /\ UNCHANGED <<next, dnext, req, accessNext, die, cpc, sending, counters,
                   xsent, xshown, nevents>>

(* under access_next: is there anything in data->next? *)
SupTest ==
    /\ spc = "test"
    /\ Free(accessNext)
    /\ spc' = IF req[dnext].drawings = <<>> /\ ~req[dnext].flush
              THEN "gap" ELSE "top"
    /\ UNCHANGED <<pointers, req, locks, die, cpc, sending, events, counters, server>>

(* signal_mutex and pthread_cond_wait(), after unlock_next() *)
SupSleep ==
    /\ spc = "gap"
    /\ spc' = "asleep"
    /\ UNCHANGED <<pointers, req, locks, die, cpc, sending, events, counters, server>>

(* pthread_cond_wait() may return without a signal *)
SpuriousWakeup ==
    /\ spc = "asleep"
    /\ spc' = "top"
    /\ UNCHANGED <<pointers, req, locks, die, cpc, sending, events, counters, server>>

Supervisor == \/ SupLockNext \/ SupDie \/ SupMove \/ SupSend \/ SupFlush
              \/ SupLockLast \/ SupRotate \/ SupTest \/ SupSleep

(* An input event reaches the window while frame xshown is displayed *)
XEvent ==
    /\ nevents < MaxEvents
    /\ nevents' = nevents + 1
    /\ xpending' = Append(xpending, xshown)
    /\ UNCHANGED <<pointers, req, locks, die, cpc, spc, sending, events,
                   counters, xsent, xshown>>

Next == Begin \/ Finish \/ Supervisor \/ SpuriousWakeup \/ XEvent

Spec == Init /\ [][Next]_vars

(* Both threads run, and a mutex that is released again and again is       *)
(* granted to a thread that waits for it; the client is free to issue no   *)
(* further request, to make no X event happen is up to the user, and       *)
(* spurious wakeups cannot be relied upon.                                 *)
Fairness ==
    /\ WF_vars(Finish)
    /\ WF_vars(Supervisor)
    /\ SF_vars(SupLockNext) /\ SF_vars(SupLockLast) /\ SF_vars(SupTest)

FairSpec == Spec /\ Fairness
-----------------------------------------------------------------------------
PointersOK ==
    /\ next \in Buffers /\ dnext \in Buffers /\ current \in Buffers
    /\ last \in Buffers /\ prelast \in Buffers
    /\ carrier \in [Threads -> Buffers]
RequestsOK ==
    /\ req \in [Buffers -> Requests]
    /\ sending \in Seq(Drawing)
    /\ issued \in Nat /\ frames \in Nat
ControlOK ==
    /\ accessNext \in Threads \cup {"free"}
    /\ accessLast \in Threads \cup {"free"}
    /\ die \in BOOLEAN
    /\ cpc \in {"idle", "swap", "clear", "signal", "lastlocked", "join", "deleted"}
    /\ spc \in {"none", "top", "move", "send", "locklast", "rotate", "test",
                "gap", "asleep", "ended"}
ServerOK ==
    /\ events \in Seq(Nat) /\ xpending \in Seq(Nat)
    /\ xsent \in Nat /\ xshown \in Nat /\ nevents \in Nat

(* Each variable holds a value of its type. *)
TypeOK == PointersOK /\ RequestsOK /\ ControlOK /\ ServerOK

(* The five pointers always name five different Requests objects, so the   *)
(* client never fills an object the supervisor sends from or an image that *)
(* getLastImage copies: what the two exchanges and the rotation preserve   *)
(* although neither thread ever holds both mutexes.                        *)
Exclusive ==
    /\ next \notin {dnext, current, last, prelast}
    /\ dnext \notin {current, last, prelast}
    /\ current \notin {last, prelast}
    /\ last # prelast

(* What makes Exclusive inductive: a thread inside an exchange holds the   *)
(* mutex of the exchange, and its `carrier' is still the pointer it read.  *)
Locking ==
    /\ cpc = "swap" <=> accessNext = "client"
    /\ spc = "move" <=> accessNext = "supervisor"
    /\ spc = "rotate" <=> accessLast = "supervisor"
    /\ cpc = "lastlocked" <=> accessLast = "client"
    /\ cpc = "swap" => carrier["client"] = dnext
    /\ spc = "move" => carrier["supervisor"] = current

IInv == TypeOK /\ Locking /\ Exclusive

(* Frames travel in order: what is in pre_last is older than what is in    *)
(* last, which is older than what is being sent, which is older than what  *)
(* waits in data->next (0 is a cleared or never used object).              *)
Older(b, c) == req[b].frame # 0 /\ req[c].frame # 0 => req[b].frame < req[c].frame
PipelineOrder ==
    /\ Older(prelast, last)
    /\ Older(last, dnext)
    /\ spc \in {"send", "locklast", "rotate"} =>
          Older(last, current) /\ Older(current, dnext)

(* "drawing requests are discarded if new ones come before they are        *)
(* submitted" (XVRemoteWindowX.h:21-22), and only then: the newest         *)
(* published frame is in data->next, is being sent, or is data->last.      *)
NewestKept ==
    frames > 0 /\ cpc # "swap" =>
        \/ req[dnext].frame = frames
        \/ req[last].frame = frames
        \/ req[current].frame = frames
           /\ spc \in {"send", "locklast", "rotate"}

(* No drawing is sent a second time, not even at once after the first, or  *)
(* after one that was issued later, whatever the supervisor skips: each    *)
(* round of the sending loop sends a drawing issued after the last one.    *)
SentInOrder == [][SupSend => xsent' > xsent]_vars

Waiting(f) == req[dnext].frame = f

(* A published frame is sent or replaced by a newer one if it is there     *)
(* before the supervisor looks, or if its signal finds the supervisor      *)
(* asleep: the window between SupTest and SupSleep is the only place where *)
(* a wakeup is lost.                                                       *)
WokenForFrame ==
    \A f \in 1..MaxFrames :
        /\ (Waiting(f) /\ ~die /\ spc \in {"send", "locklast", "rotate", "test", "top"})
              ~> ~Waiting(f) \/ die
        /\ (Waiting(f) /\ cpc \in {"clear", "signal"} /\ spc = "asleep")
              ~> ~Waiting(f) \/ die

(* XVRemoteWindowX.h:21-22 again, as progress: a request is submitted      *)
(* unless a new one comes (or the window is deleted).                      *)
EverySubmitted ==
    \A f \in 1..MaxFrames : Waiting(f) ~> ~Waiting(f) \/ die
=============================================================================
