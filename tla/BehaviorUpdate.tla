--------------------------- MODULE BehaviorUpdate ---------------------------
(***************************************************************************)
(* How a network of behaviours is brought to the next sample: the virtual  *)
(* calls update() and compute() of frp/Behavior.h, frp/Event.h and         *)
(* frp/Task.h, on an explicit call stack, between one call of next() by    *)
(* the client on the root of the network and its return.                   *)
(*                                                                         *)
(* A network says, for every module, its kind and the behaviours its       *)
(* constructor was given.  Values are numbers: 0 is "false", and for an    *)
(* event that it does not occur.  The envelopes BehaviorRef and Behavior   *)
(* only forward calls and are left out.                                    *)
(***************************************************************************)
EXTENDS BehaviorNetwork

CONSTANTS
    MaxCalls    \* bound: calls of next()

ASSUME BoundAssumption == MaxCalls \in Nat

-----------------------------------------------------------------------------
VARIABLES
    net,        \* the network, chosen once
    node,       \* the members of every module
    stack,      \* the frames of the update() calls in progress
    ret,        \* what the update() that just returned gave back
    todo,       \* GenericBehavior::todo, and the place of the iterator in it
    at,
    todoNow,    \* GenericBehavior::todo_now
    phase,      \* where the client's next() is
    calls,      \* calls of next() made so far
    before      \* ghost: node when the client last had control

vars == <<net, node, stack, ret, todo, at, todoNow, phase, calls, before>>

New(n) ==
    LET kind == net.kind[n]  args == net.args[n] IN
    [last |-> 0, flipping |-> FALSE, updated |-> TRUE, value |-> 0,
     prefetch |-> 0, first |-> TRUE, minors |-> Attached(kind, args),
     p |-> Under(kind, args), e |-> Watched(kind, args), started |-> 0]

Init ==
    /\ net \in Networks
    /\ node = [n \in Nodes |-> New(n)]
    /\ stack = <<>> /\ ret = "none"
    /\ todo = <<>> /\ at = 1 /\ todoNow = 0
    /\ phase = "idle" /\ calls = 0
    /\ before = node

-----------------------------------------------------------------------------
(* The call stack.  A frame is one activation of update(n, now): pc is     *)
(* where it is, i its iterator over minors, m the behaviour it has called,  *)
(* flag a local: the `updated' a delay fetched before its call, or whether  *)
(* a TaskLoop has looked at its second event (~once).                       *)

Frame(n, now) == [n |-> n, now |-> now, pc |-> "entry", i |-> 1,
                  m |-> NoNode, flag |-> FALSE]
Top == stack[Len(stack)]
Me == Top.n
Self == node[Me]
Rest == SubSeq(stack, 1, Len(stack) - 1)
At(pc) == stack # <<>> /\ Top.pc = pc
Returned == ret # "none"

(* The running activation goes to pc and calls update(m, now). *)
CallFrom(frame, m) ==
    /\ stack' = Append(Append(Rest, [frame EXCEPT !.m = m]), Frame(m, frame.now))
    /\ ret' = "none"
Goto(frame) == stack' = Append(Rest, frame)
Return(answer) ==
    /\ stack' = Rest
    /\ ret' = answer

Still == UNCHANGED <<net, at, phase, calls, before>>
Val(n) == node[n].value
Fires(n) == Val(n) # 0

-----------------------------------------------------------------------------
(* The client: next() is update(last + 1) followed by clean_up(). *)

NextSample ==
    /\ phase = "idle" /\ calls < MaxCalls
    /\ stack' = <<Frame(net.root, node[net.root].last + 1)>>
    /\ phase' = "update" /\ calls' = calls + 1
    /\ before' = node
    /\ UNCHANGED <<net, node, ret, todo, at, todoNow>>

CleanUp ==
    /\ phase = "update" /\ stack = <<>>
    /\ phase' = "cleanUp" /\ at' = 1 /\ ret' = "none"
    /\ UNCHANGED <<net, node, stack, todo, todoNow, calls, before>>

(* mutation: the waiting delays are updated for the sample to come. *)
CleanUpAhead ==
    /\ phase = "cleanUp" /\ stack = <<>> /\ at <= Len(todo)
    /\ stack' = <<Frame(todo[at], todoNow + 1)>>
    /\ at' = at + 1 /\ ret' = "none"
    /\ UNCHANGED <<net, node, todo, todoNow, phase, calls, before>>

CleanUpOne ==
    /\ phase = "cleanUp" /\ stack = <<>> /\ at <= Len(todo)
    /\ stack' = <<Frame(todo[at], todoNow)>>
    /\ at' = at + 1 /\ ret' = "none"
    /\ UNCHANGED <<net, node, todo, todoNow, phase, calls, before>>

CleanUpDone ==
    /\ phase = "cleanUp" /\ stack = <<>> /\ at > Len(todo)
    /\ todo' = <<>> /\ phase' = "idle" /\ ret' = "none" /\ at' = 1
    /\ UNCHANGED <<net, node, stack, todoNow, calls, before>>

-----------------------------------------------------------------------------
(* BehaviorModule::update *)

IsModule == net.kind[Me] \notin Delays

Flipping ==
    /\ At("entry") /\ IsModule /\ Self.flipping
    /\ Return("no")
    /\ Still /\ UNCHANGED <<node, todo, todoNow>>

Current ==
    /\ At("entry") /\ IsModule /\ ~Self.flipping /\ Self.last = Top.now
    /\ Return("yes")
    /\ Still /\ UNCHANGED <<node, todo, todoNow>>

Start ==
    /\ At("entry") /\ IsModule /\ ~Self.flipping /\ Self.last # Top.now
    /\ node' = [node EXCEPT ![Me].flipping = TRUE, ![Me].updated = TRUE]
    /\ Goto([Top EXCEPT !.pc = "minors"])
    /\ ret' = "none"
    /\ Still /\ UNCHANGED <<todo, todoNow>>

UpdateMinor ==
    /\ At("minors") /\ ~Returned /\ Top.i <= Len(Self.minors)
    /\ CallFrom(Top, Self.minors[Top.i])
    /\ Still /\ UNCHANGED <<node, todo, todoNow>>

MinorUpdated ==
    /\ At("minors") /\ Returned
    /\ node' = [node EXCEPT ![Me].updated = @ /\ ret = "yes"]
    /\ Goto([Top EXCEPT !.i = @ + 1])
    /\ ret' = "none"
    /\ Still /\ UNCHANGED <<todo, todoNow>>

MinorsDone == At("minors") /\ ~Returned /\ Top.i > Len(Self.minors)

(* mutation: the flag is left set when a dependency was not updated. *)
NotUpdatedFlagged ==
    /\ MinorsDone /\ ~Self.updated
    /\ Return("no")
    /\ Still /\ UNCHANGED <<node, todo, todoNow>>

NotUpdated ==
    /\ MinorsDone /\ ~Self.updated
    /\ node' = [node EXCEPT ![Me].flipping = FALSE]
    /\ Return("no")
    /\ Still /\ UNCHANGED <<todo, todoNow>>

-----------------------------------------------------------------------------
(* compute(): the modules that only read the behaviours they depend on. *)

Args == net.args[Me]

(* What compute() leaves in value, prefetch, first and minors. *)
Lifted == {[Self EXCEPT !.value = Fn[[i \in 1..Len(Args) |-> Val(Args[i])]]]}
Stepped == {IF Fires(Args[1]) THEN [Self EXCEPT !.value = Val(Args[1])] ELSE Self}
Once ==
    {IF Self.value = 0
       THEN [Self EXCEPT !.value = Val(Args[1]),
                         !.minors = IF Fires(Args[1]) THEN <<>> ELSE @]
       ELSE Self}
Previous ==
    {IF Fires(Args[1])
       THEN [Self EXCEPT !.value = Self.prefetch, !.prefetch = Val(Args[1])]
       ELSE [Self EXCEPT !.value = 0]}
Snapshot ==
    {[Self EXCEPT !.value = IF Fires(Args[1]) THEN Val(Args[2]) ELSE 0]}
Now == {[Self EXCEPT !.value = IF Self.first THEN 1 ELSE 0, !.first = FALSE]}
Sensed == {[Self EXCEPT !.value = v] : v \in Inputs}

Computed ==
    CASE net.kind[Me] = "input" -> Sensed
      [] net.kind[Me] = "lift" -> Lifted
      [] net.kind[Me] = "step" -> Stepped
      [] net.kind[Me] = "once" -> Once
      [] net.kind[Me] = "prev" -> Previous
      [] net.kind[Me] = "snapshot" -> Snapshot
      [] net.kind[Me] = "now" -> Now
      [] OTHER -> {}

(* update() stamps the module, computes and clears its flag. *)
Compute ==
    /\ MinorsDone /\ Self.updated
    /\ \E new \in Computed :
         node' = [node EXCEPT ![Me] =
                    [new EXCEPT !.last = Top.now, !.flipping = FALSE]]
    /\ Return("yes")
    /\ Still /\ UNCHANGED <<todo, todoNow>>

-----------------------------------------------------------------------------
(* compute(): the modules that pass on another behaviour, which they       *)
(* update themselves; what its update() answers is not looked at.          *)

MyKind == net.kind[Me]

(* The behaviour (and event) that the event brought, the first time, the   *)
(* second time and so on: the function behind the event makes a new one.   *)
Turn == IF Self.started < Len(net.fresh[Me]) THEN Self.started + 1
                                             ELSE Self.started
Brought == net.fresh[Me][Turn]
Switched == [Self EXCEPT !.p = Brought.p, !.started = Turn]

Stamped(self) == [self EXCEPT !.last = Top.now]

(* mutation: compute() before last = now, which it passes to p->update(). *)
ComputeSwitchEarly ==
    /\ MinorsDone /\ Self.updated /\ MyKind \in Switches
    /\ LET new == IF Fires(Self.e) THEN Switched ELSE Self
       IN /\ node' = [node EXCEPT ![Me] = Stamped(new)]
          /\ stack' = Append(Append(Rest, [Top EXCEPT !.pc = "under", !.m = new.p]),
                              Frame(new.p, Self.last))
    /\ ret' = "none"
    /\ Still /\ UNCHANGED <<todo, todoNow>>

(* SwitchModule keeps the new behaviour, Switch2Module uses it once.       *)
ComputeSwitch ==
    /\ MinorsDone /\ Self.updated /\ MyKind \in Switches
    /\ LET new == IF Fires(Self.e) THEN Switched ELSE Self
           kept == IF MyKind = "switch2" THEN [new EXCEPT !.p = Self.p] ELSE new
       IN /\ node' = [node EXCEPT ![Me] = Stamped(kept)]
          /\ CallFrom([Top EXCEPT !.pc = "under"], new.p)
    /\ Still /\ UNCHANGED <<todo, todoNow>>

(* A task, or the event of one, that has been replaced already. *)
ComputeReplaced ==
    /\ MinorsDone /\ Self.updated
    /\ MyKind \in {"task", "taskEvent"} /\ ~Self.first
    /\ node' = [node EXCEPT ![Me] = Stamped(@)]
    /\ CallFrom([Top EXCEPT !.pc = "under"], Self.p)
    /\ Still /\ UNCHANGED <<todo, todoNow>>

ComputeTask ==
    /\ MinorsDone /\ Self.updated /\ MyKind \in Tasks
    /\ MyKind \in {"task", "taskEvent"} => Self.first
    /\ node' = [node EXCEPT ![Me] = Stamped(@)]
    /\ CallFrom([Top EXCEPT !.pc = "watch"], Self.e)
    /\ Still /\ UNCHANGED <<todo, todoNow>>

(* The event of the task is up to date. *)
EventUpdated ==
    /\ At("watch") /\ Returned /\ MyKind # "taskLoop"
    /\ LET new == IF ~Fires(Self.e) THEN Self
                  ELSE IF MyKind = "taskSwitch" THEN Switched
                  ELSE [Switched EXCEPT !.first = FALSE]
       IN /\ node' = [node EXCEPT ![Me] = new]
          /\ CallFrom([Top EXCEPT !.pc = "under"], new.p)
    /\ Still /\ UNCHANGED <<todo, todoNow>>

(* mutation: `once' is not cleared, the second event is looked at again. *)
LoopForever ==
    /\ At("watch") /\ Returned /\ MyKind = "taskLoop"
    /\ Fires(Self.e) \/ Fires(Args[1])
    /\ node' = [node EXCEPT ![Me] = [Switched EXCEPT !.e = Brought.e]]
    /\ CallFrom(Top, Brought.e)
    /\ Still /\ UNCHANGED <<todo, todoNow>>

(* TaskLoop starts a task each time the running one ends, and once more    *)
(* when the other event occurs, within the same sample.                    *)
LoopAgain ==
    /\ At("watch") /\ Returned /\ MyKind = "taskLoop"
    /\ Fires(Self.e) \/ (~Top.flag /\ Fires(Args[1]))
    /\ node' = [node EXCEPT ![Me] = [Switched EXCEPT !.e = Brought.e]]
    /\ CallFrom([Top EXCEPT !.flag = @ \/ ~Fires(Self.e)], Brought.e)
    /\ Still /\ UNCHANGED <<todo, todoNow>>

LoopDone ==
    /\ At("watch") /\ Returned /\ MyKind = "taskLoop"
    /\ ~Fires(Self.e) /\ (Top.flag \/ ~Fires(Args[1]))
    /\ CallFrom([Top EXCEPT !.pc = "under"], Self.p)
    /\ Still /\ UNCHANGED <<node, todo, todoNow>>

UnderUpdated ==
    /\ At("under") /\ Returned
    /\ node' = [node EXCEPT ![Me].value = Val(Top.m), ![Me].flipping = FALSE]
    /\ Return("yes")
    /\ Still /\ UNCHANGED <<todo, todoNow>>

-----------------------------------------------------------------------------
(* DelayModule::update, which is Delay1Module's after the first value. *)

EnterDelay ==
    /\ At("entry") /\ MyKind \in Delays
    /\ MyKind = "delay1" => ~Self.first
    /\ LET new == IF Self.last = Top.now THEN [Self EXCEPT !.updated = TRUE]
                  ELSE [Self EXCEPT !.value = Self.prefetch,
                                    !.last = Top.now, !.updated = FALSE]
       IN /\ node' = [node EXCEPT ![Me] = new]
          /\ CallFrom([Top EXCEPT !.pc = "delay", !.flag = new.updated], Self.p)
    /\ Still /\ UNCHANGED <<todo, todoNow>>

(* mutation: a delay whose input is in progress is not put on the list. *)
DelayForgotten ==
    /\ At("delay") /\ Returned
    /\ LET updated == ret = "yes" \/ (IF net.late THEN Self.updated ELSE Top.flag)
       IN node' = [node EXCEPT ![Me].updated = updated,
                               ![Me].prefetch = IF updated THEN Val(Self.p) ELSE @]
    /\ Return("yes")
    /\ Still /\ UNCHANGED <<todo, todoNow>>

(* `updated |= p->update(now)': the call may have re-entered this very     *)
(* module and set the member, which the build reads before or after it     *)
(* (net.late: the language leaves it to the compiler).                     *)
DelayUpdated ==
    /\ At("delay") /\ Returned
    /\ LET updated == ret = "yes" \/ (IF net.late THEN Self.updated ELSE Top.flag)
       IN /\ node' = [node EXCEPT ![Me].updated = updated,
                                  ![Me].prefetch = IF updated THEN Val(Self.p)
                                                              ELSE @]
          /\ IF updated THEN UNCHANGED <<todo, todoNow>>
                        ELSE todo' = Append(todo, Me) /\ todoNow' = Top.now
    /\ Return("yes")
    /\ Still

EnterDelay1 ==
    /\ At("entry") /\ MyKind = "delay1" /\ Self.first
    /\ CallFrom([Top EXCEPT !.pc = "first"], Self.p)
    /\ Still /\ UNCHANGED <<node, todo, todoNow>>

FirstUpdated ==
    /\ At("first") /\ Returned
    /\ node' = [node EXCEPT ![Me] =
                  IF ret = "yes"
                    THEN [Self EXCEPT !.updated = TRUE, !.value = Val(Self.p),
                                      !.prefetch = Val(Self.p), !.first = FALSE]
                    ELSE [Self EXCEPT !.updated = FALSE]]
    /\ Return(ret)
    /\ Still /\ UNCHANGED <<todo, todoNow>>

-----------------------------------------------------------------------------
Update ==
    \/ Flipping \/ Current \/ Start \/ UpdateMinor \/ MinorUpdated \/ NotUpdated
    \/ Compute \/ ComputeSwitch \/ ComputeReplaced \/ ComputeTask
    \/ EventUpdated \/ LoopAgain \/ LoopDone \/ UnderUpdated
    \/ EnterDelay \/ DelayUpdated \/ EnterDelay1 \/ FirstUpdated

Engine == Update \/ CleanUp \/ CleanUpOne \/ CleanUpDone

Next == NextSample \/ Engine

Spec == Init /\ [][Next]_vars

(* The library is sequential code: it goes on once it has been called.     *)
FairSpec == Spec /\ WF_vars(Engine)

-----------------------------------------------------------------------------
(* The state is well typed. *)
States ==
    [last : Nat, flipping : BOOLEAN, updated : BOOLEAN, value : Values,
     prefetch : Values, first : BOOLEAN, minors : Seq(Nodes),
     p : Nodes \cup {NoNode}, e : Nodes \cup {NoNode}, started : Nat]
Frames ==
    [n : Nodes, now : Nat,
     pc : {"entry", "minors", "watch", "under", "delay", "first"},
     i : Nat, m : Nodes \cup {NoNode}, flag : BOOLEAN]
TypeOK ==
    /\ WellFormed(net)
    /\ node \in [Nodes -> States] /\ before \in [Nodes -> States]
    /\ stack \in Seq(Frames)
    /\ ret \in {"none", "yes", "no"}
    /\ todo \in Seq(Nodes) /\ at \in Nat \ {0} /\ todoNow \in Nat
    /\ phase \in {"idle", "update", "cleanUp"} /\ calls \in 0..MaxCalls

(* What the client has seen: the state of the modules whenever it has      *)
(* control.  A call of next() is one sample of what the network denotes:   *)
(* whatever the order in which the modules are reached, through cycles and *)
(* switches, every value is the one of this sample, every delay gives the  *)
(* value of the sample before, and no event is lost or seen twice.         *)
Shown == IF phase = "idle" THEN node ELSE before
Denoted == INSTANCE SampledNetwork WITH
    mod <- [n \in Nodes |->
             [value |-> Shown[n].value, prefetch |-> Shown[n].prefetch,
              first |-> Shown[n].first, p |-> Shown[n].p, e |-> Shown[n].e,
              started |-> Shown[n].started]]
NextIsASample == Denoted!Spec

(* The behaviours a module updates now: its dependencies, and the          *)
(* behaviours it passes on or waits for.                                   *)
Dependencies(n) ==
    {node[n].minors[i] : i \in DOMAIN node[n].minors}
      \cup (IF net.kind[n] = "switch2" THEN {} ELSE {node[n].p})
      \cup (IF net.kind[n] \in {"taskSwitch", "taskLoop"} THEN {node[n].e} ELSE {})
Reached ==
    LET Grown[k \in 0..Cardinality(Nodes)] ==
          IF k = 0 THEN {net.root}
          ELSE LET known == Grown[k - 1]
               IN known \cup (Nodes \cap UNION {Dependencies(n) : n \in known})
    IN Grown[Cardinality(Nodes)]

(* next() updates the root "and all dependencies" (the comment on update() *)
(* in Behavior.h): none of them is left at an earlier sample.  (Delay1     *)
(* does not stamp its first sample, when it has none to give before.)      *)
AllUpdated ==
    phase = "idle" /\ calls > 0 =>
        \A n \in Reached :
            IF net.kind[n] = "delay1" THEN ~node[n].first
                                      ELSE node[n].last = node[net.root].last

(* clean_up() iterates over the vector todo while update() may append to   *)
(* it, which would invalidate the iterator: nothing is appended then, if   *)
(* no switch or task runs for the first time from there.                   *)
NoGrowth == [][phase = "cleanUp" /\ todo' # todo => todo' = <<>>]_vars

(* A module is flipping exactly while its update() is in progress, which   *)
(* happens at most once at a time: no flag is left behind when the client  *)
(* gets control, and none is cleared by an activation that did not set it. *)
Updating(k) == stack[k].pc # "entry" /\ net.kind[stack[k].n] \notin Delays
FlippingOnStack ==
    /\ \A n \in Nodes : node[n].flipping <=>
            \E k \in DOMAIN stack : Updating(k) /\ stack[k].n = n
    /\ \A j, k \in DOMAIN stack :
            Updating(j) /\ Updating(k) /\ stack[j].n = stack[k].n => j = k

(* While one sample is made, every activation is for that sample and no    *)
(* module is ahead of it: time does not run backwards.                     *)
OneSample ==
    phase # "idle" =>
        LET now == before[net.root].last + 1 IN
        /\ \A k \in DOMAIN stack : stack[k].now = now
        /\ \A n \in Nodes : node[n].last <= now

(* Every call of next() returns. *)
NextReturns == phase # "idle" ~> phase = "idle"
=============================================================================
