----------------------- MODULE BehaviorUpdate_proofs -----------------------
(***************************************************************************)
(* The call stack of update(), for every network of behaviours.            *)
(*                                                                         *)
(* Every action of the engine changes at most the members of the module    *)
(* whose update() is on top of the stack, and returns, goes on or calls    *)
(* (Step below).  One lemma per action shows that; the invariants follow   *)
(* from Step alone.                                                        *)
(***************************************************************************)
EXTENDS BehaviorUpdate, SequenceTheorems, TLAPS

(* What a module has to update exists. *)
PointersOf(n, self) ==
    /\ net.kind[n] \in Delays \cup Switches \cup Tasks => self.p \in Nodes
    /\ net.kind[n] \in Switches \cup Tasks => self.e \in Nodes
    /\ self.started <= Len(net.fresh[n])
Pointers == \A n \in Nodes : PointersOf(n, node[n])

(* Only the activation on top has not begun; the others are where their    *)
(* kind of module can be.                                                  *)
Placed(f) ==
    /\ f.pc \in {"delay", "first"} => net.kind[f.n] \in Delays
    /\ f.pc \in {"minors", "watch", "under"} => net.kind[f.n] \notin Delays
    /\ f.pc = "watch" => net.kind[f.n] \in Tasks
    /\ f.pc = "under" => f.m \in Nodes
    /\ f.i >= 1
Shape ==
    /\ \A k \in DOMAIN stack :
         /\ stack[k].pc = "entry" => k = Len(stack)
         /\ Placed(stack[k])
    /\ phase = "idle" => stack = <<>>

(* The sample that is being made, and the stamps around it. *)
Making == before[net.root].last + 1
Clock ==
    /\ OneSample
    /\ phase = "idle" =>
         /\ todo = <<>>
         /\ \A n \in Nodes : node[n].last <= node[net.root].last + 1
    /\ phase # "idle" =>
         /\ before[net.root].last <= node[net.root].last
         /\ todo # <<>> => todoNow = Making

IInv == TypeOK /\ Pointers /\ Shape /\ FlippingOnStack /\ Clock

(* How an activation leaves the top of the stack. *)
Returns(new) ==
    /\ \E answer \in {"yes", "no"} : Return(answer)
    /\ new.flipping <=> Self.flipping /\ ~Updating(Len(stack))
GoesOn(new) ==
    \E f \in Frames :
        /\ Goto(f) /\ ret' = "none"
        /\ f.n = Me /\ f.now = Top.now /\ f.pc # "entry" /\ Placed(f)
        /\ net.kind[Me] \notin Delays
        /\ IF Top.pc = "entry" THEN ~Self.flipping /\ new.flipping
                               ELSE new.flipping = Self.flipping
Calls(new) ==
    \E f \in Frames, m \in Nodes :
        /\ CallFrom(f, m)
        /\ f.n = Me /\ f.now = Top.now /\ f.pc # "entry"
        /\ Placed([f EXCEPT !.m = m])
        /\ Top.pc = "entry" => net.kind[Me] \in Delays
        /\ new.flipping = Self.flipping
Step ==
    /\ stack # <<>> /\ Still
    /\ \E new \in States :
         /\ node' = [node EXCEPT ![Me] = new]
         /\ new.last \in {Self.last, Top.now} /\ PointersOf(Me, new)
         /\ Returns(new) \/ GoesOn(new) \/ Calls(new)
    /\ \/ UNCHANGED <<todo, todoNow>>
       \/ todo' = Append(todo, Me) /\ todoNow' = Top.now

-----------------------------------------------------------------------------
(* A sequence without its last element. *)
LEMMA FrontOf ==
    ASSUME NEW S, NEW s \in Seq(S), s # <<>>, NEW n \in Int, n = Len(s) - 1
    PROVE  /\ SubSeq(s, 1, n) \in Seq(S) /\ Len(SubSeq(s, 1, n)) = n
           /\ \A k \in 1..n : SubSeq(s, 1, n)[k] = s[k]
  <1>1. /\ Len(s) \in Nat \ {0} /\ n \in Nat /\ 1 \in Int
        /\ \A k \in 1..n : s[k] \in S
    OBVIOUS
  <1>2. /\ SubSeq(s, 1, n) \in Seq(S)
        /\ Len(SubSeq(s, 1, n)) = IF 1 <= n THEN n - 1 + 1 ELSE 0
        /\ \A k \in 1..(n - 1 + 1) : SubSeq(s, 1, n)[k] = s[1 + k - 1]
    BY <1>1, SubSeqProperties
  <1>3. QED BY <1>1, <1>2

(* The stack without its top. *)
LEMMA Popped ==
    ASSUME stack \in Seq(Frames), stack # <<>>
    PROVE  /\ Rest \in Seq(Frames) /\ Len(Rest) = Len(stack) - 1
           /\ Len(stack) \in Nat \ {0} /\ Top \in Frames
           /\ \A k \in 1..(Len(stack) - 1) : Rest[k] = stack[k]
  <1>1. Len(stack) \in Nat \ {0} /\ \A k \in 1..Len(stack) : stack[k] \in Frames
    OBVIOUS
  <1> DEFINE n == Len(stack) - 1
  <1>2. n \in Int /\ n = Len(stack) - 1 /\ Rest = SubSeq(stack, 1, n)
    BY <1>1 DEF Rest
  <1> HIDE DEF n
  <1>3. /\ SubSeq(stack, 1, n) \in Seq(Frames) /\ Len(SubSeq(stack, 1, n)) = n
        /\ \A k \in 1..n : SubSeq(stack, 1, n)[k] = stack[k]
    BY <1>2, FrontOf
  <1>4. QED BY <1>1, <1>2, <1>3 DEF Top

(* The stack after an activation has gone on. *)
LEMMA Gone ==
    ASSUME stack \in Seq(Frames), stack # <<>>, NEW f \in Frames, Goto(f)
    PROVE  /\ stack' \in Seq(Frames) /\ Len(stack') = Len(stack)
           /\ stack'[Len(stack)] = f
           /\ \A k \in 1..(Len(stack) - 1) : stack'[k] = stack[k]
  <1>1. /\ Rest \in Seq(Frames) /\ Len(Rest) = Len(stack) - 1
        /\ Len(stack) \in Nat \ {0}
        /\ \A k \in 1..(Len(stack) - 1) : Rest[k] = stack[k]
    BY Popped
  <1> HIDE DEF Frames, Rest
  <1>2. QED BY <1>1 DEF Goto

(* The stack after an activation has called another one. *)
LEMMA Called ==
    ASSUME stack \in Seq(Frames), stack # <<>>, NEW f \in Frames,
           NEW m \in Nodes, CallFrom(f, m)
    PROVE  /\ stack' \in Seq(Frames) /\ Len(stack') = Len(stack) + 1
           /\ stack'[Len(stack)] = [f EXCEPT !.m = m]
           /\ stack'[Len(stack) + 1] = Frame(m, f.now)
           /\ \A k \in 1..(Len(stack) - 1) : stack'[k] = stack[k]
  <1>1. /\ Rest \in Seq(Frames) /\ Len(Rest) = Len(stack) - 1
        /\ Len(stack) \in Nat \ {0}
        /\ \A k \in 1..(Len(stack) - 1) : Rest[k] = stack[k]
    BY Popped
  <1>2. [f EXCEPT !.m = m] \in Frames /\ Frame(m, f.now) \in Frames
    BY DEF Frames, Frame
  <1> DEFINE g == [f EXCEPT !.m = m]
             h == Frame(m, f.now)
  <1>3. stack' = Append(Append(Rest, g), h) /\ g \in Frames /\ h \in Frames
    BY <1>2 DEF CallFrom
  <1> HIDE DEF Frames, Rest, g, h
  <1>4. /\ Append(Rest, g) \in Seq(Frames) /\ Len(Append(Rest, g)) = Len(stack)
        /\ Append(Rest, g)[Len(stack)] = g
        /\ \A k \in 1..(Len(stack) - 1) : Append(Rest, g)[k] = stack[k]
    BY <1>1, <1>3
  <1> DEFINE s == Append(Rest, g)
  <1> HIDE DEF s
  <1>5. s \in Seq(Frames) /\ Len(s) = Len(stack) /\ s[Len(stack)] = g
        /\ (\A k \in 1..(Len(stack) - 1) : s[k] = stack[k])
        /\ stack' = Append(s, h)
    BY <1>3, <1>4 DEF s
  <1>6. /\ stack' \in Seq(Frames) /\ Len(stack') = Len(stack) + 1
        /\ stack'[Len(stack)] = g /\ stack'[Len(stack) + 1] = h
        /\ \A k \in 1..(Len(stack) - 1) : stack'[k] = stack[k]
    BY <1>5, <1>3, <1>1
  <1>7. QED BY <1>6 DEF g, h

-----------------------------------------------------------------------------
(* A step keeps the types. *)
LEMMA StepTyped ==
    ASSUME TypeOK, Step
    PROVE  TypeOK'
  <1>1. PICK new \in States :
          /\ node' = [node EXCEPT ![Me] = new]
          /\ Returns(new) \/ GoesOn(new) \/ Calls(new)
    BY DEF Step
  <1>2. Me \in Nodes /\ Top.now \in Nat
    BY Popped DEF TypeOK, Step, Me, Frames
  <1>3. node' \in [Nodes -> States]
    BY <1>1, <1>2 DEF TypeOK
  <1>4. stack' \in Seq(Frames) /\ ret' \in {"none", "yes", "no"}
    <2>1. CASE Returns(new)
      BY <2>1, Popped DEF Returns, Return, TypeOK, Step
    <2>2. CASE GoesOn(new)
      BY <2>2, Gone DEF GoesOn, TypeOK, Step
    <2>3. CASE Calls(new)
      <3>1. PICK f \in Frames, m \in Nodes : CallFrom(f, m)
        BY <2>3 DEF Calls
      <3>2. stack' \in Seq(Frames)
        BY <3>1, Called DEF TypeOK, Step
      <3>3. QED BY <3>1, <3>2 DEF CallFrom
    <2>4. QED BY <1>1, <2>1, <2>2, <2>3
  <1>5. todo' \in Seq(Nodes) /\ todoNow' \in Nat
    <2>1. todo \in Seq(Nodes) /\ todoNow \in Nat
      BY DEF TypeOK
    <2>2. \/ todo' = todo /\ todoNow' = todoNow
          \/ todo' = Append(todo, Me) /\ todoNow' = Top.now
      BY DEF Step
    <2> HIDE DEF Me, Top
    <2>3. QED BY <2>1, <2>2, <1>2
  <1>6. QED BY <1>3, <1>4, <1>5 DEF TypeOK, Step, Still, WellFormed

(* A step leaves every pointer that will be followed valid. *)
LEMMA StepPointers ==
    ASSUME TypeOK, Pointers, Step
    PROVE  Pointers'
  <1>1. PICK new \in States :
          node' = [node EXCEPT ![Me] = new] /\ PointersOf(Me, new)
    BY DEF Step
  <1>2. net' = net
    BY DEF Step, Still
  <1>3. SUFFICES ASSUME NEW n \in Nodes PROVE PointersOf(n, node[n])'
    BY DEF Pointers
  <1>4. node'[n] = IF n = Me THEN new ELSE node[n]
    BY <1>1 DEF TypeOK
  <1>5. PointersOf(n, node'[n])
    BY <1>1, <1>4 DEF Pointers
  <1>6. QED BY <1>2, <1>5 DEF PointersOf

(* A step leaves the stack in shape. *)
LEMMA StepShape ==
    ASSUME TypeOK, Shape, Step
    PROVE  Shape'
  <1>1. PICK new \in States : Returns(new) \/ GoesOn(new) \/ Calls(new)
    BY DEF Step
  <1>2. net' = net /\ phase' = phase /\ stack # <<>> /\ stack \in Seq(Frames)
    BY DEF Step, Still, TypeOK
  <1>3. phase' # "idle"
    BY <1>2 DEF Shape
  <1>4. Len(stack) \in Nat \ {0} /\ Top \in Frames
    BY <1>2, Popped
  <1>5. \A k \in 1..(Len(stack) - 1) : stack[k].pc # "entry" /\ Placed(stack[k])
    BY <1>4, <1>2 DEF Shape
  <1>6. \A k \in DOMAIN stack' :
          (stack'[k].pc = "entry" => k = Len(stack')) /\ Placed(stack'[k])
    <2>1. CASE Returns(new)
      <3>1. stack' = Rest /\ Rest \in Seq(Frames) /\ Len(Rest) = Len(stack) - 1
            /\ \A k \in 1..(Len(stack) - 1) : Rest[k] = stack[k]
        BY <2>1, <1>2, Popped DEF Returns, Return
      <3> HIDE DEF Rest, Placed, Frames
      <3>2. QED BY <3>1, <1>5, <1>4
    <2>2. CASE GoesOn(new)
      <3>1. PICK f \in Frames : Goto(f) /\ f.pc # "entry" /\ Placed(f)
        BY <2>2 DEF GoesOn
      <3>2. /\ stack' \in Seq(Frames) /\ Len(stack') = Len(stack)
            /\ stack'[Len(stack)] = f
            /\ \A k \in 1..(Len(stack) - 1) : stack'[k] = stack[k]
        BY <1>2, <3>1, Gone
      <3> HIDE DEF Placed, Frames
      <3>3. \A k \in DOMAIN stack' : k = Len(stack) \/ k \in 1..(Len(stack) - 1)
        BY <3>2, <1>4
      <3>4. QED BY <3>1, <3>2, <3>3, <1>5
    <2>3. CASE Calls(new)
      <3>1. PICK f \in Frames, m \in Nodes :
              CallFrom(f, m) /\ f.pc # "entry" /\ Placed([f EXCEPT !.m = m])
        BY <2>3 DEF Calls
      <3> DEFINE g == [f EXCEPT !.m = m]
                 h == Frame(m, f.now)
      <3>2. /\ stack' \in Seq(Frames) /\ Len(stack') = Len(stack) + 1
            /\ stack'[Len(stack)] = g /\ stack'[Len(stack) + 1] = h
            /\ \A k \in 1..(Len(stack) - 1) : stack'[k] = stack[k]
        BY <1>2, <3>1, Called
      <3>3. g.pc # "entry" /\ Placed(g) /\ Placed(h)
        BY <3>1 DEF Frames, Placed, Frame
      <3> HIDE DEF Placed, Frames, g, h
      <3>4. \A k \in DOMAIN stack' : \/ k = Len(stack) + 1 \/ k = Len(stack)
                                     \/ k \in 1..(Len(stack) - 1)
        BY <3>2, <1>4
      <3>5. QED BY <3>2, <3>3, <3>4, <1>5
    <2>4. QED BY <1>1, <2>1, <2>2, <2>3
  <1>7. QED BY <1>2, <1>3, <1>6 DEF Shape, Placed

(* A step leaves the flags and the stack in agreement. *)
LEMMA StepFlipping ==
    ASSUME TypeOK, Shape, FlippingOnStack, Step
    PROVE  FlippingOnStack'
  <1> DEFINE L == Len(stack)
  <1>1. PICK new \in States :
          /\ node' = [node EXCEPT ![Me] = new]
          /\ Returns(new) \/ GoesOn(new) \/ Calls(new)
    BY DEF Step
  <1>2. net' = net /\ stack # <<>> /\ stack \in Seq(Frames)
    BY DEF Step, Still, TypeOK
  <1>3. L \in Nat \ {0} /\ Top \in Frames /\ Top = stack[L] /\ Me = Top.n
        /\ Me \in Nodes
    BY <1>2, Popped DEF Top, Me, Frames
  <1>4. \A n \in Nodes : node'[n].flipping =
                           IF n = Me THEN new.flipping ELSE node[n].flipping
    BY <1>1 DEF TypeOK
  <1>5. \A k \in 1..(L - 1) : stack[k].pc # "entry"
    BY <1>3, <1>2 DEF Shape
  <1>6. node[Me].flipping \in BOOLEAN /\ new.flipping \in BOOLEAN
    BY <1>3 DEF TypeOK, States
  <1> DEFINE U(f) == f.pc # "entry" /\ net.kind[f.n] \notin Delays
  <1>7. /\ \A n \in Nodes : node[n].flipping <=>
             \E k \in 1..L : U(stack[k]) /\ stack[k].n = n
        /\ \A j, k \in 1..L :
             U(stack[j]) /\ U(stack[k]) /\ stack[j].n = stack[k].n => j = k
    BY <1>2 DEF FlippingOnStack, Updating
  <1>8. SUFFICES /\ \A n \in Nodes : node'[n].flipping <=>
                      \E k \in 1..Len(stack') : U(stack'[k]) /\ stack'[k].n = n
                 /\ \A j, k \in 1..Len(stack') :
                      U(stack'[j]) /\ U(stack'[k]) /\ stack'[j].n = stack'[k].n
                        => j = k
                 /\ stack' \in Seq(Frames)
    BY <1>2 DEF FlippingOnStack, Updating
  <1>9. CASE Returns(new)
    <2>1. stack' = Rest /\ Rest \in Seq(Frames) /\ Len(Rest) = L - 1
          /\ \A k \in 1..(L - 1) : Rest[k] = stack[k]
      BY <1>9, <1>2, Popped DEF Returns, Return
    <2>2. new.flipping <=> (node[Me].flipping /\ ~U(stack[L]))
      BY <1>9 DEF Returns, Updating, Self
    <2> HIDE DEF U, L, Rest, Frames, Me, Top
    <2>3. \A k \in 1..L : k = L \/ k \in 1..(L - 1)
      BY <1>3
    <2>4. QED BY <2>1, <2>2, <2>3, <1>3, <1>4, <1>6, <1>7
  <1>10. CASE GoesOn(new)
    <2>1. PICK f \in Frames :
            /\ Goto(f) /\ f.n = Me /\ f.pc # "entry" /\ net.kind[Me] \notin Delays
            /\ IF Top.pc = "entry" THEN ~Self.flipping /\ new.flipping
                                   ELSE new.flipping = Self.flipping
      BY <1>10 DEF GoesOn
    <2>2. /\ stack' \in Seq(Frames) /\ Len(stack') = L
          /\ stack'[L] = f /\ \A k \in 1..(L - 1) : stack'[k] = stack[k]
      BY <1>2, <2>1, Gone
    <2>3. U(f) /\ f.n = Me
      BY <2>1
    <2>4. IF U(stack[L]) THEN new.flipping = node[Me].flipping
                         ELSE new.flipping /\ ~node[Me].flipping
      BY <2>1, <1>3 DEF Self
    <2> HIDE DEF U, L, Rest, Frames, Me, Top
    <2>5. \A k \in 1..L : k = L \/ k \in 1..(L - 1)
      BY <1>3
    <2>6. \A n \in Nodes : node'[n].flipping <=>
             \E k \in 1..L : U(stack'[k]) /\ stack'[k].n = n
      BY <2>2, <2>3, <2>4, <2>5, <1>3, <1>4, <1>6, <1>7
    <2>7. \A j, k \in 1..L :
             U(stack'[j]) /\ U(stack'[k]) /\ stack'[j].n = stack'[k].n => j = k
      BY <2>2, <2>3, <2>4, <2>5, <1>3, <1>4, <1>6, <1>7
    <2>8. QED BY <2>2, <2>6, <2>7
  <1>11. CASE Calls(new)
    <2>1. PICK f \in Frames, m \in Nodes :
            /\ CallFrom(f, m) /\ f.n = Me /\ f.pc # "entry"
            /\ Top.pc = "entry" => net.kind[Me] \in Delays
            /\ new.flipping = Self.flipping
      BY <1>11 DEF Calls
    <2> DEFINE g == [f EXCEPT !.m = m]
               h == Frame(m, f.now)
    <2>2. /\ stack' \in Seq(Frames) /\ Len(stack') = L + 1
          /\ stack'[L] = g /\ stack'[L + 1] = h
          /\ \A k \in 1..(L - 1) : stack'[k] = stack[k]
      BY <1>2, <2>1, Called
    <2>3. g.n = Me /\ (U(g) <=> U(stack[L])) /\ ~U(h)
      BY <2>1, <1>3 DEF Frames, Frame
    <2>4. new.flipping = node[Me].flipping
      BY <2>1 DEF Self
    <2> HIDE DEF U, L, Rest, Frames, Me, Top, g, h
    <2>5. \A k \in 1..(L + 1) : k = L + 1 \/ k = L \/ k \in 1..(L - 1)
      BY <1>3
    <2>6. \A n \in Nodes : node'[n].flipping <=>
             \E k \in 1..(L + 1) : U(stack'[k]) /\ stack'[k].n = n
      BY <2>2, <2>3, <2>4, <2>5, <1>3, <1>4, <1>6, <1>7
    <2>7. \A j, k \in 1..(L + 1) :
             U(stack'[j]) /\ U(stack'[k]) /\ stack'[j].n = stack'[k].n => j = k
      BY <2>2, <2>3, <2>4, <2>5, <1>3, <1>7
    <2>8. QED BY <2>2, <2>6, <2>7
  <1>12. QED BY <1>1, <1>9, <1>10, <1>11

(* A step makes the sample that is being made, and no later one. *)
LEMMA StepClock ==
    ASSUME TypeOK, Shape, Clock, Step
    PROVE  Clock'
  <1>1. PICK new \in States :
          /\ node' = [node EXCEPT ![Me] = new] /\ new.last \in {Self.last, Top.now}
          /\ Returns(new) \/ GoesOn(new) \/ Calls(new)
    BY DEF Step
  <1>2. /\ net' = net /\ before' = before /\ phase' = phase
        /\ stack # <<>> /\ stack \in Seq(Frames)
    BY DEF Step, Still, TypeOK
  <1>3. Len(stack) \in Nat \ {0} /\ Top \in Frames /\ Top = stack[Len(stack)]
        /\ Me = Top.n /\ Me \in Nodes
    BY <1>2, Popped DEF Top, Me, Frames
  <1>4. phase # "idle" /\ Making \in Nat /\ Making' = Making
        /\ before[net.root].last + 1 = Making /\ net.root \in Nodes
    BY <1>2 DEF Shape, Making, TypeOK, States, WellFormed
  <1>5. \A k \in 1..Len(stack) : stack[k].now = Making
    BY <1>2, <1>4 DEF Clock, OneSample, Making
  <1>6. Top.now = Making
    BY <1>3, <1>5
  <1>7. \A n \in Nodes : node[n].last \in Nat /\ node[n].last <= Making
    BY <1>4 DEF Clock, OneSample, Making, TypeOK, States
  <1>8. \A n \in Nodes : node'[n].last \in {node[n].last, Making}
    BY <1>1, <1>6 DEF Self, TypeOK
  <1>9. \A k \in DOMAIN stack' : stack'[k].now = Making
    <2>1. CASE Returns(new)
      <3>1. stack' = Rest /\ Rest \in Seq(Frames) /\ Len(Rest) = Len(stack) - 1
            /\ \A k \in 1..(Len(stack) - 1) : Rest[k] = stack[k]
        BY <2>1, <1>2, Popped DEF Returns, Return
      <3> HIDE DEF Rest, Making, Frames
      <3>2. QED BY <3>1, <1>3, <1>5
    <2>2. CASE GoesOn(new)
      <3>1. PICK f \in Frames : Goto(f) /\ f.now = Top.now
        BY <2>2 DEF GoesOn
      <3>2. /\ stack' \in Seq(Frames) /\ Len(stack') = Len(stack)
            /\ stack'[Len(stack)] = f
            /\ \A k \in 1..(Len(stack) - 1) : stack'[k] = stack[k]
        BY <1>2, <3>1, Gone
      <3> HIDE DEF Making, Frames, Top
      <3>3. \A k \in DOMAIN stack' : k = Len(stack) \/ k \in 1..(Len(stack) - 1)
        BY <3>2, <1>3
      <3>4. QED BY <3>1, <3>2, <3>3, <1>3, <1>5, <1>6
    <2>3. CASE Calls(new)
      <3>1. PICK f \in Frames, m \in Nodes : CallFrom(f, m) /\ f.now = Top.now
        BY <2>3 DEF Calls
      <3> DEFINE g == [f EXCEPT !.m = m]
                 h == Frame(m, f.now)
      <3>2. /\ stack' \in Seq(Frames) /\ Len(stack') = Len(stack) + 1
            /\ stack'[Len(stack)] = g /\ stack'[Len(stack) + 1] = h
            /\ \A k \in 1..(Len(stack) - 1) : stack'[k] = stack[k]
        BY <1>2, <3>1, Called
      <3>3. g.now = Top.now /\ h.now = Top.now
        BY <3>1 DEF Frames, Frame
      <3> HIDE DEF Frames, g, h, Making, Top
      <3>4. \A k \in DOMAIN stack' : \/ k = Len(stack) + 1 \/ k = Len(stack)
                                     \/ k \in 1..(Len(stack) - 1)
        BY <3>2, <1>3
      <3>5. QED BY <3>2, <3>3, <3>4, <1>3, <1>5, <1>6
    <2>4. QED BY <1>1, <2>1, <2>2, <2>3
  <1>10. todo' # <<>> => todoNow' = Making
    <2>1. \/ todo' = todo /\ todoNow' = todoNow
          \/ todoNow' = Top.now
      BY DEF Step
    <2>2. todo # <<>> => todoNow = Making
      BY <1>4 DEF Clock
    <2> HIDE DEF Making, Top
    <2>3. QED BY <2>1, <2>2, <1>6
  <1>11. before[net.root].last <= node'[net.root].last
    <2>1. before[net.root].last <= node[net.root].last
          /\ before[net.root].last \in Nat
      BY <1>4 DEF Clock, TypeOK, States
    <2>2. node'[net.root].last \in {node[net.root].last, before[net.root].last + 1}
      BY <1>4, <1>8
    <2>3. QED BY <2>1, <2>2
  <1>12. OneSample'
    BY <1>2, <1>4, <1>7, <1>8, <1>9 DEF OneSample
  <1>13. QED BY <1>2, <1>4, <1>10, <1>11, <1>12 DEF Clock

-----------------------------------------------------------------------------
(* Each action of update() is such a step.                                 *)

(* What is known of the activation on top. *)
Known ==
    /\ Me \in Nodes /\ Self \in States /\ Self = node[Me]
    /\ Top \in Frames /\ Placed(Top) /\ PointersOf(Me, Self)
    /\ WellFormed(net) /\ net.kind[Me] \in Kinds
    /\ Updating(Len(stack)) <=> Top.pc # "entry" /\ net.kind[Me] \notin Delays

(* It holds whenever the stack is not empty. *)
LEMMA TopKnown ==
    ASSUME TypeOK, Pointers, Shape, stack # <<>>
    PROVE  Known
  <1>1. stack \in Seq(Frames) /\ Top \in Frames /\ Top = stack[Len(stack)]
        /\ Len(stack) \in Nat \ {0}
    BY Popped DEF TypeOK, Top
  <1>2. Me \in Nodes
    BY <1>1 DEF Me, Frames
  <1>3. Self \in States /\ PointersOf(Me, Self) /\ net.kind[Me] \in Kinds
        /\ WellFormed(net)
    BY <1>2 DEF TypeOK, Pointers, Self, WellFormed
  <1>4. Placed(Top)
    BY <1>1 DEF Shape
  <1>5. QED BY <1>1, <1>2, <1>3, <1>4 DEF Known, Self, Updating, Me

(* The module is left alone. *)
LEMMA SelfUnchanged ==
    ASSUME TypeOK, Known, UNCHANGED node
    PROVE  /\ node' = [node EXCEPT ![Me] = Self] /\ Self \in States
           /\ Self.last \in {Self.last, Top.now} /\ PointersOf(Me, Self)
  BY DEF TypeOK, Known, Self

(* A module in a cycle answers no. *)
LEMMA FlippingStep ==
    ASSUME TypeOK, Known, Flipping
    PROVE  Step
  <1>1. Returns(Self)
    BY DEF Flipping, Returns, Known, At
  <1>2. QED BY <1>1, SelfUnchanged DEF Flipping, At, Step

(* A module that is up to date answers yes. *)
LEMMA CurrentStep ==
    ASSUME TypeOK, Known, Current
    PROVE  Step
  <1>1. Returns(Self)
    BY DEF Current, Returns, Known, At, States
  <1>2. QED BY <1>1, SelfUnchanged DEF Current, At, Step

(* The activation of a module begins. *)
LEMMA StartStep ==
    ASSUME TypeOK, Known, Start
    PROVE  Step
  <1> DEFINE new == [Self EXCEPT !.flipping = TRUE, !.updated = TRUE]
             f == [Top EXCEPT !.pc = "minors"]
  <1>1. new \in States /\ new.last = Self.last /\ PointersOf(Me, new)
        /\ new.flipping
    BY DEF Known, States, PointersOf
  <1>2. node' = [node EXCEPT ![Me] = new]
    BY DEF Start, Known, Self, TypeOK, States
  <1>3. f \in Frames /\ f.n = Me /\ f.now = Top.now /\ f.pc = "minors"
        /\ Placed(f)
    BY DEF Known, Frames, Me, Placed, Start, IsModule
  <1>4. GoesOn(new)
    BY <1>1, <1>3 DEF GoesOn, Start, IsModule, At
  <1>5. QED BY <1>1, <1>2, <1>4 DEF Start, At, Step

(* A dependency is updated. *)
LEMMA UpdateMinorStep ==
    ASSUME TypeOK, Known, UpdateMinor
    PROVE  Step
  <1> DEFINE m == Self.minors[Top.i]
  <1>1. m \in Nodes
    BY DEF Known, States, Frames, UpdateMinor, Placed
  <1>2. Placed([Top EXCEPT !.m = m])
    BY <1>1 DEF Known, Placed, Frames, UpdateMinor, At
  <1>3. Calls(Self)
    BY <1>1, <1>2 DEF Calls, UpdateMinor, At, Known, Me
  <1>4. QED BY <1>3, SelfUnchanged DEF UpdateMinor, At, Step

(* The answer of a dependency is taken. *)
LEMMA MinorUpdatedStep ==
    ASSUME TypeOK, Known, MinorUpdated
    PROVE  Step
  <1> DEFINE new == [Self EXCEPT !.updated = @ /\ ret = "yes"]
             f == [Top EXCEPT !.i = @ + 1]
  <1>1. new \in States /\ new.last = Self.last /\ PointersOf(Me, new)
        /\ new.flipping = Self.flipping
    BY DEF Known, States, PointersOf
  <1>2. node' = [node EXCEPT ![Me] = new]
    BY DEF MinorUpdated, Known, Self, TypeOK, States
  <1>3. f \in Frames /\ f.n = Me /\ f.now = Top.now /\ f.pc = "minors"
        /\ Placed(f) /\ net.kind[Me] \notin Delays
    BY DEF Known, Frames, Me, Placed, MinorUpdated, At
  <1>4. GoesOn(new)
    BY <1>1, <1>3 DEF GoesOn, MinorUpdated, At
  <1>5. QED BY <1>1, <1>2, <1>4 DEF MinorUpdated, At, Step

(* A module one of whose dependencies was not updated answers no. *)
LEMMA NotUpdatedStep ==
    ASSUME TypeOK, Known, NotUpdated
    PROVE  Step
  <1> DEFINE new == [Self EXCEPT !.flipping = FALSE]
  <1>1. new \in States /\ new.last = Self.last /\ PointersOf(Me, new)
        /\ ~new.flipping
    BY DEF Known, States, PointersOf
  <1>2. node' = [node EXCEPT ![Me] = new]
    BY DEF NotUpdated, Known, Self, TypeOK, States
  <1>3. Updating(Len(stack))
    <2>1. Top.pc = "minors" /\ net.kind[Me] \notin Delays
      BY DEF Known, NotUpdated, MinorsDone, At, Placed, Me
    <2>2. QED BY <2>1 DEF Known
  <1>4. Returns(new)
    BY <1>1, <1>3 DEF Returns, NotUpdated
  <1>5. QED BY <1>1, <1>2, <1>4 DEF NotUpdated, MinorsDone, At, Step

(* The length of a short sequence. *)
LEMMA AtMostFour ==
    ASSUME NEW S, NEW s \in Seq(S), Len(s) <= 4
    PROVE  Len(s) \in 0..4
  <1> DEFINE n == Len(s)
  <1>1. n \in Nat /\ n <= 4
    BY LenProperties
  <1> HIDE DEF n
  <1>2. n \in 0..4
    BY <1>1
  <1>3. QED BY <1>2 DEF n

(* compute() leaves a value and pointers behind, whatever it reads. *)
LEMMA ComputedTyped ==
    ASSUME TypeOK, Known, NEW new \in Computed
    PROVE  /\ new \in States /\ new.last = Self.last
           /\ new.flipping = Self.flipping /\ PointersOf(Me, new)
  <1>1. /\ net.args[Me] \in Seq(Nodes) /\ Len(net.args[Me]) <= 4
        /\ net.kind[Me] # "lift" => Len(net.args[Me]) = Arity(net.kind[Me])
    BY DEF Known, WellFormed
  <1>2. \A n \in Nodes : Val(n) \in Values
    BY DEF TypeOK, States, Val
  <1>3. Self \in States /\ PointersOf(Me, Self) /\ 0 \in Values /\ 1 \in Values
    BY DataAssumption DEF Known
  <1>4. \A i \in 1..Len(Args) : Args[i] \in Nodes
    BY <1>1 DEF Args
  <1>5. Len(Args) \in 0..4
    BY <1>1, AtMostFour DEF Args
  <1>6. CASE net.kind[Me] = "input" /\ new \in Sensed
    BY <1>6, <1>3, DataAssumption DEF Sensed, States, PointersOf
  <1>7. CASE net.kind[Me] = "lift" /\ new \in Lifted
    <2> DEFINE s == [i \in 1..Len(Args) |-> Val(Args[i])]
    <2>1. Len(Args) \in 0..4 /\ s \in [1..Len(Args) -> Values]
      BY <1>5, <1>2, <1>4
    <2>2. Fn[s] \in Values
      BY <2>1, DataAssumption DEF Tuples
    <2>3. new = [Self EXCEPT !.value = Fn[s]]
      BY <1>7 DEF Lifted
    <2> HIDE DEF s
    <2>4. QED BY <2>2, <2>3, <1>3 DEF States, PointersOf
  <1>8. CASE net.kind[Me] \in {"step", "once", "prev"} /\ Len(Args) = 1
             /\ new \in Stepped \cup Once \cup Previous
    <2>1. Val(Args[1]) \in Values
      BY <1>8, <1>4, <1>2
    <2>2. CASE new \in Stepped
      BY <2>1, <2>2, <1>3 DEF Stepped, States, PointersOf
    <2>3. CASE new \in Once
      <3>1. <<>> \in Seq(Nodes)
        OBVIOUS
      <3>2. QED BY <3>1, <2>1, <2>3, <1>3 DEF Once, States, PointersOf
    <2>4. CASE new \in Previous
      BY <2>1, <2>4, <1>3 DEF Previous, States, PointersOf
    <2>5. QED BY <1>8, <2>2, <2>3, <2>4
  <1>9. CASE net.kind[Me] = "snapshot" /\ Len(Args) = 2 /\ new \in Snapshot
    <2>1. Val(Args[2]) \in Values
      BY <1>9, <1>4, <1>2
    <2>2. QED BY <2>1, <1>9, <1>3 DEF Snapshot, States, PointersOf
  <1>10. CASE net.kind[Me] = "now" /\ new \in Now
    BY <1>10, <1>3 DEF Now, States, PointersOf
  <1>11. QED
    <2>1. net.kind[Me] \in Readers
      BY DEF Computed, Known, Kinds, Readers
    <2>2. net.kind[Me] \in {"step", "once", "prev"} => Len(Args) = 1
      BY <1>1 DEF Args, Arity, Switches
    <2>3. net.kind[Me] = "snapshot" => Len(Args) = 2
      BY <1>1 DEF Args, Arity, Switches
    <2>4. QED BY <1>6, <1>7, <1>8, <1>9, <1>10, <2>1, <2>2, <2>3
             DEF Computed, Readers

(* A module that only reads computes and answers yes. *)
LEMMA ComputeStep ==
    ASSUME TypeOK, Known, Compute
    PROVE  Step
  <1>1. PICK old \in Computed :
          node' = [node EXCEPT ![Me] =
                     [old EXCEPT !.last = Top.now, !.flipping = FALSE]]
    BY DEF Compute
  <1> DEFINE new == [old EXCEPT !.last = Top.now, !.flipping = FALSE]
  <1>2. old \in States /\ PointersOf(Me, old)
    BY ComputedTyped
  <1>3. new \in States /\ new.last = Top.now /\ PointersOf(Me, new)
        /\ ~new.flipping
    BY <1>2 DEF Known, States, Frames, PointersOf
  <1>4. Updating(Len(stack))
    <2>1. Top.pc = "minors" /\ net.kind[Me] \notin Delays
      BY DEF Known, Compute, MinorsDone, At, Placed, Me
    <2>2. QED BY <2>1 DEF Known
  <1>5. Returns(new)
    BY <1>3, <1>4 DEF Returns, Compute
  <1>6. QED BY <1>1, <1>3, <1>5 DEF Compute, MinorsDone, At, Step

(* The behaviour that an event brings exists. *)
LEMMA SwitchedTyped ==
    ASSUME TypeOK, Known, net.kind[Me] \in Switches \cup Tasks
    PROVE  /\ Switched \in States /\ PointersOf(Me, Switched)
           /\ Switched.last = Self.last /\ Switched.flipping = Self.flipping
           /\ Switched.p \in Nodes /\ Brought.e \in Nodes
           /\ Turn <= Len(net.fresh[Me])
  <1>1. /\ net.fresh[Me] \in Seq([p : Nodes, e : Nodes])
        /\ net.fresh[Me] # <<>>
    BY DEF Known, WellFormed
  <1>2. Self \in States /\ Self.started \in Nat
        /\ Self.started <= Len(net.fresh[Me]) /\ PointersOf(Me, Self)
    BY DEF Known, States, PointersOf
  <1>3. Len(net.fresh[Me]) \in Nat \ {0}
    BY <1>1
  <1>4. Turn \in 1..Len(net.fresh[Me]) /\ Turn \in Nat
    BY <1>2, <1>3 DEF Turn
  <1>5. Brought \in [p : Nodes, e : Nodes]
    <2> DEFINE fresh == net.fresh[Me]
    <2>1. fresh \in Seq([p : Nodes, e : Nodes]) /\ Turn \in 1..Len(fresh)
          /\ Brought = fresh[Turn]
      BY <1>1, <1>4 DEF Brought
    <2> DEFINE Pairs == [p : Nodes, e : Nodes]
    <2>2. fresh \in Seq(Pairs)
      BY <2>1
    <2> HIDE DEF fresh, Pairs
    <2>3. fresh[Turn] \in Pairs
      BY <2>1, <2>2
    <2>4. QED BY <2>1, <2>3 DEF Pairs
  <1>6. Brought.p \in Nodes /\ Brought.e \in Nodes
    BY <1>5
  <1>7. Switched = [Self EXCEPT !.p = Brought.p, !.started = Turn]
    BY DEF Switched
  <1> HIDE DEF Turn, Brought, Switched
  <1>8. Switched \in States /\ Switched.p = Brought.p /\ Switched.e = Self.e
        /\ Switched.started = Turn /\ Switched.last = Self.last
        /\ Switched.flipping = Self.flipping
    BY <1>2, <1>4, <1>6, <1>7 DEF States
  <1>9. QED BY <1>2, <1>4, <1>6, <1>8 DEF PointersOf

(* A module stamped with the sample it is updated for. *)
LEMMA StampedTyped ==
    ASSUME Known, NEW self \in States, PointersOf(Me, self)
    PROVE  /\ Stamped(self) \in States /\ PointersOf(Me, Stamped(self))
           /\ Stamped(self).last = Top.now
           /\ Stamped(self).flipping = self.flipping
  BY DEF Known, Stamped, States, Frames, PointersOf

(* A module calls the behaviour that it passes on. *)
LEMMA CallsUnder ==
    ASSUME Known, NEW m \in Nodes, NEW new \in States,
           CallFrom([Top EXCEPT !.pc = "under"], m),
           Top.pc \in {"minors", "watch"}, new.flipping = Self.flipping
    PROVE  Calls(new)
  <1> DEFINE f == [Top EXCEPT !.pc = "under"]
  <1>1. f \in Frames /\ f.n = Me /\ f.now = Top.now /\ f.pc # "entry"
    BY DEF Known, Frames, Me
  <1>2. Placed([f EXCEPT !.m = m])
    BY DEF Known, Placed, Frames
  <1>3. QED BY <1>1, <1>2 DEF Calls

(* A switch calls its new behaviour or the one it had. *)
LEMMA ComputeSwitchStep ==
    ASSUME TypeOK, Known, ComputeSwitch
    PROVE  Step
  <1> DEFINE new == IF Fires(Self.e) THEN Switched ELSE Self
             kept == IF MyKind = "switch2" THEN [new EXCEPT !.p = Self.p]
                                           ELSE new
  <1>1. net.kind[Me] \in Switches /\ Top.pc = "minors" /\ stack # <<>>
    BY DEF ComputeSwitch, MyKind, MinorsDone, At
  <1>2. Self \in States /\ PointersOf(Me, Self) /\ Self.p \in Nodes
    BY <1>1 DEF Known, PointersOf
  <1>3. new \in States /\ PointersOf(Me, new) /\ new.p \in Nodes
        /\ new.flipping = Self.flipping
    BY <1>1, <1>2, SwitchedTyped
  <1>4. /\ node' = [node EXCEPT ![Me] = Stamped(kept)]
        /\ CallFrom([Top EXCEPT !.pc = "under"], new.p)
    BY DEF ComputeSwitch
  <1> HIDE DEF new
  <1>5. kept \in States /\ PointersOf(Me, kept)
        /\ kept.flipping = Self.flipping
    BY <1>2, <1>3 DEF States, PointersOf
  <1> HIDE DEF kept
  <1>6. /\ Stamped(kept) \in States /\ PointersOf(Me, Stamped(kept))
        /\ Stamped(kept).last = Top.now
        /\ Stamped(kept).flipping = Self.flipping
    BY <1>5, StampedTyped
  <1>7. Calls(Stamped(kept))
    BY <1>1, <1>3, <1>4, <1>6, CallsUnder
  <1>8. QED BY <1>1, <1>4, <1>6, <1>7 DEF ComputeSwitch, Step

(* A task that has been replaced calls the behaviour in its place. *)
LEMMA ComputeReplacedStep ==
    ASSUME TypeOK, Known, ComputeReplaced
    PROVE  Step
  <1>1. net.kind[Me] \in Tasks /\ Top.pc = "minors" /\ stack # <<>>
    BY DEF ComputeReplaced, MyKind, MinorsDone, At, Tasks
  <1>2. Self \in States /\ PointersOf(Me, Self) /\ Self.p \in Nodes
    BY <1>1 DEF Known, PointersOf
  <1>3. /\ Stamped(Self) \in States /\ PointersOf(Me, Stamped(Self))
        /\ Stamped(Self).last = Top.now
        /\ Stamped(Self).flipping = Self.flipping
    BY <1>2, StampedTyped
  <1>4. /\ node' = [node EXCEPT ![Me] = Stamped(Self)]
        /\ CallFrom([Top EXCEPT !.pc = "under"], Self.p)
    BY DEF ComputeReplaced, Self
  <1>5. Calls(Stamped(Self))
    BY <1>1, <1>2, <1>3, <1>4, CallsUnder
  <1>6. QED BY <1>1, <1>3, <1>4, <1>5 DEF ComputeReplaced, Step

(* A task calls its event. *)
LEMMA ComputeTaskStep ==
    ASSUME TypeOK, Known, ComputeTask
    PROVE  Step
  <1> DEFINE f == [Top EXCEPT !.pc = "watch"]
  <1>1. net.kind[Me] \in Tasks /\ Top.pc = "minors" /\ stack # <<>>
    BY DEF ComputeTask, MyKind, MinorsDone, At
  <1>2. Self \in States /\ PointersOf(Me, Self) /\ Self.e \in Nodes
    BY <1>1 DEF Known, PointersOf
  <1>3. /\ Stamped(Self) \in States /\ PointersOf(Me, Stamped(Self))
        /\ Stamped(Self).last = Top.now
        /\ Stamped(Self).flipping = Self.flipping
    BY <1>2, StampedTyped
  <1>4. /\ node' = [node EXCEPT ![Me] = Stamped(Self)]
        /\ CallFrom(f, Self.e)
    BY DEF ComputeTask, Self
  <1>5. f \in Frames /\ f.n = Me /\ f.now = Top.now /\ f.pc # "entry"
    BY DEF Known, Frames, Me
  <1>6. Placed([f EXCEPT !.m = Self.e])
    BY <1>1, <1>2 DEF Known, Placed, Frames, Me
  <1>7. Calls(Stamped(Self))
    BY <1>1, <1>2, <1>3, <1>4, <1>5, <1>6 DEF Calls
  <1>8. QED BY <1>1, <1>3, <1>4, <1>7 DEF ComputeTask, Step

(* A task whose event occurs calls the behaviour the event brings. *)
LEMMA EventUpdatedStep ==
    ASSUME TypeOK, Known, EventUpdated
    PROVE  Step
  <1> DEFINE new == IF ~Fires(Self.e) THEN Self
                    ELSE IF MyKind = "taskSwitch" THEN Switched
                    ELSE [Switched EXCEPT !.first = FALSE]
  <1>1. Top.pc = "watch" /\ stack # <<>>
    BY DEF EventUpdated, At
  <1>2. net.kind[Me] \in Tasks
    BY <1>1 DEF Known, Placed, Me
  <1>3. Self \in States /\ PointersOf(Me, Self) /\ Self.p \in Nodes
    BY <1>2 DEF Known, PointersOf
  <1>4. /\ Switched \in States /\ PointersOf(Me, Switched)
        /\ Switched.last = Self.last /\ Switched.flipping = Self.flipping
        /\ Switched.p \in Nodes
    BY <1>2, SwitchedTyped
  <1>5. new \in States /\ PointersOf(Me, new) /\ new.last = Self.last
        /\ new.flipping = Self.flipping /\ new.p \in Nodes
    <2> HIDE DEF Switched, Self
    <2>1. QED BY <1>3, <1>4 DEF States, PointersOf
  <1>6. /\ node' = [node EXCEPT ![Me] = new]
        /\ CallFrom([Top EXCEPT !.pc = "under"], new.p)
    BY DEF EventUpdated
  <1> HIDE DEF new
  <1>7. Calls(new)
    BY <1>1, <1>5, <1>6, CallsUnder
  <1>8. QED BY <1>1, <1>5, <1>6, <1>7 DEF EventUpdated, Step

(* A loop calls the event of the task it has started. *)
LEMMA LoopAgainStep ==
    ASSUME TypeOK, Known, LoopAgain
    PROVE  Step
  <1> DEFINE new == [Switched EXCEPT !.e = Brought.e]
             f == [Top EXCEPT !.flag = @ \/ ~Fires(Self.e)]
  <1>1. Top.pc = "watch" /\ stack # <<>>
    BY DEF LoopAgain, At
  <1>2. net.kind[Me] \in Tasks
    BY <1>1 DEF Known, Placed, Me
  <1>3. /\ Switched \in States /\ PointersOf(Me, Switched)
        /\ Switched.last = Self.last /\ Switched.flipping = Self.flipping
        /\ Switched.p \in Nodes /\ Brought.e \in Nodes
    BY <1>2, SwitchedTyped
  <1>4. new \in States /\ PointersOf(Me, new) /\ new.last = Self.last
        /\ new.flipping = Self.flipping
    <2> HIDE DEF Switched, Self, Brought
    <2>1. QED BY <1>3 DEF States, PointersOf
  <1>5. /\ node' = [node EXCEPT ![Me] = new] /\ CallFrom(f, Brought.e)
    BY DEF LoopAgain
  <1>6. f \in Frames /\ f.n = Me /\ f.now = Top.now /\ f.pc = "watch"
    BY <1>1 DEF Known, Frames, Me, Fires
  <1>7. Placed([f EXCEPT !.m = Brought.e])
    BY <1>1, <1>2, <1>3 DEF Known, Placed, Frames, Me
  <1> HIDE DEF new, f
  <1>8. Calls(new)
    BY <1>1, <1>3, <1>4, <1>5, <1>6, <1>7 DEF Calls
  <1>9. QED BY <1>1, <1>4, <1>5, <1>8 DEF LoopAgain, Step

(* A loop whose task goes on calls it. *)
LEMMA LoopDoneStep ==
    ASSUME TypeOK, Known, LoopDone
    PROVE  Step
  <1>1. Top.pc = "watch" /\ stack # <<>>
    BY DEF LoopDone, At
  <1>2. Self \in States /\ Self.p \in Nodes
    BY <1>1 DEF Known, Placed, Me, PointersOf
  <1>3. CallFrom([Top EXCEPT !.pc = "under"], Self.p)
    BY DEF LoopDone
  <1>4. Calls(Self)
    BY <1>1, <1>2, <1>3, CallsUnder
  <1>5. QED BY <1>1, <1>4, SelfUnchanged DEF LoopDone, Step

(* The value of the behaviour passed on is taken. *)
LEMMA UnderUpdatedStep ==
    ASSUME TypeOK, Known, UnderUpdated
    PROVE  Step
  <1> DEFINE new == [Self EXCEPT !.value = Val(Top.m), !.flipping = FALSE]
  <1>1. Top.pc = "under" /\ stack # <<>> /\ Top.m \in Nodes
        /\ net.kind[Me] \notin Delays
    BY DEF UnderUpdated, At, Known, Placed, Me
  <1>2. Val(Top.m) \in Values
    BY <1>1 DEF Val, TypeOK, States
  <1>3. new \in States /\ new.last = Self.last /\ PointersOf(Me, new)
        /\ ~new.flipping
    <2> HIDE DEF Val
    <2>1. QED BY <1>2 DEF Known, States, PointersOf
  <1>4. node' = [node EXCEPT ![Me] = new]
    BY DEF UnderUpdated, Known, Self, TypeOK, States
  <1>5. Updating(Len(stack))
    BY <1>1 DEF Known
  <1>6. Returns(new)
    BY <1>3, <1>5 DEF Returns, UnderUpdated
  <1>7. QED BY <1>1, <1>3, <1>4, <1>6 DEF UnderUpdated, Step

(* A delay gives the value it has fetched and calls its input. *)
LEMMA EnterDelayStep ==
    ASSUME TypeOK, Known, EnterDelay
    PROVE  Step
  <1> DEFINE new == IF Self.last = Top.now THEN [Self EXCEPT !.updated = TRUE]
                    ELSE [Self EXCEPT !.value = Self.prefetch,
                                      !.last = Top.now, !.updated = FALSE]
             f == [Top EXCEPT !.pc = "delay", !.flag = new.updated]
  <1>1. net.kind[Me] \in Delays /\ Top.pc = "entry" /\ stack # <<>>
    BY DEF EnterDelay, MyKind, At
  <1>2. Self \in States /\ PointersOf(Me, Self) /\ Self.p \in Nodes
        /\ Top.now \in Nat
    BY <1>1 DEF Known, PointersOf, Frames
  <1>3. new \in States /\ PointersOf(Me, new) /\ new.flipping = Self.flipping
        /\ new.last \in {Self.last, Top.now} /\ new.updated \in BOOLEAN
    <2> HIDE DEF Self, Top
    <2>1. QED BY <1>2 DEF States, PointersOf
  <1>4. node' = [node EXCEPT ![Me] = new] /\ CallFrom(f, Self.p)
    BY DEF EnterDelay
  <1> HIDE DEF new
  <1>5. f \in Frames /\ f.n = Me /\ f.now = Top.now /\ f.pc = "delay"
    BY <1>3 DEF Known, Frames, Me
  <1>6. Placed([f EXCEPT !.m = Self.p])
    BY <1>1, <1>2 DEF Known, Placed, Frames, Me
  <1> HIDE DEF f
  <1>7. Calls(new)
    BY <1>1, <1>2, <1>3, <1>4, <1>5, <1>6 DEF Calls
  <1>8. QED BY <1>1, <1>3, <1>4, <1>7 DEF EnterDelay, Step

(* A delay fetches the next value, or waits for clean_up(). *)
LEMMA DelayUpdatedStep ==
    ASSUME TypeOK, Known, DelayUpdated
    PROVE  Step
  <1> DEFINE up == ret = "yes" \/ (IF net.late THEN Self.updated ELSE Top.flag)
             new == [Self EXCEPT !.updated = up,
                                 !.prefetch = IF up THEN Val(Self.p) ELSE @]
  <1>1. net.kind[Me] \in Delays /\ Top.pc = "delay" /\ stack # <<>>
    BY DEF DelayUpdated, At, Known, Placed, Me
  <1>2. Self \in States /\ PointersOf(Me, Self) /\ Self.p \in Nodes
        /\ Top.flag \in BOOLEAN /\ net.late \in BOOLEAN
    BY <1>1 DEF Known, PointersOf, Frames, WellFormed
  <1>3. Val(Self.p) \in Values /\ up \in BOOLEAN
    <2>1. Val(Self.p) \in Values
      BY <1>2 DEF Val, TypeOK, States
    <2>2. up \in BOOLEAN
      BY <1>2 DEF States
    <2>3. QED BY <2>1, <2>2
  <1>4. node' = [node EXCEPT ![Me] = new]
    BY DEF DelayUpdated, Known, Self, TypeOK, States
  <1>5. \/ UNCHANGED <<todo, todoNow>>
        \/ todo' = Append(todo, Me) /\ todoNow' = Top.now
    BY DEF DelayUpdated
  <1> HIDE DEF up
  <1>6. new \in States /\ new.last = Self.last /\ PointersOf(Me, new)
        /\ new.flipping = Self.flipping
    <2> HIDE DEF Val, Self
    <2>1. QED BY <1>2, <1>3 DEF States, PointersOf
  <1>7. ~Updating(Len(stack))
    BY <1>1 DEF Known
  <1>8. Returns(new)
    BY <1>2, <1>6, <1>7 DEF Returns, DelayUpdated, States
  <1>9. QED BY <1>1, <1>4, <1>5, <1>6, <1>8 DEF DelayUpdated, Step

(* A delay that has no value yet calls its input. *)
LEMMA EnterDelay1Step ==
    ASSUME TypeOK, Known, EnterDelay1
    PROVE  Step
  <1> DEFINE f == [Top EXCEPT !.pc = "first"]
  <1>1. net.kind[Me] \in Delays /\ Top.pc = "entry" /\ stack # <<>>
    BY DEF EnterDelay1, MyKind, At, Delays
  <1>2. Self.p \in Nodes /\ CallFrom(f, Self.p)
    BY <1>1 DEF Known, PointersOf, EnterDelay1
  <1>3. f \in Frames /\ f.n = Me /\ f.now = Top.now /\ f.pc = "first"
    BY DEF Known, Frames, Me
  <1>4. Placed([f EXCEPT !.m = Self.p])
    BY <1>1, <1>2 DEF Known, Placed, Frames, Me
  <1> HIDE DEF f
  <1>5. Calls(Self)
    BY <1>1, <1>2, <1>3, <1>4 DEF Calls
  <1>6. QED BY <1>1, <1>5, SelfUnchanged DEF EnterDelay1, Step

(* Its first value is the one of its input. *)
LEMMA FirstUpdatedStep ==
    ASSUME TypeOK, Known, FirstUpdated
    PROVE  Step
  <1> DEFINE new == IF ret = "yes"
                      THEN [Self EXCEPT !.updated = TRUE, !.value = Val(Self.p),
                                        !.prefetch = Val(Self.p),
                                        !.first = FALSE]
                      ELSE [Self EXCEPT !.updated = FALSE]
  <1>1. net.kind[Me] \in Delays /\ Top.pc = "first" /\ stack # <<>>
    BY DEF FirstUpdated, At, Known, Placed, Me
  <1>2. Self \in States /\ PointersOf(Me, Self) /\ Self.p \in Nodes
    BY <1>1 DEF Known, PointersOf
  <1>3. Val(Self.p) \in Values
    BY <1>2 DEF Val, TypeOK, States
  <1>4. node' = [node EXCEPT ![Me] = new]
    BY DEF FirstUpdated
  <1>5. new \in States /\ new.last = Self.last /\ PointersOf(Me, new)
        /\ new.flipping = Self.flipping
    <2> HIDE DEF Val, Self
    <2>1. QED BY <1>2, <1>3 DEF States, PointersOf
  <1>6. ~Updating(Len(stack)) /\ Self.flipping \in BOOLEAN
    BY <1>1, <1>2 DEF Known, States
  <1>7. ret \in {"yes", "no"}
    BY DEF FirstUpdated, Returned, TypeOK
  <1> HIDE DEF new
  <1>8. Returns(new)
    BY <1>5, <1>6, <1>7 DEF Returns, FirstUpdated
  <1>9. QED BY <1>1, <1>4, <1>5, <1>8 DEF FirstUpdated, Step

(* All of update() consists of such steps. *)
LEMMA UpdateStep ==
    ASSUME TypeOK, Pointers, Shape, Update
    PROVE  Step
  <1>1. stack # <<>>
    BY DEF Update, Flipping, Current, Start, UpdateMinor, MinorUpdated,
           NotUpdated, Compute, ComputeSwitch, ComputeReplaced, ComputeTask,
           EventUpdated, LoopAgain, LoopDone, UnderUpdated, EnterDelay,
           DelayUpdated, EnterDelay1, FirstUpdated, MinorsDone, At
  <1>2. Known
    BY <1>1, TopKnown
  <1>3. QED
    BY <1>2, FlippingStep, CurrentStep, StartStep, UpdateMinorStep,
       MinorUpdatedStep, NotUpdatedStep, ComputeStep, ComputeSwitchStep,
       ComputeReplacedStep, ComputeTaskStep, EventUpdatedStep, LoopAgainStep,
       LoopDoneStep, UnderUpdatedStep, EnterDelayStep, DelayUpdatedStep,
       EnterDelay1Step, FirstUpdatedStep DEF Update

(* So update() keeps the invariant. *)
LEMMA UpdateKeepsIInv ==
    ASSUME IInv, Update
    PROVE  IInv'
  <1>1. Step
    BY UpdateStep DEF IInv
  <1>2. QED BY <1>1, StepTyped, StepPointers, StepShape, StepFlipping, StepClock
           DEF IInv

-----------------------------------------------------------------------------
(* The client's side of next(). *)

(* A stack that holds only the activation the client asked for. *)
LEMMA FreshStack ==
    ASSUME NEW n \in Nodes, NEW now \in Nat, stack' = <<Frame(n, now)>>
    PROVE  /\ stack' \in Seq(Frames) /\ DOMAIN stack' = {1} /\ Len(stack') = 1
           /\ stack'[1].pc = "entry" /\ stack'[1].now = now
           /\ stack'[1].i = 1
  BY DEF Frame, Frames

(* The client asks for the next sample. *)
LEMMA NextSampleKeepsIInv ==
    ASSUME IInv, NextSample
    PROVE  IInv'
  <1>1. phase = "idle" /\ stack = <<>> /\ todo = <<>>
    BY DEF IInv, NextSample, Shape, Clock
  <1>2. net.root \in Nodes /\ node[net.root].last \in Nat
    BY DEF IInv, TypeOK, WellFormed, States
  <1> DEFINE now == node[net.root].last + 1
  <1>3. now \in Nat
    BY <1>2
  <1>4. stack' = <<Frame(net.root, now)>>
    BY DEF NextSample
  <1>5. /\ net' = net /\ node' = node /\ ret' = ret /\ todo' = todo /\ at' = at
        /\ todoNow' = todoNow /\ before' = node /\ phase' = "update"
        /\ calls' = calls + 1 /\ calls < MaxCalls
    BY DEF NextSample
  <1>6. /\ stack' \in Seq(Frames) /\ DOMAIN stack' = {1} /\ Len(stack') = 1
        /\ stack'[1].pc = "entry" /\ stack'[1].now = now /\ stack'[1].i = 1
    BY <1>2, <1>3, <1>4, FreshStack
  <1>7. TypeOK'
    <2>1. WellFormed(net')
      BY <1>5, <1>6, BoundAssumption DEF IInv, TypeOK
    <2> HIDE DEF States, Frames, WellFormed
    <2>2. QED BY <1>5, <1>6, BoundAssumption, <2>1 DEF IInv, TypeOK
  <1>8. Pointers'
    BY <1>5 DEF IInv, Pointers, PointersOf
  <1>9. Shape'
    BY <1>5, <1>6 DEF Shape, Placed
  <1>10. FlippingOnStack'
    <2>1. \A n \in Nodes : ~node[n].flipping
      BY <1>1 DEF IInv, FlippingOnStack
    <2>2. \A k \in DOMAIN stack' : ~Updating(k)'
      BY <1>6 DEF Updating
    <2>3. QED BY <1>5, <2>1, <2>2 DEF FlippingOnStack
  <1>11. Clock'
    <2>1. \A n \in Nodes : node[n].last <= now
      BY <1>1 DEF IInv, Clock
    <2>2. before'[net'.root].last + 1 = now
      BY <1>5
    <2>3. OneSample'
      BY <1>5, <1>6, <2>1, <2>2 DEF OneSample
    <2>4. QED BY <1>1, <1>2, <1>5, <2>3 DEF Clock
  <1>12. QED BY <1>7, <1>8, <1>9, <1>10, <1>11 DEF IInv

(* update() of the root is over. *)
LEMMA CleanUpKeepsIInv ==
    ASSUME IInv, CleanUp
    PROVE  IInv'
  <1>1. /\ net' = net /\ node' = node /\ stack' = stack /\ todo' = todo
        /\ todoNow' = todoNow /\ calls' = calls /\ before' = before
        /\ phase = "update" /\ phase' = "cleanUp" /\ ret' = "none" /\ at' = 1
    BY DEF CleanUp
  <1>2. TypeOK'
    <2>1. WellFormed(net')
      BY <1>1 DEF IInv, TypeOK
    <2> HIDE DEF States, Frames, WellFormed
    <2>2. QED BY <1>1, <2>1 DEF IInv, TypeOK
  <1>3. Pointers' /\ Shape'
    BY <1>1 DEF IInv, Pointers, PointersOf, Shape, Placed
  <1>4. FlippingOnStack'
    BY <1>1 DEF IInv, FlippingOnStack, Updating
  <1>5. Clock'
    BY <1>1 DEF IInv, Clock, OneSample, Making
  <1>6. QED BY <1>2, <1>3, <1>4, <1>5 DEF IInv

(* clean_up() updates a delay that waits, for the sample being made. *)
LEMMA CleanUpOneKeepsIInv ==
    ASSUME IInv, CleanUpOne
    PROVE  IInv'
  <1>1. /\ net' = net /\ node' = node /\ todo' = todo /\ phase' = phase
        /\ todoNow' = todoNow /\ calls' = calls /\ before' = before
        /\ phase = "cleanUp" /\ ret' = "none" /\ at' = at + 1 /\ stack = <<>>
    BY DEF CleanUpOne
  <1>2. at \in Nat \ {0} /\ at <= Len(todo) /\ todo \in Seq(Nodes)
        /\ todoNow \in Nat
    BY DEF IInv, TypeOK, CleanUpOne
  <1>3. todo[at] \in Nodes /\ todo # <<>>
    BY <1>2
  <1>4. stack' = <<Frame(todo[at], todoNow)>>
    BY DEF CleanUpOne
  <1>5. /\ stack' \in Seq(Frames) /\ DOMAIN stack' = {1} /\ Len(stack') = 1
        /\ stack'[1].pc = "entry" /\ stack'[1].now = todoNow /\ stack'[1].i = 1
    BY <1>2, <1>3, <1>4, FreshStack
  <1>6. TypeOK'
    <2>1. WellFormed(net')
      BY <1>1, <1>2, <1>5 DEF IInv, TypeOK
    <2> HIDE DEF States, Frames, WellFormed
    <2>2. QED BY <1>1, <1>2, <1>5, <2>1 DEF IInv, TypeOK
  <1>7. Pointers'
    BY <1>1 DEF IInv, Pointers, PointersOf
  <1>8. Shape'
    BY <1>1, <1>5 DEF Shape, Placed
  <1>9. FlippingOnStack'
    <2>1. \A n \in Nodes : ~node[n].flipping
      BY <1>1 DEF IInv, FlippingOnStack
    <2>2. \A k \in DOMAIN stack' : ~Updating(k)'
      BY <1>5 DEF Updating
    <2>3. QED BY <1>1, <2>1, <2>2 DEF FlippingOnStack
  <1>10. Clock'
    <2>1. todoNow = before[net.root].last + 1
      BY <1>1, <1>3 DEF IInv, Clock, Making
    <2>2. OneSample'
      BY <1>1, <1>5, <2>1 DEF IInv, Clock, OneSample
    <2>3. QED BY <1>1, <2>2 DEF IInv, Clock, Making
  <1>11. QED BY <1>6, <1>7, <1>8, <1>9, <1>10 DEF IInv

(* next() returns to the client. *)
LEMMA CleanUpDoneKeepsIInv ==
    ASSUME IInv, CleanUpDone
    PROVE  IInv'
  <1>1. /\ net' = net /\ node' = node /\ stack' = stack /\ todo' = <<>>
        /\ todoNow' = todoNow /\ calls' = calls /\ before' = before
        /\ phase = "cleanUp" /\ phase' = "idle" /\ ret' = "none" /\ at' = 1
        /\ stack = <<>>
    BY DEF CleanUpDone
  <1>2. TypeOK'
    <2>1. WellFormed(net')
      BY <1>1 DEF IInv, TypeOK
    <2> HIDE DEF States, Frames, WellFormed
    <2>2. QED BY <1>1, <2>1 DEF IInv, TypeOK
  <1>3. Pointers' /\ Shape'
    BY <1>1 DEF IInv, Pointers, PointersOf, Shape, Placed
  <1>4. FlippingOnStack'
    BY <1>1 DEF IInv, FlippingOnStack, Updating
  <1>5. Clock'
    <2>1. net.root \in Nodes /\ before[net.root].last \in Nat
          /\ \A n \in Nodes : node[n].last \in Nat
      BY DEF IInv, TypeOK, WellFormed, States
    <2>2. \A n \in Nodes : node[n].last <= before[net.root].last + 1
      BY <1>1 DEF IInv, Clock, OneSample
    <2>3. before[net.root].last <= node[net.root].last
      BY <1>1 DEF IInv, Clock
    <2>4. \A n \in Nodes : node[n].last <= node[net.root].last + 1
      BY <2>1, <2>2, <2>3
    <2>5. QED BY <1>1, <2>4 DEF Clock, OneSample
  <1>6. QED BY <1>2, <1>3, <1>4, <1>5 DEF IInv

-----------------------------------------------------------------------------
(* Every constructor leaves what update() will follow. *)
LEMMA NewTyped ==
    ASSUME WellFormed(net), NEW n \in Nodes
    PROVE  New(n) \in States /\ PointersOf(n, New(n))
  <1> DEFINE kind == net.kind[n]
             args == net.args[n]
  <1>1. kind \in Kinds /\ args \in Seq(Nodes) /\ net.fresh[n] \in Seq([p : Nodes, e : Nodes])
        /\ (kind # "lift" => Len(args) = Arity(kind))
    BY DEF WellFormed
  <1>2. \A i \in 1..Len(args) : args[i] \in Nodes
    BY <1>1
  <1>3. kind \in Switches \cup {"task", "taskSwitch"} =>
          args[1] \in Nodes /\ args[2] \in Nodes
    BY <1>1, <1>2 DEF Arity, Switches
  <1>4. kind = "taskLoop" =>
          args[1] \in Nodes /\ args[2] \in Nodes /\ args[3] \in Nodes
    BY <1>1, <1>2 DEF Arity, Switches
  <1>5. kind = "taskEvent" \/ kind \in Delays => args[1] \in Nodes
    BY <1>1, <1>2 DEF Arity, Switches, Delays
  <1>6. Len(net.fresh[n]) \in Nat
    BY <1>1
  <1> HIDE DEF kind, args
  <1>7. Attached(kind, args) \in Seq(Nodes)
    BY <1>1, <1>3, <1>4 DEF Attached, Switches
  <1>8. /\ Under(kind, args) \in Nodes \cup {NoNode}
        /\ kind \in Delays \cup Switches \cup Tasks => Under(kind, args) \in Nodes
    BY <1>3, <1>4, <1>5 DEF Under, Switches, Tasks, Delays
  <1>9. /\ Watched(kind, args) \in Nodes \cup {NoNode}
        /\ kind \in Switches \cup Tasks => Watched(kind, args) \in Nodes
    BY <1>3, <1>4, <1>5 DEF Watched, Switches, Tasks
  <1>10. New(n) = [last |-> 0, flipping |-> FALSE, updated |-> TRUE, value |-> 0,
                   prefetch |-> 0, first |-> TRUE,
                   minors |-> Attached(kind, args), p |-> Under(kind, args),
                   e |-> Watched(kind, args), started |-> 0]
    BY DEF New, kind, args
  <1>11. New(n) \in States
    BY <1>7, <1>8, <1>9, <1>10, DataAssumption DEF States
  <1>12. PointersOf(n, New(n))
    BY <1>6, <1>8, <1>9, <1>10 DEF PointersOf, kind
  <1>13. QED BY <1>11, <1>12

(* A network that has been built satisfies the invariant. *)
LEMMA InitIInv ==
    ASSUME Init
    PROVE  IInv
  <1>1. WellFormed(net) /\ net.root \in Nodes
    BY NetworkAssumption DEF Init, WellFormed
  <1>2. \A n \in Nodes : New(n) \in States /\ PointersOf(n, New(n))
    BY <1>1, NewTyped
  <1>3. \A n \in Nodes : node[n] = New(n)
    BY DEF Init
  <1>4. \A n \in Nodes : node[n].last = 0 /\ ~node[n].flipping
    <2>1. \A n \in Nodes : New(n).last = 0 /\ ~New(n).flipping
      BY DEF New
    <2> HIDE DEF New
    <2>2. QED BY <1>3, <2>1
  <1>5. node \in [Nodes -> States]
    <2> HIDE DEF New, States
    <2>1. QED BY <1>2 DEF Init
  <1>6. TypeOK
    BY <1>1, <1>5, BoundAssumption DEF Init, TypeOK
  <1>7. Pointers
    BY <1>2, <1>3 DEF Pointers
  <1>8. Shape
    BY DEF Init, Shape
  <1>9. FlippingOnStack
    BY <1>4 DEF Init, FlippingOnStack
  <1>10. Clock
    BY <1>1, <1>4 DEF Init, Clock, OneSample
  <1>11. QED BY <1>6, <1>7, <1>8, <1>9, <1>10 DEF IInv

(* Nothing changes but what is outside of the invariant. *)
LEMMA StutterKeepsIInv ==
    ASSUME IInv, UNCHANGED vars
    PROVE  IInv'
  <1>1. /\ net' = net /\ node' = node /\ stack' = stack /\ todo' = todo
        /\ todoNow' = todoNow /\ calls' = calls /\ before' = before
        /\ phase' = phase /\ ret' = ret /\ at' = at
    BY DEF vars
  <1>2. TypeOK' /\ Pointers' /\ Shape'
    BY <1>1 DEF IInv, TypeOK, WellFormed, Pointers, PointersOf, Shape, Placed
  <1>3. FlippingOnStack' /\ Clock'
    BY <1>1 DEF IInv, FlippingOnStack, Updating, Clock, OneSample, Making
  <1>4. QED BY <1>2, <1>3 DEF IInv

(* The inductive invariant holds of every network of behaviours. *)
THEOREM InductiveInvariant == Spec => []IInv
  <1>1. Init => IInv
    BY InitIInv
  <1>2. IInv /\ [Next]_vars => IInv'
    BY UpdateKeepsIInv, NextSampleKeepsIInv, CleanUpKeepsIInv,
       CleanUpOneKeepsIInv, CleanUpDoneKeepsIInv, StutterKeepsIInv
       DEF Next, Engine
  <1>3. QED BY <1>1, <1>2, PTL DEF Spec

(* The engine only ever follows pointers and stores values that exist. *)
THEOREM TypeCorrect == Spec => []TypeOK
  <1>1. IInv => TypeOK
    BY DEF IInv
  <1>2. QED BY <1>1, InductiveInvariant, PTL

(* However the network is wired, through cycles, switches and tasks, a     *)
(* module is updated at most once at a time, its flag is set exactly then, *)
(* and none is left set when next() returns.                               *)
THEOREM FlippingIsOnStack == Spec => []FlippingOnStack
  <1>1. IInv => FlippingOnStack
    BY DEF IInv
  <1>2. QED BY <1>1, InductiveInvariant, PTL

(* One call of next() makes one sample: every activation of update() in it *)
(* is for that sample, and no module gets ahead of it.                     *)
THEOREM MakesOneSample == Spec => []OneSample
  <1>1. IInv => OneSample
    BY DEF IInv, Clock
  <1>2. QED BY <1>1, InductiveInvariant, PTL

-----------------------------------------------------------------------------
(* Nothing is put on the list of waiting delays while clean_up() iterates  *)
(* over it, in networks without switches and tasks.  There, what a module  *)
(* updates is fixed (a module made by once() drops it in the end), so      *)
(* update() of the root has been wherever clean_up() gets to.              *)

Static == \A n \in Nodes : net.kind[n] \notin Switches \cup Tasks
IsDelay(n) == net.kind[n] \in Delays

(* The sample being made, or the one that next() will make.                *)
Stamp == IF phase = "idle" THEN node[net.root].last + 1 ELSE Making

(* update(n, Stamp) answers yes from now on.                               *)
Ready(n) == IF IsDelay(n) THEN net.kind[n] = "delay1" => ~node[n].first
                          ELSE node[n].last = Stamp

(* A delay that has seen this sample, and a Delay1 that sees it only when  *)
(* its input has.                                                          *)
Settled(n) ==
    IsDelay(n) => \/ node[n].last = Stamp
                  \/ net.kind[n] = "delay1" /\ (node[n].first \/ Ready(node[n].p))

(* What update() of the module calls. *)
Edges(n) == IF IsDelay(n) THEN {node[n].p}
                          ELSE {node[n].minors[i] : i \in DOMAIN node[n].minors}

(* What an activation may rely on. *)
FrameOK(f) ==
    /\ f.pc \in {"entry", "minors", "delay", "first"}
    /\ f.pc = "entry" => f.i = 1
    /\ f.pc \in {"delay", "first"} => f.m = node[f.n].p
    /\ f.pc = "delay" => node[f.n].last = Stamp /\ Ready(f.n)
    /\ f.pc = "first" => net.kind[f.n] = "delay1" /\ (Ready(f.n) => Ready(f.m))
    /\ phase = "cleanUp" /\ f.pc = "delay" =>
         Ready(f.m) \/ (f.flag /\ node[f.n].updated)
HasCalled(f) ==
    f.pc = "minors" => /\ f.i \in DOMAIN node[f.n].minors
                       /\ f.m = node[f.n].minors[f.i]
Ordered ==
    /\ \A k \in DOMAIN stack : FrameOK(stack[k])
    /\ \A k \in 1..(Len(stack) - 1) :
         HasCalled(stack[k]) /\ stack[k].m = stack[k + 1].n
    /\ phase = "idle" => ret = "none"
    /\ Returned /\ stack # <<>> => /\ Top.pc # "entry" /\ HasCalled(Top)
                                   /\ (ret = "yes" <=> Ready(Top.m))
    /\ \A n \in Nodes : node[n].flipping => node[n].last # Stamp

(* The modules that update() has been to for this sample: a set that what  *)
(* they call is in as soon as they have called it all.                     *)
Open(n) == \E k \in DOMAIN stack : stack[k].n = n /\ stack[k].pc # "entry"
Closed(S, n) == (Open(n) /\ phase # "cleanUp") \/ Edges(n) \subseteq S
FrameIn(S, f) ==
    /\ f.pc # "entry" \/ phase = "cleanUp" => f.n \in S
    /\ f.pc = "minors" => \A j \in 1..(f.i - 1) : node[f.n].minors[j] \in S
Seen(S) ==
    /\ \A n \in S : Settled(n) /\ Closed(S, n)
    /\ \A n \in Nodes : ~IsDelay(n) /\ node[n].last = Stamp => n \in S
    /\ \A k \in DOMAIN stack : FrameIn(S, stack[k])
    /\ Returned /\ stack # <<>> => Top.m \in S
    /\ \A i \in DOMAIN todo : todo[i] \in S

Visits == Ordered /\ \E S \in SUBSET Nodes : Seen(S)

(* What every action of update() leaves of a module. *)
Lasting(new) ==
    /\ node' = [node EXCEPT ![Me] = new]
    /\ new.p = Self.p /\ new.last \in {Self.last, Top.now}
    /\ \/ new.minors = Self.minors
       \/ Top.pc = "minors" /\ Top.i > Len(Self.minors) /\ new.minors = <<>>
    /\ IsDelay(Me) =>
         /\ \/ new.first = Self.first
            \/ net.kind[Me] = "delay1" /\ ~new.first /\ Ready(Self.p)
         /\ phase = "cleanUp" /\ Self.updated /\ Ready(Me) /\ ~Ready(Self.p)
              => new.updated
    /\ new.flipping => new.last # Top.now

(* How it leaves the activation on top. *)
Ends ==
    /\ \E answer \in {"yes", "no"}, me \in {Me} :
         Return(answer) /\ (answer = "yes" <=> Ready(me)')
    /\ CASE Top.pc = "entry" -> node' = node /\ (Self.flipping \/ Ready(Me)) /\ ~IsDelay(Me)
         [] Top.pc = "minors" -> Top.i > Len(Self.minors)
         [] OTHER -> Returned
Proceeds ==
    \E f \in Frames :
        /\ Goto(f) /\ ret' = "none" /\ f.n = Me /\ f.pc = "minors" /\ ~IsDelay(Me)
        /\ \/ Top.pc = "entry" /\ f.i = 1
           \/ Top.pc = "minors" /\ Returned /\ f.i = Top.i + 1
Descends ==
    \E f \in Frames, m \in Nodes :
        /\ CallFrom(f, m) /\ f.n = Me /\ f.pc # "entry"
        /\ FrameOK([f EXCEPT !.m = m])' /\ HasCalled([f EXCEPT !.m = m])'
        /\ f.pc = "minors" => Top.pc = "minors" /\ f.i = Top.i
        /\ m \in Edges(Me) /\ \A me \in {Me} : Settled(me)'
StaticStep ==
    /\ stack # <<>> /\ Still
    /\ \E new \in States : Lasting(new)
    /\ Ends \/ Proceeds \/ Descends
    /\ \/ todo' = todo
       \/ todo' = Append(todo, Me) /\ Top.pc # "entry" /\ phase # "cleanUp"

(* The stamp stays while update() runs, and it is the sample updated for.  *)
LEMMA StampIs ==
    ASSUME IInv, stack # <<>>, Still
    PROVE  /\ Stamp' = Stamp /\ Top.now = Stamp /\ phase # "idle"
           /\ Known /\ Stamp = Making
  <1>1. phase # "idle" /\ Known
    BY TopKnown DEF IInv, Shape
  <1>2. Top.now = Making
    BY <1>1, Popped DEF IInv, Clock, OneSample, TypeOK, Making, Top
  <1>3. Stamp = Making /\ Stamp' = Making'
    BY <1>1 DEF Stamp, Still
  <1>4. QED BY <1>1, <1>2, <1>3 DEF Making, Still

(* What was ready or settled stays so, and no module calls more.           *)
LEMMA Lasts ==
    ASSUME IInv, stack # <<>>, Still, NEW new \in States, Lasting(new),
           NEW n \in Nodes
    PROVE  /\ Ready(n) => Ready(n)'
           /\ Settled(n) => Settled(n)'
           /\ Edges(n)' \subseteq Edges(n)
           /\ node'[n].p = node[n].p
           /\ IsDelay(n) <=> IsDelay(n)'
  <1>1. /\ Stamp' = Stamp /\ Top.now = Stamp /\ net' = net /\ Self = node[Me]
        /\ Me \in Nodes /\ Self \in States
    BY StampIs DEF Still, Known
  <1>2. node' = [node EXCEPT ![Me] = new] /\ node \in [Nodes -> States]
    BY DEF Lasting, IInv, TypeOK
  <1>3. \A k \in Nodes : node'[k] = IF k = Me THEN new ELSE node[k]
    BY <1>1, <1>2
  <1>4. /\ new.p = Self.p /\ new.last \in {Self.last, Stamp}
        /\ new.minors = Self.minors \/ new.minors = <<>>
        /\ IsDelay(Me) => \/ new.first = Self.first
                          \/ net.kind[Me] = "delay1" /\ ~new.first /\ Ready(Self.p)
    BY <1>1 DEF Lasting
  <1>5. \A k \in Nodes : IsDelay(k) <=> IsDelay(k)'
    BY <1>1 DEF IsDelay
  <1>6. \A k \in Nodes : Ready(k) => Ready(k)'
    <2>1. ASSUME NEW k \in Nodes, Ready(k) PROVE Ready(k)'
      <3>1. CASE k = Me
        BY <1>1, <1>3, <1>4, <1>5, <2>1, <3>1 DEF Ready
      <3>2. CASE k # Me
        BY <1>1, <1>3, <1>5, <2>1, <3>2 DEF Ready
      <3>3. QED BY <3>1, <3>2
    <2>2. QED BY <2>1
  <1>7. node'[n].p = node[n].p
    BY <1>1, <1>3, <1>4
  <1>8. ASSUME IsDelay(n), Settled(n) PROVE Settled(n)'
    <2>1. PICK p \in Nodes : p = node[n].p
      BY <1>8 DEF IsDelay, IInv, Pointers, PointersOf
    <2>2. Ready(p) => Ready(p)'
      BY <1>6
    <2>3. CASE node[n].last = Stamp
      BY <1>1, <1>3, <1>4, <2>3 DEF Settled
    <2>4. CASE net.kind[n] = "delay1" /\ Ready(p)
      BY <1>1, <1>7, <2>1, <2>2, <2>4 DEF Settled
    <2>5. CASE net.kind[n] = "delay1" /\ node[n].first
      <3>1. CASE node'[n].first
        BY <1>1, <2>5, <3>1 DEF Settled
      <3>2. CASE ~node'[n].first
        <4>1. n = Me /\ Ready(p)
          BY <1>1, <1>3, <1>4, <1>8, <2>1, <2>5, <3>2
        <4>2. QED BY <1>1, <1>7, <2>1, <2>2, <2>5, <4>1 DEF Settled
      <3>3. QED BY <3>1, <3>2
    <2>6. QED BY <1>8, <2>1, <2>3, <2>4, <2>5 DEF Settled
  <1>9. Settled(n) => Settled(n)'
    BY <1>5, <1>8 DEF Settled
  <1>10. Edges(n)' \subseteq Edges(n)
    <2>1. node'[n].minors = node[n].minors \/ node'[n].minors = <<>>
      BY <1>1, <1>3, <1>4
    <2>2. QED BY <1>5, <1>7, <2>1 DEF Edges
  <1>11. QED BY <1>5, <1>6, <1>7, <1>9, <1>10

(* The activations below the top may rely on the same. *)
LEMMA BelowKept ==
    ASSUME IInv, stack # <<>>, Still, NEW new \in States, Lasting(new),
           NEW k \in 1..(Len(stack) - 1),
           NEW f \in Frames, f = stack[k], FrameOK(f), HasCalled(f)
    PROVE  /\ FrameOK(f)' /\ HasCalled(f)'
           /\ f.pc = "minors" => node'[f.n].minors = node[f.n].minors
  <1>1. /\ Stamp' = Stamp /\ Top.now = Stamp /\ net' = net /\ Self = node[Me]
        /\ Me \in Nodes /\ phase' = phase /\ Placed(Top)
    BY StampIs DEF Still, Known
  <1>2. /\ f.n \in Nodes /\ f.m \in Nodes \cup {NoNode} /\ Placed(f)
        /\ Len(stack) \in Nat \ {0} /\ Top = stack[Len(stack)] /\ k \in DOMAIN stack
        /\ Len(stack) \in DOMAIN stack /\ stack \in Seq(Frames)
    <2>1. stack \in Seq(Frames) /\ Len(stack) \in Nat \ {0}
      BY Popped DEF IInv, TypeOK
    <2>2. k \in DOMAIN stack /\ Len(stack) \in DOMAIN stack
      BY <2>1
    <2>3. Placed(f)
      BY <2>2 DEF IInv, Shape
    <2>4. QED BY <2>1, <2>2, <2>3 DEF Top, Frames
  <1>3. \A n \in Nodes : node'[n] = IF n = Me THEN new ELSE node[n]
    BY <1>1 DEF Lasting, IInv, TypeOK
  <1>4. f.pc = "minors" => node'[f.n].minors = node[f.n].minors
    <2>1. ASSUME f.pc = "minors", f.n = Me, Top.pc = "minors" PROVE FALSE
      <3>1. Updating(k) /\ Updating(Len(stack)) /\ stack[k].n = stack[Len(stack)].n
        BY <1>1, <1>2, <2>1 DEF Updating, Placed, Me
      <3>2. k = Len(stack)
        BY <1>2, <3>1 DEF IInv, FlippingOnStack
      <3>3. QED BY <1>2, <3>2
    <2>2. QED BY <1>1, <1>2, <1>3, <2>1 DEF Lasting
  <1>5. ASSUME f.pc \in {"delay", "first"}
        PROVE  f.m \in Nodes /\ f.m = node[f.n].p /\ IsDelay(f.n) /\ f.m = node'[f.n].p
    <2>1. IsDelay(f.n) /\ f.m = node[f.n].p
      BY <1>2, <1>5 DEF Placed, IsDelay, FrameOK
    <2>2. f.m \in Nodes
      BY <1>2, <2>1 DEF IInv, Pointers, PointersOf, IsDelay
    <2>3. QED BY <1>2, <2>1, <2>2, Lasts
  <1>6. ASSUME f.pc = "delay" PROVE node'[f.n].last = Stamp /\ Ready(f.n)'
    BY <1>1, <1>2, <1>3, <1>6, Lasts DEF FrameOK, Lasting
  <1>7. ASSUME f.pc = "first", Ready(f.n)' PROVE Ready(f.m)'
    <2>1. CASE Ready(f.n)
      BY <1>5, <1>7, <2>1, Lasts DEF FrameOK
    <2>2. CASE ~Ready(f.n)
      <3>1. f.n = Me /\ Ready(f.m)
        BY <1>1, <1>2, <1>3, <1>5, <1>7, <2>2 DEF Ready, IsDelay, Lasting
      <3>2. QED BY <1>5, <1>7, <3>1, Lasts
    <2>3. QED BY <2>1, <2>2
  <1>8. ASSUME phase = "cleanUp", f.pc = "delay"
        PROVE  Ready(f.m)' \/ (f.flag /\ node'[f.n].updated)
    <2>1. CASE Ready(f.m)
      BY <1>5, <1>8, <2>1, Lasts
    <2>2. CASE ~Ready(f.m)
      <3>1. f.flag /\ node[f.n].updated /\ Ready(f.n)
        BY <1>8, <2>2 DEF FrameOK
      <3>2. f.n = Me => new.updated
        BY <1>1, <1>5, <1>8, <2>2, <3>1 DEF Lasting
      <3>3. QED BY <1>2, <1>3, <3>1, <3>2
    <2>3. QED BY <2>1, <2>2
  <1>9. FrameOK(f)'
    BY <1>1, <1>5, <1>6, <1>7, <1>8 DEF FrameOK
  <1>10. HasCalled(f)'
    BY <1>4 DEF HasCalled
  <1>11. QED BY <1>4, <1>9, <1>10

(* Ordered in the state after a step, frame by frame. *)
LEMMA OrderedAfter ==
    ASSUME stack' \in Seq(Frames), phase' # "idle",
           \A k \in DOMAIN stack' : \A f \in Frames : f = stack'[k] =>
              /\ FrameOK(f)'
              /\ k < Len(stack') => HasCalled(f)' /\ f.m = stack'[k + 1].n
           ,
           ret' # "none" /\ stack' # <<>> =>
              \A f \in Frames : f = stack'[Len(stack')] =>
                 f.pc # "entry" /\ HasCalled(f)' /\ (ret' = "yes" <=> Ready(f.m)')
           ,
           \A n \in Nodes : node'[n].flipping => node'[n].last # Stamp'
    PROVE  Ordered'
  <1>1. Len(stack') \in Nat /\ \A k \in DOMAIN stack' : stack'[k] \in Frames
    OBVIOUS
  <1>2. ASSUME NEW k \in DOMAIN stack' PROVE FrameOK(stack[k])'
    <2>1. PICK f \in Frames : f = stack'[k]
      BY <1>1
    <2>2. FrameOK(f)'
      BY <2>1
    <2>3. QED BY <2>1, <2>2 DEF FrameOK, Ready, IsDelay
  <1>3. ASSUME NEW k \in 1..(Len(stack') - 1)
        PROVE  HasCalled(stack[k])' /\ stack'[k].m = stack'[k + 1].n
    <2>1. PICK f \in Frames : f = stack'[k] /\ k \in DOMAIN stack' /\ k < Len(stack')
      BY <1>1
    <2>2. HasCalled(f)' /\ f.m = stack'[k + 1].n
      BY <2>1
    <2>3. QED BY <2>1, <2>2 DEF HasCalled
  <1>4. ASSUME ret' # "none", stack' # <<>>
        PROVE  /\ Top'.pc # "entry" /\ HasCalled(Top)'
               /\ (ret' = "yes" <=> Ready(Top.m)')
    <2>1. PICK f \in Frames : f = stack'[Len(stack')]
      BY <1>1, <1>4
    <2>2. f.pc # "entry" /\ HasCalled(f)' /\ (ret' = "yes" <=> Ready(f.m)')
      BY <1>4, <2>1
    <2>3. QED BY <2>1, <2>2 DEF Top, HasCalled, Ready, IsDelay
  <1>5. QED BY <1>2, <1>3, <1>4 DEF Ordered, Returned

(* What the activations may rely on survives a step. *)
LEMMA StepOrdered ==
    ASSUME IInv, Ordered, StaticStep
    PROVE  Ordered'
  <1> DEFINE L == Len(stack)
  <1>1. PICK new \in States : Lasting(new)
    BY DEF StaticStep
  <1>2. /\ stack # <<>> /\ Still /\ stack \in Seq(Frames) /\ L \in Nat \ {0}
        /\ Top = stack[L] /\ Me = Top.n
    BY Popped DEF StaticStep, IInv, TypeOK, Top, Me
  <1>3. /\ Stamp' = Stamp /\ Top.now = Stamp /\ phase' # "idle" /\ Self = node[Me]
        /\ Me \in Nodes
    BY <1>2, StampIs DEF Still, Known
  <1>4. \A n \in Nodes : node'[n].flipping => node'[n].last # Stamp'
    <2>1. \A n \in Nodes : node'[n] = IF n = Me THEN new ELSE node[n]
      BY <1>1, <1>3 DEF Lasting, IInv, TypeOK
    <2>2. QED BY <1>1, <1>3, <2>1 DEF Lasting, Ordered
  <1>5. \A k \in 1..(L - 1) : \A f \in Frames : f = stack[k] =>
          FrameOK(f)' /\ HasCalled(f)' /\ f.pc # "entry" /\ f.m = stack[k + 1].n
    <2>1. ASSUME NEW k \in 1..(L - 1), NEW f \in Frames, f = stack[k]
          PROVE  FrameOK(f)' /\ HasCalled(f)' /\ f.pc # "entry" /\ f.m = stack[k + 1].n
      <3>1. k \in DOMAIN stack /\ k # L
        BY <1>2
      <3>2. FrameOK(f) /\ HasCalled(f) /\ f.m = stack[k + 1].n
        BY <2>1, <3>1 DEF Ordered
      <3>3. f.pc # "entry"
        BY <2>1, <3>1 DEF IInv, Shape
      <3>4. QED BY <1>1, <1>2, <2>1, <3>2, <3>3, BelowKept
    <2>2. QED BY <2>1
  <1>6. CASE Ends
    <2>1. PICK answer \in {"yes", "no"}, me \in {Me} :
            Return(answer) /\ (answer = "yes" <=> Ready(me)')
      BY <1>6 DEF Ends
    <2>2. me \in Nodes /\ me = Me
      BY <1>3
    <2>3. answer = "yes" <=> Ready(me)'
      BY <2>1
    <2>4. stack' = Rest /\ ret' = answer
      BY <2>1 DEF Return
    <2>5. /\ stack' \in Seq(Frames) /\ Len(stack') = L - 1
          /\ \A k \in 1..(L - 1) : stack'[k] = stack[k]
      BY <1>2, <2>4, Popped
    <2>6. ASSUME NEW k \in DOMAIN stack', NEW f \in Frames, f = stack'[k]
          PROVE  FrameOK(f)' /\ (k < Len(stack') => HasCalled(f)' /\ f.m = stack'[k + 1].n)
      <3>1. k \in 1..(L - 1) /\ (k < Len(stack') => k + 1 \in 1..(L - 1))
        BY <1>2, <2>5
      <3>2. QED BY <1>5, <2>5, <2>6, <3>1
    <2>7. ASSUME stack' # <<>>, NEW f \in Frames, f = stack'[Len(stack')]
          PROVE  f.pc # "entry" /\ HasCalled(f)' /\ (ret' = "yes" <=> Ready(f.m)')
      <3>1. L - 1 \in 1..(L - 1) /\ f = stack[L - 1] /\ L - 1 + 1 = L
        BY <1>2, <2>5, <2>7
      <3>2. f.pc # "entry" /\ HasCalled(f)' /\ f.m = me
        BY <1>2, <1>5, <2>2, <3>1
      <3>3. QED BY <2>3, <2>4, <3>2
    <2>8. QED BY <1>3, <1>4, <2>5, <2>6, <2>7, OrderedAfter
  <1>7. CASE Proceeds
    <2>1. PICK g \in Frames : Goto(g) /\ ret' = "none" /\ g.n = Me /\ g.pc = "minors"
      BY <1>7 DEF Proceeds
    <2>2. /\ stack' \in Seq(Frames) /\ Len(stack') = L /\ stack'[L] = g
          /\ \A k \in 1..(L - 1) : stack'[k] = stack[k]
      BY <1>2, <2>1, Gone
    <2>3. FrameOK(g)'
      BY <2>1 DEF FrameOK
    <2>4. ASSUME NEW k \in DOMAIN stack', NEW f \in Frames, f = stack'[k]
          PROVE  FrameOK(f)' /\ (k < Len(stack') => HasCalled(f)' /\ f.m = stack'[k + 1].n)
      <3>1. CASE k = L
        BY <1>2, <2>2, <2>3, <2>4, <3>1
      <3>2. CASE k # L
        <4>1. k \in 1..(L - 1) /\ (k + 1 \in 1..(L - 1) \/ k + 1 = L)
          BY <1>2, <2>2, <3>2
        <4>2. stack'[k + 1].n = stack[k + 1].n
          BY <1>2, <2>1, <2>2, <4>1
        <4>3. QED BY <1>5, <2>2, <2>4, <4>1, <4>2
      <3>3. QED BY <3>1, <3>2
    <2>5. QED BY <1>3, <1>4, <2>1, <2>2, <2>4, OrderedAfter
  <1>8. CASE Descends
    <2>1. PICK e \in Frames, m \in Nodes :
            /\ CallFrom(e, m) /\ e.n = Me
            /\ FrameOK([e EXCEPT !.m = m])' /\ HasCalled([e EXCEPT !.m = m])'
      BY <1>8 DEF Descends
    <2>2. PICK g \in Frames : g = [e EXCEPT !.m = m]
      BY <2>1 DEF Frames
    <2>3. PICK h \in Frames : h = Frame(m, e.now)
      BY <2>1 DEF Frames, Frame
    <2>4. /\ stack' \in Seq(Frames) /\ Len(stack') = L + 1
          /\ stack'[L] = g /\ stack'[L + 1] = h
          /\ \A k \in 1..(L - 1) : stack'[k] = stack[k]
      BY <1>2, <2>1, <2>2, <2>3, Called
    <2>5. FrameOK(g)' /\ HasCalled(g)' /\ g.n = Me /\ g.m = m
      BY <2>1, <2>2 DEF Frames
    <2>6. FrameOK(h)' /\ h.n = m
      BY <2>3 DEF Frame, FrameOK
    <2>7. ASSUME NEW k \in DOMAIN stack', NEW f \in Frames, f = stack'[k]
          PROVE  FrameOK(f)' /\ (k < Len(stack') => HasCalled(f)' /\ f.m = stack'[k + 1].n)
      <3>1. CASE k = L + 1
        BY <1>2, <2>4, <2>6, <2>7, <3>1
      <3>2. CASE k = L
        BY <1>2, <2>4, <2>5, <2>6, <2>7, <3>2
      <3>3. CASE k # L /\ k # L + 1
        <4>1. k \in 1..(L - 1) /\ (k + 1 \in 1..(L - 1) \/ k + 1 = L)
          BY <1>2, <2>4, <3>3
        <4>2. stack'[k + 1].n = stack[k + 1].n
          BY <1>2, <2>4, <2>5, <4>1
        <4>3. QED BY <1>5, <2>4, <2>7, <4>1, <4>2
      <3>4. QED BY <3>1, <3>2, <3>3
    <2>8. ret' = "none"
      BY <2>1 DEF CallFrom
    <2>9. QED BY <1>3, <1>4, <2>4, <2>7, <2>8, OrderedAfter
  <1>9. QED BY <1>6, <1>7, <1>8 DEF StaticStep

(* Seen in the state after a step, frame by frame. *)
LEMMA SeenAfter ==
    ASSUME NEW T, stack' \in Seq(Frames),
           \A n \in T : /\ Settled(n)'
                        /\ \/ /\ phase' # "cleanUp"
                              /\ \E k \in DOMAIN stack' :
                                   stack'[k].n = n /\ stack'[k].pc # "entry"
                           \/ Edges(n)' \subseteq T
           ,
           \A n \in Nodes : ~IsDelay(n)' /\ node'[n].last = Stamp' => n \in T,
           \A k \in DOMAIN stack' : \A f \in Frames : f = stack'[k] => FrameIn(T, f)',
           ret' # "none" /\ stack' # <<>> => stack'[Len(stack')].m \in T,
           \A i \in DOMAIN todo' : todo'[i] \in T
    PROVE  Seen(T)'
  <1>1. ASSUME NEW k \in DOMAIN stack' PROVE FrameIn(T, stack[k])'
    <2>1. PICK f \in Frames : f = stack'[k]
      OBVIOUS
    <2>2. FrameIn(T, f)'
      BY <2>1
    <2>3. QED BY <2>1, <2>2 DEF FrameIn
  <1>2. \A n \in T : Closed(T, n)'
    BY DEF Closed, Open
  <1>3. QED BY <1>1, <1>2 DEF Seen, Returned, Top

(* A module that has called all it calls, or is up to date. *)
LEMMA EndsIn ==
    ASSUME IInv, Ordered, NEW S, Seen(S), StaticStep, Ends
    PROVE  Me \in S /\ (Top.pc # "entry" => Edges(Me) \subseteq S)
  <1>1. /\ stack # <<>> /\ Still /\ stack \in Seq(Frames) /\ Len(stack) \in DOMAIN stack
        /\ Top = stack[Len(stack)] /\ Me = Top.n
    BY Popped DEF StaticStep, IInv, TypeOK, Top, Me
  <1>2. Known /\ FrameOK(Top) /\ FrameIn(S, Top)
    BY <1>1, StampIs DEF Ordered, Seen
  <1>3. CASE Top.pc = "entry"
    <2>1. ~IsDelay(Me) /\ (node[Me].flipping \/ node[Me].last = Stamp)
      BY <1>3 DEF Ends, Ready, Self
    <2>2. ASSUME node[Me].flipping PROVE Me \in S
      <3>1. PICK k \in DOMAIN stack : Updating(k) /\ stack[k].n = Me
        BY <1>2, <2>2 DEF IInv, FlippingOnStack, Known
      <3>2. FrameIn(S, stack[k])
        BY <3>1 DEF Seen
      <3>3. QED BY <3>1, <3>2 DEF FrameIn, Updating
    <2>3. Me \in S
      BY <1>2, <2>1, <2>2 DEF Seen, Known
    <2>4. QED BY <1>3, <2>3
  <1>4. CASE Top.pc = "minors"
    <2>1. Top.i > Len(Self.minors) /\ Me \in S /\ ~IsDelay(Me)
      BY <1>1, <1>2, <1>4 DEF Ends, FrameIn, Known, Placed, IsDelay
    <2>2. \A j \in 1..(Top.i - 1) : Self.minors[j] \in S
      BY <1>1, <1>2, <1>4 DEF FrameIn, Self
    <2>3. Self.minors \in Seq(Nodes) /\ Top.i \in Nat /\ Self = node[Me]
      BY <1>2 DEF Known, States, Frames
    <2>4. \A j \in DOMAIN Self.minors : Self.minors[j] \in S
      BY <2>1, <2>2, <2>3
    <2>5. QED BY <2>1, <2>3, <2>4 DEF Edges
  <1>5. CASE Top.pc \in {"delay", "first"}
    <2>1. Returned /\ IsDelay(Me) /\ Top.m = node[Me].p /\ Me \in S
      BY <1>1, <1>2, <1>5 DEF Ends, FrameOK, FrameIn, Known, Placed, IsDelay
    <2>2. Top.m \in S
      BY <1>1, <2>1 DEF Seen
    <2>3. QED BY <2>1, <2>2 DEF Edges
  <1>6. QED BY <1>2, <1>3, <1>4, <1>5 DEF FrameOK

(* The modules that update() has been to are closed after a step, too.     *)
LEMMA StepSeen ==
    ASSUME IInv, Ordered, NEW S \in SUBSET Nodes, Seen(S), StaticStep
    PROVE  \E T \in SUBSET Nodes : Seen(T)'
  <1> DEFINE L == Len(stack)
  <1>1. PICK new \in States : Lasting(new)
    BY DEF StaticStep
  <1>2. /\ stack # <<>> /\ Still /\ stack \in Seq(Frames) /\ L \in Nat \ {0}
        /\ Top = stack[L] /\ Me = Top.n /\ Top \in Frames /\ L \in DOMAIN stack
    BY Popped DEF StaticStep, IInv, TypeOK, Top, Me
  <1>3. /\ Stamp' = Stamp /\ Top.now = Stamp /\ phase' = phase /\ Self = node[Me]
        /\ Me \in Nodes /\ Self.minors \in Seq(Nodes)
    BY <1>2, StampIs DEF Still, Known, States
  <1>4. \A n \in Nodes : node'[n] = IF n = Me THEN new ELSE node[n]
    BY <1>1, <1>3 DEF Lasting, IInv, TypeOK
  <1>5. \A n \in Nodes : /\ Settled(n) => Settled(n)'
                         /\ Edges(n)' \subseteq Edges(n)
                         /\ IsDelay(n) <=> IsDelay(n)'
    BY <1>1, <1>2, Lasts
  <1>6. FrameOK(Top) /\ FrameIn(S, Top)
    BY <1>2 DEF Ordered, Seen
  <1>7. PICK me \in Nodes : me = Me
    BY <1>3
  <1>8. PICK T \in SUBSET Nodes :
          T = IF Top.pc = "entry" /\ Ends THEN S ELSE S \cup {me}
    OBVIOUS
  <1>9. S \subseteq T /\ me \in T
    BY <1>7, <1>8, EndsIn
  <1>10. \A k \in 1..(L - 1) : \A f \in Frames : f = stack[k] => FrameIn(T, f)'
    <2>1. ASSUME NEW k \in 1..(L - 1), NEW f \in Frames, f = stack[k]
          PROVE  FrameIn(T, f)'
      <3>1. k \in DOMAIN stack
        BY <1>2
      <3>2. FrameOK(f) /\ HasCalled(f) /\ FrameIn(S, f)
        BY <2>1, <3>1 DEF Ordered, Seen
      <3>3. f.pc = "minors" => node'[f.n].minors = node[f.n].minors
        BY <1>1, <1>2, <2>1, <3>2, BelowKept
      <3>4. QED BY <1>3, <1>9, <3>2, <3>3 DEF FrameIn
    <2>2. QED BY <2>1
  <1>11. \A n \in Nodes : ~IsDelay(n)' /\ node'[n].last = Stamp' => n \in T
    <2>1. ASSUME NEW n \in Nodes, ~IsDelay(n)', node'[n].last = Stamp' PROVE n \in T
      <3>1. CASE n = me
        BY <1>9, <3>1
      <3>2. CASE n # me
        <4>1. ~IsDelay(n) /\ node[n].last = Stamp
          BY <1>3, <1>4, <1>5, <1>7, <2>1, <3>2
        <4>2. QED BY <1>9, <4>1 DEF Seen
      <3>3. QED BY <3>1, <3>2
    <2>2. QED BY <2>1
  <1>12. \A i \in DOMAIN todo' : todo'[i] \in T
    <2>1. todo' = todo \/ todo' = Append(todo, me)
      BY <1>7 DEF StaticStep
    <2>2. todo \in Seq(Nodes) /\ \A i \in DOMAIN todo : todo[i] \in T
      BY <1>9 DEF Seen, IInv, TypeOK
    <2>3. QED BY <1>9, <2>1, <2>2
  <1>13. \A n \in T : Settled(n)'
    <2>1. ASSUME me \notin S PROVE Settled(me)'
      <3>1. ~Ends
        BY <1>7, <2>1, EndsIn
      <3>2. CASE Proceeds
        <4>1. ~IsDelay(me)'
          BY <1>5, <1>7, <3>2 DEF Proceeds
        <4>2. QED BY <4>1 DEF Settled
      <3>3. CASE Descends
        BY <1>7, <3>3 DEF Descends
      <3>4. QED BY <3>1, <3>2, <3>3 DEF StaticStep
    <2>2. QED BY <1>5, <1>8, <2>1 DEF Seen
  <1>14. phase = "cleanUp" => \A n \in S : Edges(n) \subseteq S
    BY DEF Seen, Closed
  <1>15. phase = "cleanUp" => me \in S
    BY <1>6, <1>7, <1>2 DEF FrameIn
  <1>16. ASSUME NEW n \in S, n # me, 
                \A k \in 1..(L - 1) : k \in DOMAIN stack' /\ stack'[k] = stack[k]
         PROVE  \/ /\ phase' # "cleanUp"
                   /\ \E k \in DOMAIN stack' : stack'[k].n = n /\ stack'[k].pc # "entry"
                \/ Edges(n)' \subseteq T
    <2>1. CASE Open(n) /\ phase # "cleanUp"
      <3>1. PICK k \in DOMAIN stack : stack[k].n = n /\ stack[k].pc # "entry"
        BY <2>1 DEF Open
      <3>2. k \in 1..(L - 1)
        BY <1>2, <1>7, <1>16, <3>1
      <3>3. QED BY <1>3, <1>16, <2>1, <3>1, <3>2
    <2>2. CASE Edges(n) \subseteq S
      BY <1>5, <1>9, <2>2
    <2>3. QED BY <2>1, <2>2 DEF Seen, Closed
  <1>17. CASE Ends
    <2>1. PICK answer \in {"yes", "no"} : Return(answer)
      BY <1>17 DEF Ends
    <2>2. /\ stack' \in Seq(Frames) /\ Len(stack') = L - 1
          /\ \A k \in 1..(L - 1) : stack'[k] = stack[k]
      BY <1>2, <2>1, Popped DEF Return
    <2>3. \A n \in T : \/ /\ phase' # "cleanUp"
                          /\ \E k \in DOMAIN stack' :
                               stack'[k].n = n /\ stack'[k].pc # "entry"
                       \/ Edges(n)' \subseteq T
      <3>1. \A k \in 1..(L - 1) : k \in DOMAIN stack' /\ stack'[k] = stack[k]
        BY <1>2, <2>2
      <3>2. T = S
        BY <1>7, <1>8, <1>17, EndsIn
      <3>3. CASE Top.pc # "entry"
        <4>1. Edges(me)' \subseteq T
          BY <1>5, <1>7, <1>17, <3>2, <3>3, EndsIn
        <4>2. QED BY <1>16, <3>1, <3>2, <4>1
      <3>4. CASE Top.pc = "entry"
        <4>1. ASSUME Open(me), phase # "cleanUp"
              PROVE  \E k \in DOMAIN stack' : stack'[k].n = me /\ stack'[k].pc # "entry"
          <5>1. PICK k \in DOMAIN stack : stack[k].n = me /\ stack[k].pc # "entry"
            BY <4>1 DEF Open
          <5>2. k \in 1..(L - 1)
            BY <1>2, <3>4, <5>1
          <5>3. QED BY <3>1, <5>1, <5>2
        <4>2. (Open(me) /\ phase # "cleanUp") \/ Edges(me)' \subseteq T
          BY <1>5, <1>7, <1>9, <3>2 DEF Seen, Closed
        <4>3. QED BY <1>3, <1>16, <3>1, <3>2, <4>1, <4>2
      <3>5. QED BY <3>3, <3>4
    <2>4. \A k \in DOMAIN stack' : \A f \in Frames : f = stack'[k] => FrameIn(T, f)'
      BY <1>10, <2>2
    <2>5. stack' # <<>> => stack'[Len(stack')].m \in T
      <3>1. ASSUME stack' # <<>> PROVE stack'[Len(stack')].m = Me
        <4>1. L - 1 \in 1..(L - 1) /\ L - 1 + 1 = L
          BY <1>2, <2>2, <3>1
        <4>2. stack[L - 1].m = stack[L - 1 + 1].n
          BY <4>1 DEF Ordered
        <4>3. QED BY <1>2, <2>2, <4>1, <4>2
      <3>2. QED BY <1>7, <1>9, <3>1
    <2>6. QED BY <1>11, <1>12, <1>13, <2>2, <2>3, <2>4, <2>5, SeenAfter
  <1>18. CASE Proceeds
    <2>1. PICK g \in Frames :
            /\ Goto(g) /\ ret' = "none" /\ g.n = Me /\ g.pc = "minors" /\ ~IsDelay(Me)
            /\ \/ Top.pc = "entry" /\ g.i = 1
               \/ Top.pc = "minors" /\ Returned /\ g.i = Top.i + 1
      BY <1>18 DEF Proceeds
    <2>2. /\ stack' \in Seq(Frames) /\ Len(stack') = L /\ stack'[L] = g
          /\ \A k \in 1..(L - 1) : stack'[k] = stack[k]
      BY <1>2, <2>1, Gone
    <2>3. /\ \A k \in 1..(L - 1) : k \in DOMAIN stack' /\ stack'[k] = stack[k]
          /\ L \in DOMAIN stack'
      BY <1>2, <2>2
    <2>4. \A n \in T : \/ /\ phase' # "cleanUp"
                          /\ \E k \in DOMAIN stack' :
                               stack'[k].n = n /\ stack'[k].pc # "entry"
                       \/ Edges(n)' \subseteq T
      <3>1. phase = "cleanUp" => Edges(me)' \subseteq T
        BY <1>5, <1>9, <1>14, <1>15
      <3>2. stack'[L].n = me /\ stack'[L].pc # "entry"
        BY <1>7, <2>1, <2>2
      <3>3. QED BY <1>3, <1>8, <1>16, <2>3, <3>1, <3>2
    <2>5. FrameIn(T, g)'
      <3>1. CASE Top.pc = "entry"
        BY <1>7, <1>9, <2>1, <3>1 DEF FrameIn
      <3>2. CASE Top.pc = "minors"
        <4>1. /\ Top.i \in DOMAIN Self.minors /\ Top.m = Self.minors[Top.i]
              /\ Top.m \in S /\ g.i = Top.i + 1
          BY <1>2, <2>1, <3>2 DEF Ordered, HasCalled, Seen, Self, Me
        <4>2. ~(Top.i > Len(Self.minors)) /\ Top.i \in Nat
          BY <1>3, <4>1
        <4>3. node'[Me].minors = Self.minors
          BY <1>1, <1>3, <1>4, <4>2 DEF Lasting
        <4>4. \A j \in 1..(Top.i - 1) : Self.minors[j] \in S
          BY <1>2, <1>6, <3>2 DEF FrameIn, Self
        <4>5. \A j \in 1..(g.i - 1) : j = Top.i \/ j \in 1..(Top.i - 1)
          BY <4>1, <4>2
        <4>6. QED BY <1>7, <1>9, <2>1, <4>1, <4>3, <4>4, <4>5 DEF FrameIn
      <3>3. QED BY <2>1, <3>1, <3>2
    <2>6. \A k \in DOMAIN stack' : \A f \in Frames : f = stack'[k] => FrameIn(T, f)'
      <3>1. \A k \in DOMAIN stack' : k = L \/ k \in 1..(L - 1)
        BY <1>2, <2>2
      <3>2. QED BY <1>10, <2>2, <2>5, <3>1
    <2>7. QED BY <1>11, <1>12, <1>13, <2>1, <2>2, <2>4, <2>6, SeenAfter
  <1>19. CASE Descends
    <2>1. PICK e \in Frames, m \in Nodes :
            /\ CallFrom(e, m) /\ e.n = Me /\ e.pc # "entry"
            /\ HasCalled([e EXCEPT !.m = m])'
            /\ e.pc = "minors" => Top.pc = "minors" /\ e.i = Top.i
            /\ m \in Edges(Me)
      BY <1>19 DEF Descends
    <2>2. PICK g \in Frames : g = [e EXCEPT !.m = m]
      BY <2>1 DEF Frames
    <2>3. PICK h \in Frames : h = Frame(m, e.now)
      BY <2>1 DEF Frames, Frame
    <2>4. /\ stack' \in Seq(Frames) /\ Len(stack') = L + 1
          /\ stack'[L] = g /\ stack'[L + 1] = h
          /\ \A k \in 1..(L - 1) : stack'[k] = stack[k]
      BY <1>2, <2>1, <2>2, <2>3, Called
    <2>5. g.n = Me /\ g.pc = e.pc /\ g.i = e.i /\ g.pc # "entry" /\ HasCalled(g)'
      BY <2>1, <2>2 DEF Frames
    <2>6. /\ \A k \in 1..(L - 1) : k \in DOMAIN stack' /\ stack'[k] = stack[k]
          /\ L \in DOMAIN stack'
      BY <1>2, <2>4
    <2>7. \A n \in T : \/ /\ phase' # "cleanUp"
                          /\ \E k \in DOMAIN stack' :
                               stack'[k].n = n /\ stack'[k].pc # "entry"
                       \/ Edges(n)' \subseteq T
      <3>1. phase = "cleanUp" => Edges(me)' \subseteq T
        BY <1>5, <1>9, <1>14, <1>15
      <3>2. stack'[L].n = me /\ stack'[L].pc # "entry"
        BY <1>7, <2>4, <2>5
      <3>3. QED BY <1>3, <1>8, <1>16, <2>6, <3>1, <3>2
    <2>8. FrameIn(T, g)'
      <3>1. CASE g.pc = "minors"
        <4>1. Top.pc = "minors" /\ g.i = Top.i /\ g.i \in DOMAIN node'[Me].minors
          BY <2>1, <2>5, <3>1 DEF HasCalled
        <4>2. node'[Me].minors = Self.minors
          BY <1>1, <1>3, <1>4, <4>1 DEF Lasting
        <4>3. \A j \in 1..(Top.i - 1) : Self.minors[j] \in S
          BY <1>2, <1>6, <4>1 DEF FrameIn, Self
        <4>4. QED BY <1>7, <1>9, <2>5, <4>1, <4>2, <4>3 DEF FrameIn
      <3>2. CASE g.pc # "minors"
        BY <1>7, <1>9, <2>5, <3>2 DEF FrameIn
      <3>3. QED BY <3>1, <3>2
    <2>9. FrameIn(T, h)'
      <3>1. h.n = m /\ h.pc = "entry"
        BY <2>3 DEF Frame
      <3>2. phase = "cleanUp" => m \in T
        BY <1>7, <1>9, <1>14, <1>15, <2>1
      <3>3. QED BY <1>3, <3>1, <3>2 DEF FrameIn
    <2>10. \A k \in DOMAIN stack' : \A f \in Frames : f = stack'[k] => FrameIn(T, f)'
      <3>1. \A k \in DOMAIN stack' : k = L + 1 \/ k = L \/ k \in 1..(L - 1)
        BY <1>2, <2>4
      <3>2. QED BY <1>10, <2>4, <2>8, <2>9, <3>1
    <2>11. ret' = "none"
      BY <2>1 DEF CallFrom
    <2>12. QED BY <1>11, <1>12, <1>13, <2>4, <2>7, <2>10, <2>11, SeenAfter
  <1>20. QED BY <1>17, <1>18, <1>19 DEF StaticStep

(* What is known of the activation on top, and of the module it is of.     *)
KnownInOrder ==
    /\ Known /\ FrameOK(Top) /\ phase # "idle"
    /\ Stamp' = Stamp /\ Top.now = Stamp
    /\ IF IsDelay(Me) THEN ~Self.flipping /\ Self.p \in Nodes
                      ELSE Self.flipping => Self.last # Stamp
    /\ Top.pc = "minors" => Self.flipping /\ ~IsDelay(Me)
    /\ Top.pc \in {"delay", "first"} => IsDelay(Me) /\ Top.m = Self.p
    /\ Returned => Top.pc # "entry" /\ HasCalled(Top) /\ (ret = "yes" <=> Ready(Top.m))
    /\ phase = "cleanUp" => Settled(Me)

(* It holds whenever the stack is not empty. *)
LEMMA TopInOrder ==
    ASSUME IInv, Visits, stack # <<>>, Still
    PROVE  KnownInOrder
  <1>1. /\ stack \in Seq(Frames) /\ Len(stack) \in DOMAIN stack
        /\ Top = stack[Len(stack)] /\ Me = Top.n
    BY Popped DEF IInv, TypeOK, Top, Me
  <1>2. /\ Known /\ FrameOK(Top) /\ phase # "idle" /\ Stamp' = Stamp /\ Top.now = Stamp
        /\ Self = node[Me] /\ Me \in Nodes
    BY <1>1, StampIs DEF Visits, Ordered, Known
  <1>3. PICK S \in SUBSET Nodes : Seen(S)
    BY DEF Visits
  <1>4. phase = "cleanUp" => Settled(Me)
    <2>1. FrameIn(S, Top)
      BY <1>1, <1>3 DEF Seen
    <2>2. QED BY <1>1, <1>3, <2>1 DEF Seen, FrameIn
  <1>5. IF IsDelay(Me) THEN ~Self.flipping /\ Self.p \in Nodes
                       ELSE Self.flipping => Self.last # Stamp
    <2>1. ~IsDelay(Me) => (Self.flipping => Self.last # Stamp)
      BY <1>2 DEF Visits, Ordered
    <2>2. IsDelay(Me) => Self.p \in Nodes
      BY <1>2 DEF Known, PointersOf, IsDelay
    <2>3. IsDelay(Me) => ~Self.flipping
      BY <1>2 DEF IInv, FlippingOnStack, Updating, IsDelay
    <2>4. QED BY <2>1, <2>2, <2>3
  <1>6. Top.pc = "minors" => Self.flipping /\ ~IsDelay(Me)
    <2>1. Top.pc = "minors" => ~IsDelay(Me)
      BY <1>1, <1>2 DEF Known, Placed, IsDelay
    <2>2. Top.pc = "minors" => Updating(Len(stack))
      BY <1>2, <2>1 DEF Known, IsDelay
    <2>3. Updating(Len(stack)) => node[Me].flipping
      BY <1>1, <1>2 DEF IInv, FlippingOnStack
    <2>4. QED BY <1>2, <2>1, <2>2, <2>3
  <1>7. Top.pc \in {"delay", "first"} => IsDelay(Me) /\ Top.m = Self.p
    BY <1>1, <1>2 DEF Known, Placed, IsDelay, FrameOK
  <1>8. Returned => Top.pc # "entry" /\ HasCalled(Top) /\ (ret = "yes" <=> Ready(Top.m))
    BY DEF Visits, Ordered
  <1>9. QED BY <1>2, <1>4, <1>5, <1>6, <1>7, <1>8 DEF KnownInOrder

(* Compute() of a module that only reads leaves what it depends on, and    *)
(* once() drops it.                                                        *)
LEMMA ComputedLasts ==
    ASSUME Known, NEW new \in Computed
    PROVE  new.p = Self.p /\ new.minors \in {Self.minors, <<>>}
  <1>1. Self \in States
    BY DEF Known
  <1>2. CASE new \in Lifted \cup Sensed
    BY <1>1, <1>2 DEF Lifted, Sensed, States
  <1>3. CASE new \in Stepped \cup Once
    BY <1>1, <1>3 DEF Stepped, Once, States
  <1>4. CASE new \in Previous \cup Snapshot \cup Now
    BY <1>1, <1>4 DEF Previous, Snapshot, Now, States
  <1>5. QED BY <1>2, <1>3, <1>4 DEF Computed

(* A module that is in progress or up to date answers at once.             *)
LEMMA AnswersInOrder ==
    ASSUME TypeOK, KnownInOrder, Flipping \/ Current
    PROVE  StaticStep
  <1>1. /\ stack # <<>> /\ Still /\ node' = node /\ todo' = todo /\ Top.pc = "entry"
        /\ ~IsDelay(Me)
    BY DEF Flipping, Current, At, IsModule, IsDelay
  <1>2. Lasting(Self) /\ Self \in States
    BY <1>1, SelfUnchanged DEF KnownInOrder, Known, Lasting
  <1>3. PICK me \in Nodes : me = Me
    BY DEF KnownInOrder, Known
  <1>4. Ready(me)' <=> Self.last = Stamp
    BY <1>1, <1>3 DEF Ready, IsDelay, Still, KnownInOrder, Known
  <1>5. Ready(Me) <=> Self.last = Stamp
    BY <1>1 DEF Ready, KnownInOrder, Known
  <1>6. CASE Flipping
    <2>1. Return("no") /\ Self.flipping /\ ~Ready(me)'
      BY <1>1, <1>4, <1>6 DEF Flipping, KnownInOrder
    <2>2. Ends
      BY <1>1, <1>3, <2>1 DEF Ends
    <2>3. QED BY <1>1, <1>2, <2>2 DEF StaticStep
  <1>7. CASE Current
    <2>1. Return("yes") /\ Ready(Me) /\ Ready(me)'
      BY <1>1, <1>4, <1>5, <1>7 DEF Current, KnownInOrder
    <2>2. Ends
      BY <1>1, <1>3, <2>1 DEF Ends
    <2>3. QED BY <1>1, <1>2, <2>2 DEF StaticStep
  <1>8. QED BY <1>6, <1>7

(* A module begins to update its dependencies, or goes on to the next one. *)
LEMMA ProceedsInOrder ==
    ASSUME TypeOK, KnownInOrder, Start \/ MinorUpdated
    PROVE  StaticStep
  <1>1. /\ stack # <<>> /\ Still /\ todo' = todo /\ ~IsDelay(Me) /\ ret' = "none"
        /\ Self \in States /\ Top \in Frames
    BY DEF Start, MinorUpdated, At, IsModule, IsDelay, KnownInOrder, Known
  <1>2. CASE Start
    <2> DEFINE new == [Self EXCEPT !.flipping = TRUE, !.updated = TRUE]
               f == [Top EXCEPT !.pc = "minors"]
    <2>1. /\ new \in States /\ new.p = Self.p /\ new.last = Self.last
          /\ new.minors = Self.minors
      BY <1>1 DEF States
    <2>2. node' = [node EXCEPT ![Me] = new]
      BY <1>2 DEF Start, KnownInOrder, Known, Self, TypeOK, States
    <2>3. /\ f \in Frames /\ Goto(f) /\ f.n = Me /\ f.pc = "minors" /\ f.i = 1
          /\ Top.pc = "entry"
      BY <1>1, <1>2 DEF Start, At, Frames, Me, KnownInOrder, FrameOK
    <2>4. new.last # Top.now
      BY <1>2, <2>1 DEF Start
    <2> HIDE DEF new, f
    <2>5. Lasting(new)
      BY <1>1, <2>1, <2>2, <2>4 DEF Lasting
    <2>6. Proceeds
      BY <1>1, <2>3 DEF Proceeds
    <2>7. QED BY <1>1, <2>1, <2>5, <2>6 DEF StaticStep
  <1>3. CASE MinorUpdated
    <2> DEFINE new == [Self EXCEPT !.updated = @ /\ ret = "yes"]
               f == [Top EXCEPT !.i = @ + 1]
    <2>1. /\ new \in States /\ new.p = Self.p /\ new.last = Self.last
          /\ new.minors = Self.minors /\ new.flipping = Self.flipping
      BY <1>1 DEF States
    <2>2. node' = [node EXCEPT ![Me] = new]
      BY <1>3 DEF MinorUpdated, KnownInOrder, Known, Self, TypeOK, States
    <2>3. /\ f \in Frames /\ Goto(f) /\ f.n = Me /\ f.pc = "minors" /\ f.i = Top.i + 1
          /\ Top.pc = "minors" /\ Returned
      BY <1>1, <1>3 DEF MinorUpdated, At, Frames, Me
    <2>4. new.flipping => new.last # Top.now
      BY <1>1, <2>1 DEF KnownInOrder
    <2> HIDE DEF new, f
    <2>5. Lasting(new)
      BY <1>1, <2>1, <2>2, <2>4 DEF Lasting
    <2>6. Proceeds
      BY <1>1, <2>3 DEF Proceeds
    <2>7. QED BY <1>1, <2>1, <2>5, <2>6 DEF StaticStep
  <1>4. QED BY <1>2, <1>3

(* A module updates a dependency. *)
LEMMA UpdateMinorInOrder ==
    ASSUME TypeOK, KnownInOrder, UpdateMinor
    PROVE  StaticStep
  <1>1. /\ stack # <<>> /\ Still /\ todo' = todo /\ node' = node /\ ~IsDelay(Me)
        /\ Self \in States /\ Top \in Frames /\ Self = node[Me] /\ net' = net
        /\ Top.pc = "minors" /\ Top.i <= Len(Self.minors) /\ Top.i >= 1
    BY DEF UpdateMinor, At, Still, KnownInOrder, Known, Placed
  <1>2. Top.i \in DOMAIN Self.minors /\ Self.minors[Top.i] \in Nodes
    BY <1>1 DEF States, Frames
  <1> PICK m \in Nodes, f \in Frames : m = Self.minors[Top.i] /\ f = Top
    BY <1>1, <1>2
  <1> DEFINE g == [f EXCEPT !.m = m]
  <1>3. Lasting(Self)
    BY <1>1, SelfUnchanged DEF KnownInOrder, Known, Lasting
  <1>4. CallFrom(f, m) /\ f.n = Me /\ f.pc = "minors" /\ f.i = Top.i
    BY <1>1 DEF UpdateMinor, Me
  <1>5. /\ g.pc = "minors" /\ g.n = Me /\ g.i = Top.i /\ g.m = m
    BY <1>1 DEF Frames, Me
  <1>6. FrameOK(g)'
    BY <1>5 DEF FrameOK
  <1>7. HasCalled(g)'
    BY <1>1, <1>2, <1>5 DEF HasCalled
  <1>8. m \in Edges(Me)
    BY <1>1, <1>2 DEF Edges
  <1>9. \A me \in {Me} : Settled(me)'
    BY <1>1 DEF Settled, IsDelay
  <1>10. Descends
    BY <1>1, <1>4, <1>6, <1>7, <1>8, <1>9 DEF Descends
  <1>11. QED BY <1>1, <1>3, <1>10 DEF StaticStep

(* A module ends, without or with a new value. *)
LEMMA EndsInOrder ==
    ASSUME TypeOK, KnownInOrder, NotUpdated \/ Compute
    PROVE  StaticStep
  <1>1. /\ stack # <<>> /\ Still /\ todo' = todo /\ ~IsDelay(Me) /\ Self.flipping
        /\ Self \in States /\ Self = node[Me] /\ net' = net /\ Me \in Nodes
        /\ Top.pc = "minors" /\ Top.i > Len(Self.minors) /\ Top.now \in Nat
        /\ Top.now = Stamp /\ Stamp' = Stamp
    BY DEF NotUpdated, Compute, MinorsDone, At, Still, KnownInOrder, Known, Frames
  <1>2. PICK me \in Nodes : me = Me
    BY <1>1
  <1>3. Ready(me)' <=> node'[me].last = Stamp
    BY <1>1, <1>2 DEF Ready, IsDelay
  <1>4. CASE NotUpdated
    <2> DEFINE new == [Self EXCEPT !.flipping = FALSE]
    <2>1. /\ new \in States /\ new.p = Self.p /\ new.last = Self.last
          /\ new.minors = Self.minors /\ ~new.flipping
      BY <1>1 DEF States
    <2>2. node' = [node EXCEPT ![Me] = new]
      BY <1>1, <1>4 DEF NotUpdated, TypeOK, States
    <2> HIDE DEF new
    <2>3. Lasting(new)
      BY <1>1, <2>1, <2>2 DEF Lasting
    <2>4. node'[me].last # Stamp
      BY <1>1, <1>2, <2>1, <2>2 DEF KnownInOrder, TypeOK
    <2>5. Ends
      BY <1>1, <1>2, <1>3, <1>4, <2>4 DEF Ends, NotUpdated
    <2>6. QED BY <1>1, <2>1, <2>3, <2>5 DEF StaticStep
  <1>5. CASE Compute
    <2>1. PICK old \in Computed :
            node' = [node EXCEPT ![Me] =
                       [old EXCEPT !.last = Top.now, !.flipping = FALSE]]
      BY <1>5 DEF Compute
    <2>2. old \in States /\ old.p = Self.p /\ old.minors \in {Self.minors, <<>>}
      BY ComputedTyped, ComputedLasts DEF KnownInOrder
    <2> DEFINE new == [old EXCEPT !.last = Top.now, !.flipping = FALSE]
    <2>3. /\ new \in States /\ new.p = Self.p /\ new.last = Top.now
          /\ new.minors \in {Self.minors, <<>>} /\ ~new.flipping
      BY <1>1, <2>2 DEF States
    <2>4. node' = [node EXCEPT ![Me] = new]
      BY <2>1
    <2> HIDE DEF new
    <2>5. Lasting(new)
      BY <1>1, <2>3, <2>4 DEF Lasting
    <2>6. node'[me].last = Stamp
      BY <1>1, <1>2, <2>3, <2>4 DEF TypeOK
    <2>7. Ends
      BY <1>1, <1>2, <1>3, <1>5, <2>6 DEF Ends, Compute
    <2>8. QED BY <1>1, <2>3, <2>5, <2>7 DEF StaticStep
  <1>6. QED BY <1>4, <1>5

(* A delay steps and calls its input.  In clean_up() it has stepped before, *)
(* or its input is up to date.                                             *)
LEMMA EnterDelayInOrder ==
    ASSUME IInv, KnownInOrder, EnterDelay
    PROVE  StaticStep
  <1>1. /\ stack # <<>> /\ Still /\ todo' = todo /\ IsDelay(Me) /\ ~Self.flipping
        /\ Self \in States /\ Self = node[Me] /\ net' = net /\ Me \in Nodes
        /\ Top.pc = "entry" /\ Top \in Frames /\ Self.p \in Nodes
        /\ Top.now = Stamp /\ Stamp' = Stamp /\ phase' = phase
        /\ net.kind[Me] = "delay1" => ~Self.first
    BY DEF EnterDelay, MyKind, At, Still, KnownInOrder, Known, IsDelay
  <1> DEFINE new == IF Self.last = Top.now THEN [Self EXCEPT !.updated = TRUE]
                    ELSE [Self EXCEPT !.value = Self.prefetch,
                                      !.last = Top.now, !.updated = FALSE]
  <1>2. /\ new \in States /\ new.p = Self.p /\ new.last = Top.now /\ ~new.flipping
        /\ new.minors = Self.minors /\ new.first = Self.first
        /\ new.updated <=> Self.last = Stamp
    BY <1>1 DEF States, Frames
  <1> PICK p \in Nodes, f \in Frames :
         p = Self.p /\ f = [Top EXCEPT !.pc = "delay", !.flag = new.updated]
    BY <1>1, <1>2 DEF Frames, States
  <1> DEFINE g == [f EXCEPT !.m = p]
  <1>3. node' = [node EXCEPT ![Me] = new] /\ CallFrom(f, p)
    BY <1>1 DEF EnterDelay
  <1>4. phase = "cleanUp" => Self.last = Stamp \/ Ready(Self.p)
    BY <1>1 DEF KnownInOrder, Settled
  <1>5. /\ f.n = Me /\ f.pc = "delay" /\ g.n = Me /\ g.pc = "delay"
        /\ g.m = p /\ g.flag = new.updated
    BY <1>1, <1>2 DEF Frames, States, Me
  <1> HIDE DEF new
  <1>6. Lasting(new)
    BY <1>1, <1>2, <1>3, <1>4 DEF Lasting
  <1>7. node'[Me] = new
    BY <1>1, <1>3 DEF IInv, TypeOK
  <1>8. Ready(p) => Ready(p)'
    BY <1>1, <1>2, <1>6, Lasts
  <1>9. FrameOK(g)'
    <2>1. node'[g.n].last = Stamp' /\ g.m = node'[g.n].p
      BY <1>1, <1>2, <1>5, <1>7
    <2>2. Ready(g.n)'
      BY <1>1, <1>2, <1>5, <1>7 DEF Ready, IsDelay
    <2>3. phase' = "cleanUp" => Ready(g.m)' \/ (g.flag /\ node'[g.n].updated)
      <3>1. g.m = p
        BY <1>5
      <3>2. phase' = "cleanUp" => Ready(p)' \/ (g.flag /\ node'[g.n].updated)
        BY <1>1, <1>2, <1>4, <1>5, <1>7, <1>8
      <3> HIDE DEF g
      <3>3. QED BY <3>1, <3>2
    <2> HIDE DEF g
    <2>4. g.pc = "delay"
      BY <1>5
    <2>5. QED BY <2>1, <2>2, <2>3, <2>4 DEF FrameOK
  <1>10. HasCalled(g)'
    BY <1>5 DEF HasCalled
  <1>11. p \in Edges(Me)
    BY <1>1 DEF Edges
  <1>12. \A me \in {Me} : Settled(me)'
    BY <1>1, <1>2, <1>7 DEF Settled
  <1>13. Descends
    BY <1>1, <1>3, <1>5, <1>9, <1>10, <1>11, <1>12 DEF Descends
  <1>14. QED BY <1>1, <1>2, <1>6, <1>13 DEF StaticStep

(* A delay ends.  In clean_up() it does not wait again.                    *)
LEMMA DelayUpdatedInOrder ==
    ASSUME IInv, KnownInOrder, DelayUpdated
    PROVE  StaticStep
  <1>1. /\ stack # <<>> /\ Still /\ IsDelay(Me) /\ ~Self.flipping /\ Returned
        /\ Self \in States /\ Self = node[Me] /\ net' = net /\ Me \in Nodes
        /\ Top.pc = "delay" /\ Top.m = Self.p /\ Self.p \in Nodes
        /\ (ret = "yes" <=> Ready(Top.m)) /\ Me = Top.n
    BY DEF DelayUpdated, At, Still, KnownInOrder, Known, Me
  <1>2. Ready(Me) /\ (phase = "cleanUp" => Ready(Self.p) \/ (Top.flag /\ Self.updated))
    BY <1>1 DEF KnownInOrder, FrameOK
  <1> DEFINE updated == ret = "yes" \/ (IF net.late THEN Self.updated ELSE Top.flag)
             new == [Self EXCEPT !.updated = updated,
                                 !.prefetch = IF updated THEN Val(Self.p) ELSE @]
  <1>3. phase = "cleanUp" => updated
    BY <1>1, <1>2
  <1>4. updated \in BOOLEAN
    BY DEF KnownInOrder, Known, Frames, States, WellFormed
  <1>5. Val(Self.p) \in Values
    BY <1>1 DEF Val, IInv, TypeOK, States
  <1>6. node' = [node EXCEPT ![Me] = new]
    BY <1>1 DEF DelayUpdated, IInv, TypeOK, States
  <1>7. todo' = todo \/ (todo' = Append(todo, Me) /\ ~updated)
    BY DEF DelayUpdated
  <1> HIDE DEF updated
  <1>8. /\ new \in States /\ new.p = Self.p /\ new.last = Self.last /\ ~new.flipping
        /\ new.minors = Self.minors /\ new.first = Self.first /\ new.updated = updated
    BY <1>1, <1>4, <1>5 DEF States
  <1> HIDE DEF new
  <1>9. Lasting(new)
    BY <1>1, <1>3, <1>6, <1>8 DEF Lasting
  <1>10. \A me \in {Me} : Ready(me)'
    BY <1>1, <1>2, <1>8, <1>9, Lasts
  <1>11. Ends
    BY <1>1, <1>10 DEF Ends, DelayUpdated
  <1>12. QED BY <1>1, <1>3, <1>7, <1>8, <1>9, <1>11 DEF StaticStep

(* Delay1 before it has a value calls its input. *)
LEMMA EnterDelay1InOrder ==
    ASSUME IInv, KnownInOrder, EnterDelay1
    PROVE  StaticStep
  <1>1. /\ stack # <<>> /\ Still /\ todo' = todo /\ node' = node /\ IsDelay(Me)
        /\ Self \in States /\ Self = node[Me] /\ net' = net /\ Me \in Nodes
        /\ Top.pc = "entry" /\ Top \in Frames /\ Self.p \in Nodes
        /\ net.kind[Me] = "delay1" /\ Self.first /\ ~Self.flipping
    BY DEF EnterDelay1, MyKind, At, Still, KnownInOrder, Known, IsDelay, Delays
  <1> PICK p \in Nodes, f \in Frames : p = Self.p /\ f = [Top EXCEPT !.pc = "first"]
    BY <1>1 DEF Frames
  <1> DEFINE g == [f EXCEPT !.m = p]
  <1>2. Lasting(Self)
    BY <1>1, SelfUnchanged DEF KnownInOrder, Known, Lasting, IInv
  <1>3. CallFrom(f, p)
    BY DEF EnterDelay1
  <1>4. f.n = Me /\ f.pc = "first" /\ g.n = Me /\ g.pc = "first" /\ g.m = p
    BY <1>1 DEF Frames, Me
  <1>5. FrameOK(g)'
    <2>1. ~Ready(g.n)' /\ net'.kind[g.n] = "delay1" /\ g.m = node'[g.n].p
      BY <1>1, <1>4 DEF Ready, IsDelay
    <2> HIDE DEF g
    <2>2. QED BY <1>4, <2>1 DEF FrameOK
  <1>6. HasCalled(g)'
    BY <1>4 DEF HasCalled
  <1>7. p \in Edges(Me)
    BY <1>1 DEF Edges
  <1>8. \A me \in {Me} : Settled(me)'
    BY <1>1 DEF Settled
  <1>9. Descends
    BY <1>1, <1>3, <1>4, <1>5, <1>6, <1>7, <1>8 DEF Descends
  <1>10. QED BY <1>1, <1>2, <1>9 DEF StaticStep

(* Its first value, when the input has one. *)
LEMMA FirstUpdatedInOrder ==
    ASSUME IInv, KnownInOrder, FirstUpdated
    PROVE  StaticStep
  <1>1. /\ stack # <<>> /\ Still /\ todo' = todo /\ IsDelay(Me) /\ ~Self.flipping
        /\ Self \in States /\ Self = node[Me] /\ net' = net /\ Me \in Nodes
        /\ Top.pc = "first" /\ Top.m = Self.p /\ Self.p \in Nodes /\ Returned
        /\ (ret = "yes" <=> Ready(Self.p)) /\ Me = Top.n
    BY DEF FirstUpdated, At, Still, KnownInOrder, Known, Me
  <1>2. net.kind[Me] = "delay1" /\ (Ready(Me) => Ready(Self.p))
    BY <1>1 DEF KnownInOrder, FrameOK
  <1> DEFINE new == IF ret = "yes"
                      THEN [Self EXCEPT !.updated = TRUE, !.value = Val(Self.p),
                                        !.prefetch = Val(Self.p), !.first = FALSE]
                      ELSE [Self EXCEPT !.updated = FALSE]
  <1>3. Val(Self.p) \in Values
    BY <1>1 DEF Val, IInv, TypeOK, States
  <1>4. node' = [node EXCEPT ![Me] = new]
    BY DEF FirstUpdated
  <1>5. /\ new \in States /\ new.p = Self.p /\ new.last = Self.last /\ ~new.flipping
        /\ new.minors = Self.minors
        /\ new.first = IF ret = "yes" THEN FALSE ELSE Self.first
    <2> HIDE DEF Val, Self
    <2>1. QED BY <1>1, <1>3 DEF States
  <1> HIDE DEF new
  <1>6. Lasting(new)
    BY <1>1, <1>2, <1>4, <1>5 DEF Lasting
  <1>7. node'[Me] = new /\ ret \in {"yes", "no"}
    BY <1>1, <1>4 DEF IInv, TypeOK, Returned
  <1>8. \A me \in {Me} : ret = "yes" <=> Ready(me)'
    <2>1. ret # "yes" => Self.first
      BY <1>1, <1>2 DEF Ready
    <2>2. QED BY <1>1, <1>2, <1>5, <1>7, <2>1 DEF Ready, IsDelay
  <1>9. Ends
    BY <1>1, <1>7, <1>8 DEF Ends, FirstUpdated
  <1>10. QED BY <1>1, <1>5, <1>6, <1>9 DEF StaticStep

(* All of update() consists of such steps, without switches and tasks.     *)
LEMMA UpdateInOrder ==
    ASSUME IInv, Visits, Static, Update
    PROVE  StaticStep
  <1>1. stack # <<>> /\ Still
    BY DEF Update, Flipping, Current, Start, UpdateMinor, MinorUpdated,
           NotUpdated, Compute, ComputeSwitch, ComputeReplaced, ComputeTask,
           EventUpdated, LoopAgain, LoopDone, UnderUpdated, EnterDelay,
           DelayUpdated, EnterDelay1, FirstUpdated, MinorsDone, At
  <1>2. KnownInOrder /\ TypeOK
    BY <1>1, TopInOrder DEF IInv
  <1>3. MyKind \notin Switches \cup Tasks
    BY <1>2 DEF Static, MyKind, KnownInOrder, Known
  <1>4. ~(ComputeSwitch \/ ComputeReplaced \/ ComputeTask)
    BY <1>3 DEF ComputeSwitch, ComputeReplaced, ComputeTask, Tasks
  <1>5. ~(EventUpdated \/ LoopAgain \/ LoopDone \/ UnderUpdated)
    BY <1>2 DEF EventUpdated, LoopAgain, LoopDone, UnderUpdated, At, KnownInOrder,
                FrameOK
  <1>6. QED
    BY <1>2, <1>4, <1>5, AnswersInOrder, ProceedsInOrder, UpdateMinorInOrder,
       EndsInOrder, EnterDelayInOrder, DelayUpdatedInOrder, EnterDelay1InOrder,
       FirstUpdatedInOrder DEF Update

(* The client's side of next() keeps what was visited for the sample.      *)
LEMMA ClientKeepsVisits ==
    ASSUME IInv, Visits, UNCHANGED <<net, node>>, stack = <<>>, Stamp' = Stamp,
           ret' = "none", todo' \in {todo, <<>>},
           \/ stack' = <<>>
           \/ \E n \in Nodes, now \in Nat :
                /\ stack' = <<Frame(n, now)>> /\ phase' # "idle"
                /\ phase' = "cleanUp" => \E i \in DOMAIN todo : n = todo[i]
    PROVE  Visits'
  <1>1. net' = net /\ node' = node
    OBVIOUS
  <1>2. PICK S \in SUBSET Nodes : Seen(S)
    BY DEF Visits
  <1>3. \A n \in S : Settled(n)' /\ Edges(n)' \subseteq S
    <2>1. \A n \in S : Settled(n) /\ Edges(n) \subseteq S
      BY <1>2 DEF Seen, Closed, Open
    <2>2. QED BY <1>1, <2>1 DEF Settled, Edges, Ready, IsDelay
  <1>4. \A n \in Nodes : ~IsDelay(n)' /\ node'[n].last = Stamp' => n \in S
    BY <1>1, <1>2 DEF Seen, IsDelay
  <1>5. \A i \in DOMAIN todo' : todo'[i] \in S
    BY <1>2 DEF Seen
  <1>6. \A n \in Nodes : node'[n].flipping => node'[n].last # Stamp'
    BY <1>1 DEF Visits, Ordered
  <1>7. CASE stack' = <<>>
    <2>1. DOMAIN stack' = {} /\ stack' \in Seq(Frames) /\ 1..(Len(stack') - 1) = {}
      BY <1>7
    <2>2. Ordered'
      BY <1>6, <1>7, <2>1 DEF Ordered
    <2>3. Seen(S)'
      BY <1>3, <1>4, <1>5, <1>7, <2>1, SeenAfter
    <2>4. QED BY <2>2, <2>3 DEF Visits
  <1>8. ASSUME NEW n \in Nodes, NEW now \in Nat,
               stack' = <<Frame(n, now)>>, phase' # "idle",
               phase' = "cleanUp" => \E i \in DOMAIN todo : n = todo[i]
        PROVE  Visits'
    <2>1. PICK f \in Frames : f = Frame(n, now)
      BY DEF Frames, Frame
    <2>2. /\ stack' \in Seq(Frames) /\ DOMAIN stack' = {1} /\ Len(stack') = 1
          /\ stack'[1] = f /\ f.pc = "entry" /\ f.i = 1 /\ f.n = n
      BY <1>8, <2>1 DEF Frame
    <2>3. FrameOK(f)'
      BY <2>2 DEF FrameOK
    <2>4. Ordered'
      BY <1>6, <1>8, <2>2, <2>3, OrderedAfter
    <2>5. phase' = "cleanUp" => n \in S
      BY <1>2, <1>8 DEF Seen
    <2>6. FrameIn(S, f)'
      BY <2>2, <2>5 DEF FrameIn
    <2>7. Seen(S)'
      BY <1>3, <1>4, <1>5, <2>2, <2>6, SeenAfter
    <2>8. QED BY <2>4, <2>7 DEF Visits
  <1>9. QED BY <1>7, <1>8

(* Every step of such a network keeps it. *)
LEMMA NextKeepsVisits ==
    ASSUME IInv, Visits, Static, [Next]_vars
    PROVE  Visits'
  <1>1. CASE Update
    <2>1. StaticStep /\ Ordered
      BY <1>1, UpdateInOrder DEF Visits
    <2>2. PICK S \in SUBSET Nodes : Seen(S)
      BY DEF Visits
    <2>3. Ordered' /\ \E T \in SUBSET Nodes : Seen(T)'
      BY <2>1, <2>2, StepOrdered, StepSeen
    <2>4. QED BY <2>3 DEF Visits
  <1>2. CASE NextSample
    <2>1. /\ net' = net /\ node' = node /\ stack = <<>> /\ phase = "idle"
          /\ phase' = "update" /\ todo' = todo /\ ret' = "none" /\ before' = node
      BY <1>2 DEF NextSample, IInv, Shape, Visits, Ordered
    <2>2. net.root \in Nodes /\ node[net.root].last + 1 \in Nat
      BY DEF IInv, TypeOK, WellFormed, States
    <2>3. stack' = <<Frame(net.root, node[net.root].last + 1)>>
      BY <1>2 DEF NextSample
    <2>4. Stamp' = Stamp
      BY <2>1 DEF Stamp, Making
    <2>5. QED BY <2>1, <2>2, <2>3, <2>4, ClientKeepsVisits
  <1>3. CASE CleanUp
    <2>1. /\ net' = net /\ node' = node /\ stack = <<>> /\ stack' = <<>>
          /\ todo' = todo /\ ret' = "none" /\ before' = before
          /\ phase # "idle" /\ phase' # "idle"
      BY <1>3 DEF CleanUp
    <2>2. Stamp' = Stamp
      BY <2>1 DEF Stamp, Making
    <2>3. QED BY <2>1, <2>2, ClientKeepsVisits
  <1>4. CASE CleanUpOne
    <2>1. /\ net' = net /\ node' = node /\ stack = <<>> /\ todo' = todo
          /\ ret' = "none" /\ before' = before /\ phase # "idle" /\ phase' # "idle"
          /\ stack' = <<Frame(todo[at], todoNow)>>
      BY <1>4 DEF CleanUpOne
    <2>2. at \in DOMAIN todo /\ todo[at] \in Nodes /\ todoNow \in Nat
      BY <1>4 DEF CleanUpOne, IInv, TypeOK
    <2>3. Stamp' = Stamp
      BY <2>1 DEF Stamp, Making
    <2>4. QED BY <2>1, <2>2, <2>3, ClientKeepsVisits
  <1>5. CASE CleanUpDone
    <2>1. /\ net' = net /\ node' = node /\ stack = <<>> /\ stack' = <<>>
          /\ todo' = <<>> /\ ret' = "none" /\ before' = before
          /\ phase = "cleanUp" /\ phase' = "idle"
      BY <1>5 DEF CleanUpDone
    <2>2. /\ Stamp = before[net.root].last + 1 /\ Stamp' = node[net.root].last + 1
          /\ net.root \in Nodes
      BY <2>1 DEF Stamp, Making, IInv, TypeOK, WellFormed
    <2>3. CASE Stamp' = Stamp
      BY <2>1, <2>3, ClientKeepsVisits
    <2>4. CASE Stamp' # Stamp
      <3>1. before[net.root].last \in Nat /\ \A n \in Nodes : node[n].last \in Nat
        BY <2>2 DEF IInv, TypeOK, States
      <3>2. /\ before[net.root].last <= node[net.root].last
            /\ \A n \in Nodes : node[n].last <= before[net.root].last + 1
        BY <2>1 DEF IInv, Clock, OneSample
      <3>3. \A n \in Nodes : node'[n].last # Stamp'
        BY <2>1, <2>2, <2>4, <3>1, <3>2
      <3>4. /\ DOMAIN stack' = {} /\ stack' \in Seq(Frames)
            /\ 1..(Len(stack') - 1) = {} /\ DOMAIN todo' = {}
        BY <2>1
      <3>5. Ordered'
        BY <2>1, <3>3, <3>4 DEF Ordered
      <3>6. Seen({})'
        BY <2>1, <3>3, <3>4, SeenAfter
      <3>7. QED BY <3>5, <3>6 DEF Visits
    <2>5. QED BY <2>3, <2>4
  <1>6. CASE UNCHANGED vars
    <2>1. /\ net' = net /\ node' = node /\ stack' = stack /\ todo' = todo
          /\ before' = before /\ phase' = phase /\ ret' = ret
      BY <1>6 DEF vars
    <2>2. /\ Stamp' = Stamp /\ (Returned' <=> Returned) /\ Top' = Top
          /\ \A n : IsDelay(n)' <=> IsDelay(n)
      BY <2>1 DEF Stamp, Making, Returned, Top, IsDelay
    <2>3. \A n : (Ready(n)' <=> Ready(n)) /\ Edges(n)' = Edges(n)
                 /\ (Open(n)' <=> Open(n))
      BY <2>1, <2>2 DEF Ready, Edges, Open
    <2>4. Ordered'
      BY <2>1, <2>2, <2>3 DEF Visits, Ordered, FrameOK, HasCalled, Ready, IsDelay
    <2>5. \A S : Seen(S) => Seen(S)'
      BY <2>1, <2>2, <2>3 DEF Seen, Settled, Closed, FrameIn, Ready, IsDelay
    <2>6. QED BY <2>4, <2>5 DEF Visits
  <1>7. QED BY <1>1, <1>2, <1>3, <1>4, <1>5, <1>6 DEF Next, Engine

(* A network that has just been built has been visited for no sample.      *)
LEMMA InitVisits ==
    ASSUME Init
    PROVE  Visits
  <1>1. /\ stack = <<>> /\ ret = "none" /\ todo = <<>> /\ phase = "idle"
        /\ DOMAIN stack = {} /\ DOMAIN todo = {} /\ 1..(Len(stack) - 1) = {}
    BY DEF Init
  <1>2. \A n \in Nodes : node[n].last = 0
    BY DEF Init, New
  <1>3. \A n \in Nodes : node[n].last # Stamp
    BY <1>1, <1>2, InitIInv DEF Stamp, IInv, TypeOK, WellFormed
  <1>4. Ordered
    BY <1>1, <1>3 DEF Ordered
  <1>5. Seen({})
    BY <1>1, <1>3 DEF Seen
  <1>6. QED BY <1>4, <1>5 DEF Visits

(* In every network without switches and tasks, however its modules and    *)
(* delays are wired, the updates that clean_up() makes put nothing on the  *)
(* list it iterates over: its iterator stays valid.                        *)
THEOREM NothingAppended ==
    /\ Spec => [][Static => (phase = "cleanUp" /\ todo' # todo => todo' = <<>>)]_vars
    /\ (\A w \in Networks : \A n \in Nodes : w.kind[n] \notin Switches \cup Tasks)
         => (Spec => NoGrowth)
  <1> DEFINE VInv == IInv /\ (Static => Visits)
             Kept == phase = "cleanUp" /\ todo' # todo => todo' = <<>>
  <1>1. Init => VInv
    BY InitIInv, InitVisits
  <1>2. IInv /\ [Next]_vars => (Static' <=> Static)
    <2>1. ASSUME IInv, Update PROVE net' = net
      BY <2>1, UpdateStep DEF IInv, Step, Still
    <2>2. ASSUME IInv, [Next]_vars PROVE net' = net
      BY <2>1, <2>2 DEF Next, Engine, NextSample, CleanUp, CleanUpOne, CleanUpDone, vars
    <2>3. QED BY <2>2 DEF Static
  <1>3. VInv /\ [Next]_vars => VInv'
    <2>1. IInv /\ [Next]_vars => IInv'
      BY UpdateKeepsIInv, NextSampleKeepsIInv, CleanUpKeepsIInv,
         CleanUpOneKeepsIInv, CleanUpDoneKeepsIInv, StutterKeepsIInv
         DEF Next, Engine
    <2>2. IInv /\ Static /\ Visits /\ [Next]_vars => Visits'
      BY NextKeepsVisits
    <2>3. QED BY <1>2, <2>1, <2>2
  <1>4. VInv /\ [Next]_vars => [Static => Kept]_vars
    <2>1. ASSUME VInv, Static, Update PROVE Kept
      BY <2>1, UpdateInOrder DEF StaticStep
    <2>2. ASSUME VInv, Static, Next PROVE Kept
      BY <2>1, <2>2 DEF Next, Engine, NextSample, CleanUp, CleanUpOne, CleanUpDone
    <2>3. QED BY <2>2
  <1>5. Spec => [][Static => Kept]_vars
    BY <1>1, <1>3, <1>4, PTL DEF Spec
  <1>6. ASSUME \A w \in Networks : \A n \in Nodes : w.kind[n] \notin Switches \cup Tasks
        PROVE  Spec => NoGrowth
    <2>1. Init => Static
      BY <1>6 DEF Init, Static
    <2>2. VInv /\ Static /\ [Next]_vars => Static' /\ [Kept]_vars
      BY <1>2, <1>4
    <2>3. QED BY <1>1, <1>3, <2>1, <2>2, PTL DEF Spec, NoGrowth
  <1>7. QED BY <1>5, <1>6
=============================================================================
