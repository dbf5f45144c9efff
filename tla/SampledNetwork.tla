--------------------------- MODULE SampledNetwork ---------------------------
(***************************************************************************)
(* What a network of behaviours denotes: a synchronous data-flow machine.  *)
(* One step is one sample.  All modules that the root depends on in this   *)
(* sample take the values that solve their equations together, the others  *)
(* keep their state; there is no order of evaluation.                      *)
(***************************************************************************)
EXTENDS BehaviorNetwork

VARIABLES
    net,        \* the network
    mod         \* module -> [value, prefetch, first, p, e, started]

svars == <<net, mod>>

Init ==
    /\ net \in Networks
    /\ mod = [n \in Nodes |->
               [value |-> 0, prefetch |-> 0, first |-> TRUE, started |-> 0,
                p |-> Under(net.kind[n], net.args[n]),
                e |-> Watched(net.kind[n], net.args[n])]]

-----------------------------------------------------------------------------
(* The values of this sample. *)
Out(n) == mod'[n].value
Occurs(n) == Out(n) # 0

Arg(n, i) == net.args[n][i]

(* The event and the behaviour in force after j switches of module n. *)
EventAfter(n, j) == IF j <= mod[n].started THEN mod[n].e ELSE net.fresh[n][j].e
UnderAfter(n, j) == IF j <= mod[n].started THEN mod[n].p ELSE net.fresh[n][j].p
OneMore(n) == IF mod[n].started < Len(net.fresh[n]) THEN mod[n].started + 1
                                                    ELSE mod[n].started

(* A loop starts tasks until the event of the running one does not occur.  *)
Settled(n, from) ==
    CHOOSE k \in from..Len(net.fresh[n]) :
        /\ ~Occurs(EventAfter(n, k))
        /\ \A j \in from..(k - 1) : Occurs(EventAfter(n, j))
LoopStarts(n) ==
    LET k == Settled(n, mod[n].started) IN
    IF Occurs(Arg(n, 1)) THEN Settled(n, k + 1) ELSE k

(* How many switches module n has made after this sample. *)
Started(n) ==
    CASE net.kind[n] \in {"switch", "taskSwitch"} ->
           IF Occurs(Arg(n, 1)) THEN OneMore(n) ELSE mod[n].started
      [] net.kind[n] = "switch2" ->
           IF Occurs(Arg(n, 1)) THEN OneMore(n) ELSE mod[n].started
      [] net.kind[n] \in {"task", "taskEvent"} ->
           IF mod[n].first /\ Occurs(Arg(n, 1)) THEN OneMore(n)
                                                ELSE mod[n].started
      [] net.kind[n] = "taskLoop" -> LoopStarts(n)
      [] OTHER -> mod[n].started
Chosen(n) ==
    IF net.kind[n] = "switch2" /\ Occurs(Arg(n, 1))
      THEN net.fresh[n][OneMore(n)].p
      ELSE UnderAfter(n, Started(n))

(* The behaviours module n needs in this sample. *)
Needs(n) ==
    CASE net.kind[n] \in Delays -> {mod[n].p}
      [] net.kind[n] = "once" -> IF mod[n].value # 0 THEN {} ELSE {Arg(n, 1)}
      [] net.kind[n] \in Switches \cup {"taskSwitch"} ->
           {Arg(n, 1), Chosen(n)}
      [] net.kind[n] \in {"task", "taskEvent"} ->
           {Chosen(n)} \cup (IF mod[n].first THEN {Arg(n, 1)} ELSE {})
      [] net.kind[n] = "taskLoop" ->
           {Arg(n, 1), Chosen(n)}
             \cup {EventAfter(n, j) : j \in mod[n].started..Started(n)}
      [] OTHER -> {Arg(n, i) : i \in DOMAIN net.args[n]}

Active ==
    LET Grown[k \in 0..Cardinality(Nodes)] ==
          IF k = 0 THEN {net.root}
          ELSE LET known == Grown[k - 1]
               IN known \cup UNION {Needs(n) : n \in known}
    IN Grown[Cardinality(Nodes)]

-----------------------------------------------------------------------------
(* The equation of each kind of module. *)

Equation(n) ==
    LET self == mod[n] IN
    CASE net.kind[n] = "input" ->
           \E v \in Inputs : mod'[n] = [self EXCEPT !.value = v]
      [] net.kind[n] = "lift" ->
           mod'[n] = [self EXCEPT
             !.value = Fn[[i \in DOMAIN net.args[n] |-> Out(Arg(n, i))]]]
      [] net.kind[n] = "step" ->
           mod'[n] = [self EXCEPT
             !.value = IF Occurs(Arg(n, 1)) THEN Out(Arg(n, 1)) ELSE @]
      [] net.kind[n] = "once" ->
           mod'[n] = [self EXCEPT
             !.value = IF @ # 0 THEN @ ELSE Out(Arg(n, 1))]
      [] net.kind[n] = "prev" ->
           mod'[n] = IF Occurs(Arg(n, 1))
                       THEN [self EXCEPT !.value = self.prefetch,
                                         !.prefetch = Out(Arg(n, 1))]
                       ELSE [self EXCEPT !.value = 0]
      [] net.kind[n] = "snapshot" ->
           mod'[n] = [self EXCEPT
             !.value = IF Occurs(Arg(n, 1)) THEN Out(Arg(n, 2)) ELSE 0]
      [] net.kind[n] = "now" ->
           mod'[n] = [self EXCEPT !.value = IF self.first THEN 1 ELSE 0,
                                  !.first = FALSE]
      [] net.kind[n] = "delay" ->
           mod'[n] = [self EXCEPT !.value = self.prefetch,
                                  !.prefetch = Out(self.p)]
      [] net.kind[n] = "delay1" ->
           mod'[n] = [self EXCEPT
             !.value = IF self.first THEN Out(self.p) ELSE self.prefetch,
             !.prefetch = Out(self.p), !.first = FALSE]
      [] net.kind[n] = "switch2" ->
           mod'[n] = [self EXCEPT !.value = Out(Chosen(n)),
                                  !.started = Started(n)]
      [] net.kind[n] \in {"switch", "taskSwitch"} ->
           mod'[n] = [self EXCEPT !.value = Out(Chosen(n)),
                                  !.p = Chosen(n), !.started = Started(n)]
      [] net.kind[n] \in {"task", "taskEvent"} ->
           mod'[n] = [self EXCEPT !.value = Out(Chosen(n)),
                                  !.p = Chosen(n), !.started = Started(n),
                                  !.first = @ /\ ~Occurs(Arg(n, 1))]
      [] net.kind[n] = "taskLoop" ->
           mod'[n] = [self EXCEPT !.value = Out(Chosen(n)),
                                  !.p = Chosen(n), !.started = Started(n),
                                  !.e = EventAfter(n, Started(n))]

Sample ==
    /\ net' = net
    /\ \A n \in Nodes : IF n \in Active THEN Equation(n) ELSE mod'[n] = mod[n]

Spec == Init /\ [][Sample]_svars
=============================================================================
