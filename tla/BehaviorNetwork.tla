-------------------------- MODULE BehaviorNetwork --------------------------
(***************************************************************************)
(* The networks of behaviours that the combinators of frp/Behavior.h,      *)
(* frp/Event.h and frp/Task.h build: for every module its kind and the     *)
(* behaviours its constructor was given.                                   *)
(*                                                                         *)
(* Values are numbers: 0 is "false", and for an event that it does not     *)
(* occur.  A network is a record                                           *)
(*   root    the module the client calls next() on                         *)
(*   kind    of every module                                               *)
(*   args    the arguments of its constructor                              *)
(*   fresh   the behaviours [p, e] that its event brings, in order         *)
(*   late    how the build evaluates `updated |= p->update(now)'           *)
(***************************************************************************)
EXTENDS Naturals, Sequences, FiniteSets

CONSTANTS
    Nodes,      \* the modules (BehaviorModule objects) of a network
    Networks,   \* the networks considered
    Values,     \* what a behaviour can yield
    Inputs,     \* what a function without arguments (a sensor) can yield
    NoNode,     \* the null pointer
    Fn          \* the function of every lifted module, from tuples of values

(* The modules whose compute() only reads, those that also update the      *)
(* behaviour they pass on, and those that update their event first.        *)
Readers == {"input", "lift", "step", "once", "prev", "snapshot", "now"}
Switches == {"switch", "switch2"}
Tasks == {"task", "taskEvent", "taskSwitch", "taskLoop"}

(* The kinds whose update() is DelayModule's or Delay1Module's. *)
Delays == {"delay", "delay1"}
Kinds == Readers \cup Switches \cup Tasks \cup Delays

(* The behaviours a constructor attaches as dependencies. *)
Attached(kind, args) ==
    CASE kind \in Switches \cup {"taskLoop"} -> <<args[1]>>
      [] kind \in {"task", "taskEvent", "taskSwitch"} -> <<>>
      [] OTHER -> args

(* The behaviour whose value the module passes on (p) and the event that   *)
(* replaces it (e, or n in TaskSwitch), where it has them.                 *)
Under(kind, args) ==
    CASE kind \in Delays -> args[1]
      [] kind \in Switches \cup {"task", "taskSwitch"} -> args[2]
      [] kind = "taskEvent" -> args[1]
      [] kind = "taskLoop" -> args[3]
      [] OTHER -> NoNode
(* mutation: the event of a task is not kept. *)
WatchedDropped(kind, args) ==
    CASE kind \in Switches \cup {"task", "taskSwitch"} -> args[1]
      [] kind = "taskLoop" -> args[2]
      [] OTHER -> NoNode
Watched(kind, args) ==
    CASE kind \in Switches \cup {"task", "taskEvent", "taskSwitch"} -> args[1]
      [] kind = "taskLoop" -> args[2]
      [] OTHER -> NoNode

(* Lifted functions have at most four arguments (Lift0Module..Lift4Module). *)
Tuples == UNION {[1..k -> Values] : k \in 0..4}

ASSUME DataAssumption ==
    /\ 0 \in Values /\ 1 \in Values
    /\ Inputs \subseteq Values
    /\ Fn \in [Tuples -> Values]
    /\ NoNode \notin Nodes

(* What the constructors take. *)
Arity(kind) ==
    CASE kind \in {"input", "now"} -> 0
      [] kind \in {"snapshot", "task", "taskSwitch"} \cup Switches -> 2
      [] kind = "taskLoop" -> 3
      [] OTHER -> 1

(* A network is well formed when every constructor got what it needs.      *)
WellFormed(net) ==
    /\ net.root \in Nodes /\ net.late \in BOOLEAN
    /\ net.kind \in [Nodes -> Kinds]
    /\ net.args \in [Nodes -> Seq(Nodes)]
    /\ net.fresh \in [Nodes -> Seq([p : Nodes, e : Nodes])]
    /\ \A n \in Nodes :
         /\ Len(net.args[n]) <= 4
         /\ net.kind[n] # "lift" => Len(net.args[n]) = Arity(net.kind[n])
         /\ net.kind[n] \in Switches \cup Tasks => net.fresh[n] # <<>>

ASSUME NetworkAssumption == \A net \in Networks : WellFormed(net)
=============================================================================
