-------------------------- MODULE MCBehaviorUpdate --------------------------
(* BehaviorUpdate on networks that the library and its tests build. *)
EXTENDS BehaviorUpdate

MCNodes == 1..6
MCValues == 0..2
MCFn == [s \in UNION {[1..k -> MCValues] : k \in 0..4} |->
           LET Arg(i) == IF i <= Len(s) THEN s[i] ELSE 0
           IN (1 + Arg(1) + 2 * Arg(2) + Arg(3) + Arg(4)) % 3]

None == <<>>
Nothing == <<None, None, None, None, None, None>>
Pad(s, x) == [n \in MCNodes |-> IF n <= Len(s) THEN s[n] ELSE x]
Network(kinds, args, fresh) ==
    {[root |-> 1, kind |-> Pad(kinds, "input"), args |-> Pad(args, None),
      fresh |-> Pad(fresh, None), late |-> late] : late \in BOOLEAN}
Brings(s) == [i \in DOMAIN s |-> [p |-> s[i], e |-> s[i]]]

(* accumulative(x), Behavior.h:1063-1068. *)
Accumulative == Network(<<"lift", "input", "delay">>, << <<2, 3>>, None, <<1>> >>, None)
(* flip_flop(e), Test/ATest.cc:78-82. *)
FlipFlop == Network(<<"step", "snapshot", "input", "lift", "delay">>,
                    << <<2>>, <<3, 4>>, None, <<5>>, <<1>> >>, None)
(* Two delays in a row and one of its own, Test/BTest.cc:65. *)
Fibonacci == Network(<<"lift", "delay", "delay", "delay">>,
                     << <<2, 4>>, <<1>>, <<1>>, <<3>> >>, None)
(* track() with linear_predictor(), Test/ATest.cc:115-137. *)
Track == Network(<<"lift", "lift", "input", "delay", "lift", "delay1">>,
                 << <<2>>, <<3, 4>>, None, <<5>>, <<1, 6>>, <<1>> >>, None)
(* switchB(x, e) with new delays, and switch2B. *)
Switching(kind) ==
    Network(<<"lift", kind, "input", "input", "delay", "delay">>,
            << <<2, 4>>, <<3, 4>>, None, None, <<4>>, <<2>> >>,
            <<None, Brings(<<5, 6>>)>>)
(* tillB(x, e) = switchB(x, onceE(e)), Event.h:773-775. *)
Till == Network(<<"switch", "once", "input", "input", "step", "prev">>,
                << <<2, 4>>, <<3>>, None, None, <<6>>, <<3>> >>,
                <<Brings(<<5>>)>>)
(* The behaviour and the event of a task followed by another, Task.h:165-178. *)
Sequel == Network(<<"lift", "task", "taskEvent", "input", "now", "delay">>,
                  << <<2, 3>>, <<4, 5>>, <<4>>, None, None, <<2>> >>,
                  <<None, Brings(<<6>>), Brings(<<6>>)>>)
(* switchT, Task.h:222-262. *)
TaskSwitching == Network(<<"lift", "taskSwitch", "input", "input", "delay1", "delay">>,
                  << <<2, 4>>, <<3, 4>>, None, None, <<4>>, <<5>> >>,
                  <<None, Brings(<<5, 6>>)>>)
(* mkTaskLoop, Task.h:296-318: the event of a started task is new and does *)
(* not occur at once.                                                      *)
Looping == Network(<<"taskLoop", "now", "input", "prev", "prev", "delay">>,
                   << <<2, 3, 6>>, None, None, <<3>>, <<2>>, <<1>> >>,
                   << <<[p |-> 6, e |-> 4], [p |-> 3, e |-> 4], [p |-> 6, e |-> 5]>> >>)

LibraryNetworks ==
    Accumulative \cup FlipFlop \cup Fibonacci \cup Track \cup Switching("switch")
      \cup Switching("switch2") \cup Till \cup Sequel \cup TaskSwitching \cup Looping

(* Every way to wire three modules, lifted or delays, into a network in    *)
(* which each cycle goes through a delay and no cycle is made of delays    *)
(* only.                                                                   *)
Small == 1..3
Wirings == [Small -> {<<"delay", <<i>> >> : i \in Small}
                     \cup {<<"lift", <<i>> >> : i \in Small}
                     \cup {<<"lift", <<i, j>> >> : i \in Small, j \in Small}
                     \cup {<<"input", <<>> >>}]
Acyclic(w, among) ==
    \A S \in SUBSET {n \in Small : w[n][1] \in among} :
        S # {} => \E n \in S : \A i \in DOMAIN w[n][2] : w[n][2][i] \notin S
Whole(w) ==
    \A S \in SUBSET Small :
        1 \in S /\ (\A n \in S : \A i \in DOMAIN w[n][2] : w[n][2][i] \in S)
          => S = Small
Wired(w, late) ==
    [root |-> 1, late |-> late, fresh |-> Pad(None, None),
     kind |-> Pad([n \in Small |-> w[n][1]], "input"),
     args |-> Pad([n \in Small |-> w[n][2]], None)]
SmallWirings ==
    {w \in Wirings : /\ Whole(w) /\ ~Acyclic(w, {"lift", "delay"})
                     /\ Acyclic(w, {"lift"}) /\ Acyclic(w, {"delay"})}

(* A Mealy machine: the output is a function of the state, the next state  *)
(* one of the state and the output.  The client asks for the output.       *)
ArgsOf(w, n) == {w[n][2][i] : i \in DOMAIN w[n][2]}
IsMealy(w) ==
    \E state, next \in Small \ {1} :
        /\ w[1][1] = "lift" /\ ArgsOf(w, 1) = {state}
        /\ w[state] = <<"delay", <<next>> >>
        /\ w[next][1] = "lift" /\ ArgsOf(w, next) = {state, 1}

(* The early order for all of them.  The late order, in 56 of which a      *)
(* delay is entered again from the update of its own input, for all but    *)
(* the Mealy machines, of which the other run shows that it fails.         *)
SmallNetworks ==
    {Wired(w, FALSE) : w \in SmallWirings}
      \cup {Wired(w, TRUE) : w \in {v \in SmallWirings : ~IsMealy(v)}}

CheckedNetworks == LibraryNetworks \cup SmallNetworks

Mealy == {Wired(w, late) : w \in {v \in SmallWirings : IsMealy(v)}, late \in BOOLEAN}
=============================================================================
