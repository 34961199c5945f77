------------------------------- MODULE MCTaint -------------------------------
(***************************************************************************)
(* Forward: main has one parameter (value 1) and three instructions        *)
(* (values 2 to 4), helper has two parameters and two instructions (values *)
(* 3 and 4); each instruction is any of the function's menu.               *)
(* Backward: sinking has two parameters and two instructions (values 3 and *)
(* 4), calling has one parameter and two instructions (values 2 and 3).    *)
(***************************************************************************)
EXTENDS Taint

MCInstr(op, uses, into, targets) ==
    [op |-> op, uses |-> uses, into |-> into, targets |-> targets]
Op(op, v) == MCInstr(op, <<v>>, 0, {})
Call(f, args) == MCInstr("call", args, 0, {f})
Indirect(v, targets) == MCInstr("call", <<v>>, 0, targets)
StoreInto(v) == MCInstr("store", <<1>>, v, {})

MCFunctions == {"main", "helper"}
MCNParams == [main |-> 1, helper |-> 2]
MCLength == [main |-> 3, helper |-> 2]
MCMenu ==
    [main |-> {Op("move", 0), Op("move", 1), Op("move", 3), Op("sink", 0), Op("sink", 2),
               Op("source", 0), Op("unlifted", 0), StoreInto(0), Call("helper", <<1, 0>>),
               Call("helper", <<3, 2>>)},
     helper |-> {Op("move", 4), Op("sink", 2), Op("sink", 3), Op("return", 1),
                 Op("unlifted", 2), StoreInto(2), Call("helper", <<2, 1>>),
                 Call("main", <<1, 2>>), Indirect(1, {}), Indirect(1, {"external", "main"})}]

\* Few sweeps, a small depth and no copy of a pointer, and enough of each.
MCSettings == {[iters |-> 1, depth |-> 2, unknown |-> "conservative", hops |-> 6],
               [iters |-> 4, depth |-> 1, unknown |-> "stop", hops |-> 0],
               [iters |-> 4, depth |-> 3, unknown |-> "conservative", hops |-> 6]}

Reading(reads) == [kind |-> "reads", reads |-> reads]
Ending(kind) == [kind |-> kind, reads |-> << >>]

MCSliceFunctions == {"sinking", "calling"}
MCArity == [sinking |-> 2, calling |-> 1]
MCSize == [sinking |-> 2, calling |-> 2]
MCDefinitions ==
    [sinking |-> {Reading(<<1, 2>>), Reading(<<4, 1>>), Reading(<<3, 2>>), Ending("source"),
                  Ending("call"), Ending("load"), Ending("indirect")},
     calling |-> {Reading(<<1>>), Reading(<<3, 1>>), Ending("source"), Ending("constant")}]

\* A site in each order, one whose argument is no variable, one that is not found,
\* and one in the function itself.
MCSite(caller, args, found) == [caller |-> caller, args |-> args, found |-> found]
Here == MCSite("calling", <<1, 2>>, TRUE)
There == MCSite("calling", <<3, 0>>, TRUE)
Lost == MCSite("calling", <<2, 3>>, FALSE)
Itself == MCSite("sinking", <<2, 3>>, TRUE)
MCSiteLists ==
    [sinking |-> {<< >>, <<Here>>, <<There>>, <<Here, There>>, <<Lost>>, <<Lost, Here>>,
                  <<Itself>>, <<Itself, Here>>, <<Here, There, Itself>>,
                  <<There, Lost, Here>>},
     calling |-> {<< >>, <<MCSite("calling", <<3>>, TRUE)>>,
                  <<MCSite("sinking", <<4>>, TRUE)>>}]

\* A short chain, and a shallow ascent; both with fewer callers than some lists have.
MCBounds == {[steps |-> 1, depth |-> 4, callers |-> 2],
             [steps |-> 8, depth |-> 1, callers |-> 2]}
=============================================================================
