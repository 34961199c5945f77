---------------------------- MODULE TaintForward ----------------------------
(***************************************************************************)
(* A forward taint run (taint_engine.TaintEngine._forward_run) and the     *)
(* gate that says whether its silence may be read as an all-clear          *)
(* (taint_result._derive_all_clear).  A frame is an activation of          *)
(* _run_forward: a fixpoint over the instructions of one function for one  *)
(* set of tainted parameters.  A call with tainted arguments is descended  *)
(* into, with a summary for each (callee, parameters), a bound on depth,   *)
(* a bound on sweeps and a guard against recursion.                        *)
(*                                                                         *)
(* A program is made of what the run tells apart.  Value 0 is a local      *)
(* buffer, 1..NParams[f] are the parameters, and instruction k defines     *)
(* value NParams[f] + k.  What Binary Ninja is asked about pointers is     *)
(* reduced to Root: which buffer or parameter a pointer was copied from.   *)
(***************************************************************************)
EXTENDS Naturals, Sequences

CONSTANTS Functions,    \* the functions with a body; "main" is where the run starts
          NParams,      \* how many parameters each of them has
          Length,       \* how many instructions
          Menu,         \* the instructions that each of them may consist of
          Settings,     \* the settings [iters, depth, unknown, hops] to run with
          Rounds,       \* how often the reference applies the flow equations
          Overlooked    \* the flows that the reference leaves out

Ops == {"move", "store", "sink", "return", "unlifted", "source", "call"}

\* A pointer to a tainted buffer that an instruction without IL reads; one copied more
\* often than the run follows; an argument beyond the parameters of the callee, handed over
\* beside another or alone.
Oversights == {"unliftedPointer", "longPointer", "surplusArgument", "surplusAlone"}

ForwardConstants ==
    /\ "main" \in Functions /\ "external" \notin Functions
    /\ NParams \in [Functions -> Nat]
    /\ Length \in [Functions -> Nat \ {0}]
    /\ \A f \in Functions : \A ins \in Menu[f] :
           ins \in [op : Ops, uses : Seq(Nat), into : Nat,
                    targets : SUBSET (Functions \union {"external"})]
    /\ Settings \subseteq [iters : Nat \ {0}, depth : Nat,
                           unknown : {"conservative", "stop"}, hops : Nat]
    /\ Rounds \in Nat
    /\ Overlooked \subseteq Oversights

VARIABLES
    code,        \* the body of each function, << >> until the run gets there
    unread,      \* the functions that Binary Ninja has no IL for
    setting,     \* max_iters, max_depth, unknown_call_policy, and how many copies of a
                 \* pointer are followed (6 in the code)
    sources,     \* the values that --source names: parameters, or the results of a callee
    pending,     \* those that no run has started from yet
    stack,       \* the activations
    summaries,   \* _cache: (function, parameters) -> {summary}, or {} for one in progress
    causes,      \* _truncation_causes
    incomplete,  \* _analysis_incomplete
    result       \* what the finished runs found

forwardProgram == <<code, unread, setting, sources>>
forwardVars == <<forwardProgram, pending, stack, summaries, causes, incomplete, result>>

Params(f) == 1..NParams[f]
Values(f) == 0..(NParams[f] + Length[f])

Defined(f, k) == NParams[f] + k

-----------------------------------------------------------------------------
(***************************************************************************)
(* Programs.                                                               *)
(***************************************************************************)

\* A call uses its arguments in order; a resolved indirect call may have several
\* targets, an unresolved one has none.
Instr(op, uses, into, targets) ==
    [op |-> op, uses |-> uses, into |-> into, targets |-> targets]

Bodies(f) == [1..Length[f] -> Menu[f]]

\* _resolve_to_param_index and _pointee_var: the parameter or buffer that a pointer was
\* copied from, at most hops copies away; the result of a call has none, nor has a cycle
\* of copies.
Root(f, body, v, hops) ==
    LET root[n \in Nat, w \in Values(f)] ==
            IF w <= NParams[f] THEN {w}
            ELSE IF n = 0 \/ body[w - NParams[f]].op # "move" THEN {}
            ELSE root[n - 1, body[w - NParams[f]].uses[1]]
    IN  root[hops, v]

\* read_taint: a tainted value is read.  arg_taint: or a pointer to the tainted buffer.
Reads(v, tainted) == v # 0 /\ v \in tainted
Carries(f, body, v, tainted, hops) ==
    Reads(v, tainted) \/ (0 \in Root(f, body, v, hops) /\ 0 \in tainted)

\* The arguments that a target has parameters for; an external function takes them all.
Taken(g, args) == IF g \in Functions THEN args \intersect Params(g) ELSE args

-----------------------------------------------------------------------------
(***************************************************************************)
(* Activations.                                                            *)
(***************************************************************************)

MaxIters == setting.iters
MaxDepth == setting.depth

Frame(f, given) ==
    [fn |-> f, given |-> given, pass |-> 1, at |-> 1, changed |-> FALSE,
     tainted |-> given, done |-> {}, returns |-> FALSE, out |-> {},
     sinks |-> {}, leaves |-> {}, noModel |-> FALSE,
     calling |-> FALSE, targets |-> {}, handed |-> {}, retTainted |-> FALSE, wrote |-> {}]

Summary(returns, out, sinks, leaves, noModel) ==
    [returns |-> returns, out |-> out, sinks |-> sinks, leaves |-> leaves,
     noModel |-> noModel]

Nothing == Summary(FALSE, {}, {}, {}, FALSE)
Union(a, b) == Summary(a.returns \/ b.returns, a.out \union b.out, a.sinks \union b.sinks,
                       a.leaves \union b.leaves, a.noModel \/ b.noModel)

Top == stack[Len(stack)]
Depth == Len(stack) - 1
Body == code[Top.fn]
Ins == Body[Top.at]
InBody == stack # << >> /\ Top.at <= Length[Top.fn]
AtCall == InBody /\ Ins.op = "call" /\ ~Top.calling

Tainted(v) == Carries(Top.fn, Body, v, Top.tainted, setting.hops)

\* taint_node: a value that is new makes another sweep necessary.
Taint(frame, S) ==
    [frame EXCEPT !.tainted = @ \union S, !.changed = @ \/ ~(S \subseteq frame.tainted)]

BubbleOut(frame, S) ==
    [frame EXCEPT !.out = @ \union S, !.changed = @ \/ ~(S \subseteq frame.out)]

Advance(frame) == [frame EXCEPT !.at = @ + 1]
SetTop(frame) == stack' = [stack EXCEPT ![Len(stack)] = frame]

\* The results of the calls of the source.
Results == {Defined("main", k) : k \in {j \in 1..Length["main"] : code["main"][j].op = "source"}}

First(S) == CHOOSE v \in S : \A w \in S : v <= w

\* The sources are followed jointly, but for the results of a callee that is the only one:
\* there each of its calls has a run of its own (_attributable_callsites).
FirstRun == IF sources = Results THEN {First(sources)} ELSE sources

ForwardInit ==
    /\ code \in {[f \in Functions |-> IF f = "main" THEN body ELSE << >>] :
                     body \in Bodies("main")}
    /\ unread \in SUBSET (Functions \ {"main"})
    /\ setting \in Settings
    /\ \E named \in SUBSET Params("main"), results \in {{}, Results} :
           sources = named \union results
    /\ sources # {}
    /\ pending = sources \ FirstRun
    /\ stack = <<Frame("main", FirstRun)>>
    /\ summaries = << >>
    /\ causes = {}
    /\ incomplete = {}
    /\ result = Nothing

\* No forward run: the values while another command runs.  Nothing was found, and that
\* is no all-clear.
ForwardParked ==
    /\ code = << >> /\ unread = {} /\ setting = << >> /\ sources = {}
    /\ pending = {} /\ stack = << >> /\ summaries = << >>
    /\ causes = {"notRun"} /\ incomplete = {} /\ result = Nothing

-----------------------------------------------------------------------------
(***************************************************************************)
(* The sweep over a function's instructions.                               *)
(***************************************************************************)

RunFrame == UNCHANGED <<forwardProgram, pending, summaries, causes, incomplete, result>>

\* What an instruction that is no call does to the activation.  A store through a
\* parameter is for the caller to follow, and is disclosed as well; so is a stored
\* pointer to the tainted buffer.
Move(frame, ins) ==
    IF Reads(ins.uses[1], frame.tainted)
    THEN Taint(frame, {Defined(frame.fn, frame.at)}) ELSE frame

Disclose(frame, leaf) == [frame EXCEPT !.leaves = @ \union {leaf}]

Store(frame, ins) ==
    CASE Reads(ins.uses[1], frame.tainted) /\ ins.into = 0 -> Taint(frame, {0})
      [] Reads(ins.uses[1], frame.tainted) /\ ins.into # 0 ->
            BubbleOut(Disclose(frame, "coarse_store"), {ins.into})
      [] ~Reads(ins.uses[1], frame.tainted) /\ Tainted(ins.uses[1]) ->
            Disclose(frame, "pointer_escape")
      [] OTHER -> frame

Sink(frame, ins) ==
    IF Tainted(ins.uses[1])
    THEN [frame EXCEPT !.sinks = @ \union {<<frame.fn, frame.at>>}] ELSE frame

Return(frame, ins) == [frame EXCEPT !.returns = @ \/ Tainted(ins.uses[1])]

Unlifted(frame, ins) ==
    IF Reads(ins.uses[1], frame.tainted) THEN Disclose(frame, "unlifted") ELSE frame

Unchanged(frame, ins) == frame

VisitAs(op, After(_, _)) ==
    /\ InBody
    /\ Ins.op = op
    /\ SetTop(Advance(After(Top, Ins)))
    /\ RunFrame

Visit == \/ VisitAs("move", Move) \/ VisitAs("store", Store) \/ VisitAs("sink", Sink)
         \/ VisitAs("return", Return) \/ VisitAs("unlifted", Unlifted)
         \/ VisitAs("source", Unchanged)

TaintedArgs == {i \in DOMAIN Ins.uses : Tainted(Ins.uses[i])}

\* Mutant: a call is followed once, whatever it is handed later.
CallKeyBySite == Top.at

CallKey == <<Top.at, TaintedArgs>>

\* Nothing tainted goes in, or it was followed in an earlier sweep.
SkipCall ==
    /\ AtCall
    /\ TaintedArgs = {} \/ CallKey \in Top.done
    /\ SetTop(Advance(Top))
    /\ RunFrame

UnresolvedCall ==
    /\ AtCall
    /\ TaintedArgs # {} /\ CallKey \notin Top.done
    /\ Ins.targets = {}
    /\ SetTop(Advance([Top EXCEPT !.done = @ \union {CallKey},
                                  !.leaves = @ \union {"indirect_unresolved"}]))
    /\ RunFrame

BeginCall ==
    /\ AtCall
    /\ TaintedArgs # {} /\ CallKey \notin Top.done
    /\ Ins.targets # {}
    /\ SetTop([Top EXCEPT !.done = @ \union {CallKey}, !.calling = TRUE,
                          !.targets = Ins.targets, !.handed = TaintedArgs])
    /\ RunFrame

-----------------------------------------------------------------------------
(***************************************************************************)
(* One target of a call.                                                   *)
(***************************************************************************)

\* A frame with what a summary brings.
Merged(frame, target, sub) ==
    [frame EXCEPT !.targets = @ \ {target},
                  !.sinks = @ \union sub.sinks,
                  !.leaves = @ \union sub.leaves,
                  !.noModel = @ \/ sub.noModel,
                  !.retTainted = @ \/ sub.returns,
                  !.wrote = @ \union sub.out]

\* No body to go into: external, or not analysed by Binary Ninja.
OpaqueTarget(target) ==
    /\ target \notin Functions \ unread
    /\ SetTop(Merged(Top, target,
          IF setting.unknown = "stop" THEN Summary(FALSE, {}, {}, {"unmodeled"}, FALSE)
                             ELSE Summary(TRUE, {}, {}, {}, TRUE)))
    /\ incomplete' = incomplete \union (unread \intersect {target})
    /\ UNCHANGED <<forwardProgram, pending, summaries, causes, result>>

\* _descend without a descent: too deep, or that summary is in progress further down.
NotFollowed(target) == SetTop(Merged(Top, target, Summary(TRUE, {}, {}, {"unmodeled"}, FALSE)))

Given(target) == Taken(target, Top.handed)

\* No tainted argument is one of its parameters.
Unmapped(target) ==
    /\ target \in Functions \ unread
    /\ Given(target) = {}
    /\ NotFollowed(target)
    /\ RunFrame

TooDeep(target) ==
    /\ target \in Functions \ unread
    /\ Given(target) # {}
    /\ Depth + 1 > MaxDepth
    /\ NotFollowed(target)
    /\ causes' = causes \union {"max_depth"}
    /\ UNCHANGED <<forwardProgram, pending, summaries, incomplete, result>>

Key(target) == <<target, Given(target)>>

MayDescend(target) ==
    target \in Functions \ unread /\ Given(target) # {} /\ Depth + 1 <= MaxDepth

Cycle(target) ==
    /\ MayDescend(target)
    /\ Key(target) \in DOMAIN summaries
    /\ summaries[Key(target)] = {}
    /\ NotFollowed(target)
    /\ RunFrame

Cached(target) ==
    /\ MayDescend(target)
    /\ Key(target) \in DOMAIN summaries
    /\ \E sub \in summaries[Key(target)] : SetTop(Merged(Top, target, sub))
    /\ RunFrame

SetSummary(key, sub) ==
    summaries' = [k \in DOMAIN summaries \union {key} |->
                     IF k = key THEN sub ELSE summaries[k]]

Descend(target) ==
    /\ MayDescend(target)
    /\ Key(target) \notin DOMAIN summaries
    /\ IF code[target] = << >>
       THEN \E body \in Bodies(target) : code' = [code EXCEPT ![target] = body]
       ELSE UNCHANGED code
    /\ SetSummary(Key(target), {})
    /\ stack' = Append(stack, Frame(target, Given(target)))
    /\ UNCHANGED <<unread, setting, sources, pending, causes, incomplete, result>>

CallTarget ==
    /\ InBody /\ Top.calling
    /\ \E target \in Top.targets :
          /\ target = CHOOSE t \in Top.targets : TRUE
          /\ \/ OpaqueTarget(target) \/ Unmapped(target) \/ TooDeep(target)
             \/ Cycle(target) \/ Cached(target) \/ Descend(target)

\* _arg_under_recovered_leaf: a tainted argument that a target has no parameter for may be
\* told, or silently dropped; that depends on what Binary Ninja says of registers.
Dropped == {g \in Ins.targets \intersect (Functions \ unread) : Given(g) # Top.handed}
DropLeaves == {leaves \in SUBSET {"arg_under_recovered"} : leaves # {} => Dropped # {}}

\* What the targets returned, and wrote through the arguments, reaches this function.
EndCall ==
    /\ InBody /\ Top.calling /\ Top.targets = {}
    /\ LET roots == UNION {Root(Top.fn, Body, Ins.uses[i], setting.hops) : i \in Top.wrote}
           returned == {v \in {Defined(Top.fn, Top.at)} : Top.retTainted}
       IN  \E told \in DropLeaves :
               SetTop([Advance(BubbleOut(Taint(Top, returned \union (roots \intersect {0})),
                                         roots \intersect Params(Top.fn)))
                          EXCEPT !.calling = FALSE, !.handed = {}, !.retTainted = FALSE,
                                 !.wrote = {}, !.leaves = @ \union told])
    /\ RunFrame

-----------------------------------------------------------------------------
(***************************************************************************)
(* The end of a sweep, of an activation and of the run.                    *)
(***************************************************************************)

SweptAll == stack # << >> /\ Top.at > Length[Top.fn]

SweepAgain ==
    /\ SweptAll
    /\ Top.changed /\ Top.pass < MaxIters
    /\ SetTop([Top EXCEPT !.at = 1, !.pass = @ + 1, !.changed = FALSE])
    /\ RunFrame

Finished == SweptAll /\ (Top.changed => Top.pass = MaxIters)

\* Mutant: the sweeps that ran out are not told.
NeverExhausted == {}

\* Every value of the last sweep was new to the end: the fixpoint was not reached.
Exhausted == {c \in {"fixpoint_exhausted"} : Top.changed}

Found == Summary(Top.returns, Top.out, Top.sinks, Top.leaves, Top.noModel)

ReturnSummary ==
    /\ Finished
    /\ Len(stack) > 1
    /\ SetSummary(<<Top.fn, Top.given>>, {Found})
    /\ stack' = [SubSeq(stack, 1, Len(stack) - 1) EXCEPT ![Len(stack) - 1] =
                     Merged(@, Top.fn, Found)]
    /\ causes' = causes \union Exhausted
    /\ UNCHANGED <<forwardProgram, pending, incomplete, result>>

\* The next source's run starts from nothing; what the runs found is united.
FinishRun ==
    /\ Finished
    /\ Len(stack) = 1
    /\ result' = Union(result, Found)
    /\ IF pending = {}
       THEN stack' = << >> /\ UNCHANGED pending
       ELSE /\ stack' = <<Frame("main", {First(pending)})>>
            /\ pending' = pending \ {First(pending)}
    /\ summaries' = << >>
    /\ causes' = causes \union Exhausted
    /\ UNCHANGED <<forwardProgram, incomplete>>

ForwardNext == \/ Visit \/ SkipCall \/ UnresolvedCall \/ BeginCall \/ CallTarget \/ EndCall
               \/ SweepAgain \/ ReturnSummary \/ FinishRun

\* _derive_all_clear, for a run that reached no sink.
NothingWithheld ==
    /\ result.leaves = {}
    /\ ~result.noModel
    /\ incomplete = {}
    /\ causes = {}

Done == stack = << >>
AllClear == Done /\ result.sinks = {} /\ NothingWithheld

-----------------------------------------------------------------------------
(***************************************************************************)
(* What flows in the program, with no budget, no sweep, no summary and no  *)
(* guard: the least solution of the flow equations, for each function and  *)
(* each set of tainted parameters.                                         *)
(***************************************************************************)

Contexts == {<<"main", sources>>}
            \union UNION {{<<f, given>> : given \in SUBSET Params(f)} :
                              f \in {g \in Functions : code[g] # << >>}}

NoFlow == [c \in Contexts |->
              [values |-> c[2], returns |-> FALSE, out |-> {}, sinks |-> {}, unknown |-> FALSE]]

\* What the tainted values of f mean for its instructions: what they read, and what the
\* targets of its calls are handed.
Hops(f) == IF "longPointer" \in Overlooked THEN setting.hops ELSE Length[f]
CarriesIn(f, mine, v) == Carries(f, code[f], v, mine, Hops(f))
ReadsIn(f, mine, k) == Reads(code[f][k].uses[1], mine)
TaintedAt(f, mine, op) ==
    {k \in DOMAIN code[f] : code[f][k].op = op /\ CarriesIn(f, mine, code[f][k].uses[1])}

HandedAt(f, mine, k) == {i \in DOMAIN code[f][k].uses : CarriesIn(f, mine, code[f][k].uses[i])}
CallsIn(f, mine) ==
    {k \in DOMAIN code[f] : code[f][k].op = "call" /\ HandedAt(f, mine, k) # {}}
CalledAt(f, mine, k) == {<<g, Taken(g, HandedAt(f, mine, k))>> : g \in code[f][k].targets}

\* The calls, each with what a target does.
EffectsIn(flow, f, mine) ==
    UNION {{<<k, flow[d]>> : d \in CalledAt(f, mine, k) \intersect Contexts} :
               k \in CallsIn(f, mine)}

\* The buffers and parameters that the target of a call writes through its arguments.
WrittenBy(f, effect) ==
    {Root(f, code[f], code[f][effect[1]].uses[i], Hops(f)) : i \in effect[2].out}

Written(f, mine, effects, v) ==
    \/ \E k \in TaintedAt(f, mine, "store") : code[f][k].into = v
    \/ \E e \in effects : v \in UNION WrittenBy(f, e)

\* A target that is handed an argument beyond its parameters.
Surplus(g, args) ==
    /\ Taken(g, args) # args
    /\ (IF Taken(g, args) = {} THEN "surplusAlone" ELSE "surplusArgument") \notin Overlooked

Untraceable(f, mine, effects) ==
    \/ \E k \in TaintedAt(f, mine, "unlifted") :
           ReadsIn(f, mine, k) \/ "unliftedPointer" \notin Overlooked
    \/ \E k \in CallsIn(f, mine) :
           \/ code[f][k].targets = {} \/ ~(CalledAt(f, mine, k) \subseteq Contexts)
           \/ \E g \in code[f][k].targets : Surplus(g, HandedAt(f, mine, k))
    \/ \E e \in effects : e[2].unknown \/ {} \in WrittenBy(f, e)

Outcome(f, mine, effects) ==
    [values  |-> mine
                 \union {Defined(f, k) : k \in {j \in TaintedAt(f, mine, "move") : ReadsIn(f, mine, j)}}
                 \union {Defined(f, e[1]) : e \in {x \in effects : x[2].returns}}
                 \union {v \in {0} : Written(f, mine, effects, v)},
     returns |-> TaintedAt(f, mine, "return") # {},
     out     |-> {i \in Params(f) : Written(f, mine, effects, i)},
     sinks   |-> {<<f, k>> : k \in TaintedAt(f, mine, "sink")}
                 \union UNION {e[2].sinks : e \in effects},
     unknown |-> Untraceable(f, mine, effects)]

Consequences(flow, c) ==
    LET mine == flow[c].values
        effects == EffectsIn(flow, c[1], mine)
    IN  Outcome(c[1], mine, effects)

Flow[n \in Nat] ==
    IF n = 0 THEN NoFlow
    ELSE LET flow == Flow[n - 1]
         IN  [c \in Contexts |-> Consequences(flow, c)]

Truth == Flow[Rounds][<<"main", sources>>]

-----------------------------------------------------------------------------
(* An all-clear is true: no tainted value of the program reaches a sink, nor code  *)
(* that the run could not look into, but for what Overlooked names.  No budget,    *)
(* summary, recursion guard or order of the instructions hides a flow without      *)
(* withholding the all-clear.                                                      *)
AllClearIsTrue == AllClear => Truth.sinks = {} /\ ~Truth.unknown

(* A run that withholds nothing reports exactly the sinks that the source reaches. *)
CompleteRunIsExact == Done /\ NothingWithheld => result.sinks = Truth.sinks

=============================================================================
