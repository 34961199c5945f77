--------------------------- MODULE TaintBackward ---------------------------
(***************************************************************************)
(* A backward slice (taint_engine.TaintEngine.backward) of a value that a  *)
(* sink reads, and the gate that says whether the slice may be read as     *)
(* complete (taint_result.backward_diagnostics).  A frame is an activation *)
(* of _backward_slice: it walks the definitions of one function back from  *)
(* a seed, depth first, and goes on into the callers where it bottoms out  *)
(* at a parameter.  A slice names one origin: the walk ranks them.         *)
(*                                                                         *)
(* Values 1..Arity[f] are the parameters of f and instruction k defines    *)
(* value Arity[f] + k.  A sink that reads through a pointer is never       *)
(* complete (pointer_demand_not_certified), so a seed is a plain value     *)
(* here and a load is one whose bytes stay unaccounted for.                *)
(***************************************************************************)
EXTENDS Naturals, Sequences, SequencesExt, FiniteSets

CONSTANTS SliceFunctions,   \* the functions; "sinking" is the one with the sink
          Arity,            \* how many parameters each has
          Size,             \* how many instructions
          Definitions,      \* the definitions that each may consist of
          SiteLists,        \* the lists of caller sites that each may have
          Bounds,           \* the bounds [steps, depth, callers] to run with
          Undisclosed       \* losses known to go untold: "skippedSite", "returnedSource"

VARIABLES
    defs,        \* the body of each function, << >> until the slice gets there
    sites,       \* {the caller sites of each function}, {} until they are asked for
    bounds,      \* engine max_depth, --depth and MAX_CALLERS
    seed,        \* the value that the sink reads
    frames,      \* the activations of _backward_slice
    frontier,    \* _bw_leaves
    caveats,     \* _bw_assumptions
    cut,         \* _bw_truncation_causes
    masked,      \* parameters that the origin of a finished walk hides
    slices       \* the slices of the finished run

sliceProgram == <<defs, sites, bounds, seed>>
sliceVars == <<sliceProgram, frames, frontier, caveats, cut, masked, slices>>

SliceValues(f) == 1..(Arity[f] + Size[f])

\* Only what reads variables has reads, and a site has an argument for each parameter,
\* 0 for one that reads no variable.
WellDefined ==
    \A f \in SliceFunctions : \A d \in Definitions[f] :
        d.reads \in Seq(SliceValues(f)) /\ (d.kind # "reads" => d.reads = << >>)

WellCalled ==
    \A f \in SliceFunctions : \A list \in SiteLists[f] :
        /\ list \in Seq([caller : SliceFunctions, args : [1..Arity[f] -> Nat], found : BOOLEAN])
        /\ \A t \in ToSet(list), i \in 1..Arity[f] : t.args[i] \in {0} \union SliceValues(t.caller)

BackwardConstants ==
    /\ "sinking" \in SliceFunctions
    /\ Arity \in [SliceFunctions -> Nat]
    /\ Size \in [SliceFunctions -> Nat \ {0}]
    /\ WellDefined /\ WellCalled
    /\ Bounds \subseteq [steps : Nat, depth : Nat, callers : Nat]
    /\ Undisclosed \subseteq {"skippedSite", "returnedSource"}

Definition(kind, reads) == [kind |-> kind, reads |-> reads]
Site(caller, args, found) == [caller |-> caller, args |-> args, found |-> found]

Parameter(f, v) == v <= Arity[f]
Defining(f, v) == defs[f][v - Arity[f]]

-----------------------------------------------------------------------------
(***************************************************************************)
(* Activations and origins.                                                *)
(***************************************************************************)

Unresolved == [kind |-> "unresolved", value |-> 0]

\* todo: the values still to walk, each with its depth; terminal: terminal_params.
Activation(f, v) ==
    [fn |-> f, todo |-> <<<<v, 0>>>>, visited |-> {}, origin |-> Unresolved, rank |-> 0,
     terminal |-> << >>, ascending |-> FALSE, at |-> 1, followed |-> FALSE, found |-> {}]

\* _set_origin: a parameter outranks every other origin, and a literal gives way to any.
Ranks == [parameter |-> 0, entry |-> 1, call |-> 1, load |-> 1, constant |-> 3]

SetOrigin(frame, kind, v) ==
    IF frame.origin.kind = "unresolved" \/ frame.rank > Ranks[kind]
    THEN [frame EXCEPT !.origin = [kind |-> kind, value |-> v], !.rank = Ranks[kind]]
    ELSE frame

\* The returned value of a source, or of a call whose target is unknown, is the origin
\* at once, at the rank of the origin before it.
ReplaceOrigin(frame, kind, v) == [frame EXCEPT !.origin = [kind |-> kind, value |-> v]]

Current == frames[Len(frames)]
AscentDepth == Len(frames) - 1
AscendedFrom == {frames[i].fn : i \in 1..(Len(frames) - 1)}
SetCurrent(frame) == frames' = [frames EXCEPT ![Len(frames)] = frame]

BodiesOf(f) == [1..Size[f] -> Definitions[f]]

BackwardInit ==
    /\ \E body \in BodiesOf("sinking") :
          defs = [f \in SliceFunctions |-> IF f = "sinking" THEN body ELSE << >>]
    /\ sites = [f \in SliceFunctions |-> {}]
    /\ bounds \in Bounds
    /\ seed \in SliceValues("sinking")
    /\ frames = <<Activation("sinking", seed)>>
    /\ frontier = {} /\ caveats = {} /\ cut = {} /\ masked = {}
    /\ slices = {}

\* No backward slice: the values while another command runs, which claim nothing.
BackwardParked ==
    /\ defs = << >> /\ sites = << >> /\ bounds = << >> /\ seed = 0
    /\ frames = << >> /\ frontier = {} /\ caveats = {} /\ cut = {"notRun"}
    /\ masked = {} /\ slices = {}

-----------------------------------------------------------------------------
(***************************************************************************)
(* walk: one value of the function.                                        *)
(***************************************************************************)

Walking == frames # << >> /\ ~Current.ascending /\ Current.todo # << >>
Value == Head(Current.todo)[1]
Steps == Head(Current.todo)[2]
New == Walking /\ Steps <= bounds.steps /\ Value \notin Current.visited

Walked(frame) == [frame EXCEPT !.todo = Tail(@), !.visited = @ \union {Value}]
Quiet == UNCHANGED <<sliceProgram, caveats, cut, masked, slices>>

\* The walk is cut, with a caveat and without a truncation cause.
CutChain ==
    /\ Walking /\ Steps > bounds.steps
    /\ SetCurrent([Current EXCEPT !.todo = Tail(@)])
    /\ caveats' = caveats \union {"chain_truncated"}
    /\ UNCHANGED <<sliceProgram, frontier, cut, masked, slices>>

AlreadyWalked ==
    /\ Walking /\ Steps <= bounds.steps /\ Value \in Current.visited
    /\ SetCurrent([Current EXCEPT !.todo = Tail(@)])
    /\ Quiet /\ UNCHANGED frontier

WalkParameter ==
    /\ New /\ Parameter(Current.fn, Value)
    /\ SetCurrent(SetOrigin([Walked(Current) EXCEPT !.terminal = Append(@, Value)],
                            "parameter", Value))
    /\ Quiet /\ UNCHANGED frontier

Leading(kinds) == New /\ ~Parameter(Current.fn, Value) /\ Defining(Current.fn, Value).kind \in kinds

\* A value without further reads: undefined, a constant, or what a call returned.
WalkLeaf ==
    /\ Leading({"entry", "constant", "call"})
    /\ SetCurrent(SetOrigin(Walked(Current), Defining(Current.fn, Value).kind, Value))
    /\ Quiet /\ UNCHANGED frontier

WalkReturn ==
    /\ Leading({"source", "indirect"})
    /\ LET kind == Defining(Current.fn, Value).kind
       IN  /\ SetCurrent(ReplaceOrigin(Walked(Current), kind, Value))
           /\ frontier' = frontier \union ({kind} \intersect {"indirect"})
    /\ Quiet

WalkLoad ==
    /\ Leading({"load"})
    /\ SetCurrent(SetOrigin(Walked(Current), "load", Value))
    /\ frontier' = frontier \union {"load"}
    /\ Quiet

WalkReads ==
    /\ Leading({"reads"})
    /\ LET reads == Defining(Current.fn, Value).reads
           next == [i \in DOMAIN reads |-> <<reads[i], Steps + 1>>]
       IN  SetCurrent([Walked(Current) EXCEPT !.todo = next \o @])
    /\ Quiet /\ UNCHANGED frontier

Walk == \/ CutChain \/ AlreadyWalked \/ WalkParameter \/ WalkLeaf \/ WalkReturn
        \/ WalkLoad \/ WalkReads

-----------------------------------------------------------------------------
(***************************************************************************)
(* The end of a walk, and the ascent into the callers.                     *)
(***************************************************************************)

WalkEnded == frames # << >> /\ ~Current.ascending /\ Current.todo = << >>
Ascending == frames # << >> /\ Current.ascending

\* The sites are known from here on; MAX_CALLERS of them are considered.
Listed(f) == CHOOSE list \in sites[f] : TRUE
Considered(f) == SubSeq(Listed(f), 1, Min({Len(Listed(f)), bounds.callers}))

Accounted(frame) == {<<frame.fn, v>> : v \in frame.visited}
Slice(frame, origin, params) ==
    [fn |-> frame.fn, origin |-> origin, values |-> Accounted(frame), params |-> params]
Below(frame, sub) == [sub EXCEPT !.values = @ \union Accounted(frame)]

Receives(frame, found) ==
    [frame EXCEPT !.found = @ \union {Below(frame, s) : s \in found},
                  !.followed = TRUE, !.at = @ + 1]

\* A slice is handed to the activation that asked for it, or ends the run.
HandOver(found) ==
    IF Len(frames) = 1
    THEN frames' = << >> /\ slices' = found
    ELSE /\ frames' = [SubSeq(frames, 1, Len(frames) - 1) EXCEPT
                          ![Len(frames) - 1] = Receives(frames[Len(frames) - 1], found)]
         /\ UNCHANGED slices

MayAscend == Current.origin.kind = "parameter" /\ AscentDepth < bounds.depth
             /\ Current.fn \notin AscendedFrom

\* The origin is no parameter, or the ascent may not go on from here.
EndSlice ==
    /\ WalkEnded /\ ~MayAscend
    /\ HandOver({Slice(Current, Current.origin, ToSet(Current.terminal))})
    /\ masked' = IF Current.origin.kind = "source"
                 THEN masked \union {<<Current.fn, i>> : i \in ToSet(Current.terminal)} ELSE masked
    /\ UNCHANGED <<sliceProgram, frontier, caveats, cut>>

AskForSites ==
    /\ WalkEnded /\ MayAscend
    /\ IF sites[Current.fn] = {}
       THEN \E list \in SiteLists[Current.fn] : sites' = [sites EXCEPT ![Current.fn] = {list}]
       ELSE UNCHANGED sites
    /\ SetCurrent([Current EXCEPT !.ascending = TRUE])
    /\ UNCHANGED <<defs, bounds, seed, frontier, caveats, cut, masked, slices>>

\* Nobody calls the function: its parameters are where the slice ends.
NoCaller ==
    /\ Ascending /\ Listed(Current.fn) = << >>
    /\ HandOver({Slice(Current, Current.origin, ToSet(Current.terminal))})
    /\ UNCHANGED <<sliceProgram, frontier, caveats, cut, masked>>

AtSite == /\ Ascending /\ Current.terminal # << >>
          /\ Current.at <= Len(Considered(Current.fn))
ThisSite == Considered(Current.fn)[Current.at]
NextSite(frame) == [frame EXCEPT !.at = @ + 1]

\* No function, no lifted body, no call at the address or too few arguments.
SkipSite ==
    /\ AtSite /\ ~ThisSite.found
    /\ SetCurrent(NextSite(Current))
    /\ Quiet /\ UNCHANGED frontier

\* The argument reads no variable.
UntrackableArgument ==
    /\ AtSite /\ ThisSite.found
    /\ ThisSite.args[Head(Current.terminal)] = 0
    /\ SetCurrent(NextSite(Current))
    /\ caveats' = caveats \union {"argument_untrackable"}
    /\ UNCHANGED <<sliceProgram, frontier, cut, masked, slices>>

EnterCaller ==
    /\ AtSite /\ ThisSite.found
    /\ ThisSite.args[Head(Current.terminal)] # 0
    /\ IF defs[ThisSite.caller] = << >>
       THEN \E body \in BodiesOf(ThisSite.caller) :
                defs' = [defs EXCEPT ![ThisSite.caller] = body]
       ELSE UNCHANGED defs
    /\ frames' = Append(frames, Activation(ThisSite.caller,
                                           ThisSite.args[Head(Current.terminal)]))
    /\ UNCHANGED <<sites, bounds, seed, frontier, caveats, cut, masked, slices>>

\* A parameter that no site was followed for is an origin itself.
NextParameter ==
    /\ Ascending /\ Current.terminal # << >> /\ Listed(Current.fn) # << >>
    /\ Current.at > Len(Considered(Current.fn))
    /\ LET own == {Slice(Current, [kind |-> "parameter", value |-> Head(Current.terminal)],
                         {Head(Current.terminal)})}
       IN  SetCurrent([Current EXCEPT !.at = 1, !.followed = FALSE, !.terminal = Tail(@),
                                      !.found = IF Current.followed THEN @ ELSE @ \union own])
    /\ Quiet /\ UNCHANGED frontier

\* Mutant: the cap is told in a caveat, as it was before it became a frontier.
NoteNoCallerCap(f) == FALSE

\* _bw_note_caller_cap.
NoteCallerCap(f) == Len(Listed(f)) > bounds.callers

EndAscent ==
    /\ Ascending /\ Current.terminal = << >> /\ Listed(Current.fn) # << >>
    /\ HandOver(Current.found)
    /\ frontier' = frontier \union {l \in {"caller_sites"} : NoteCallerCap(Current.fn)}
    /\ cut' = cut \union {c \in {"caller_cap"} : NoteCallerCap(Current.fn)}
    /\ UNCHANGED <<sliceProgram, caveats, masked>>

Ascend == \/ AskForSites \/ NoCaller \/ SkipSite \/ UntrackableArgument \/ EnterCaller
          \/ NextParameter \/ EndAscent

BackwardNext == Walk \/ EndSlice \/ Ascend

\* safe_to_report_complete_slice.
SaysComplete ==
    /\ frames = << >>
    /\ frontier = {}
    /\ \A s \in slices : s.origin.kind # "unresolved"
    /\ cut = {}

-----------------------------------------------------------------------------
(***************************************************************************)
(* What the sink's value depends on: every read, every argument at every   *)
(* caller site.  It ends where a slice names a parameter as its origin,    *)
(* for then the reader knows that something lies behind.                   *)
(***************************************************************************)

\* One parameter as the origin of a slice stands for all those that its walk ended at.
Named == UNION {{<<s.fn, i>> : i \in s.params} :
                    s \in {t \in slices : t.origin.kind = "parameter"}}

Excused(f, v) == "returnedSource" \in Undisclosed /\ <<f, v>> \in masked

Arguments(f, v) ==
    IF sites[f] = {} THEN {<<"unasked", v>>}
    ELSE {<<s.caller, s.args[v]>> :
             s \in {t \in ToSet(Listed(f)) :
                       t.args[v] # 0 /\ ("skippedSite" \in Undisclosed => t.found)}}

DependsOn(f, v) ==
    IF f \notin SliceFunctions \/ defs[f] = << >> THEN {}
    ELSE IF ~Parameter(f, v) THEN {<<f, w>> : w \in ToSet(Defining(f, v).reads)}
    ELSE IF <<f, v>> \in Named \/ Excused(f, v) THEN {}
    ELSE Arguments(f, v)

Covered == UNION {s.values : s \in slices}

(* A slice that is said to be complete, without the caveat that a chain was cut,   *)
(* accounts for the sink's value, and with each value for all that it depends on:  *)
(* neither the order of the walk, the ranks of origins, recursion, the depth of    *)
(* the ascent nor the cap on callers hides an origin.  Left out are the losses in  *)
(* Undisclosed.                                                                    *)
CompleteSliceIsComplete ==
    SaysComplete /\ "chain_truncated" \notin caveats =>
        /\ <<"sinking", seed>> \in Covered
        /\ \A d \in Covered : DependsOn(d[1], d[2]) \subseteq Covered

=============================================================================
