----------------------------- MODULE TaintProofs -----------------------------
(***************************************************************************)
(* CompleteSliceIsComplete for any functions, call sites and bounds, and   *)
(* AllClearIsTrue for any program, budget and number of rounds of the      *)
(* reference.                                                              *)
(***************************************************************************)
EXTENDS Taint, SequenceTheorems, WellFoundedInduction, TLAPS

-----------------------------------------------------------------------------
(***************************************************************************)
(* The backward slice: what its state looks like.                          *)
(***************************************************************************)

Kinds == {"unresolved", "parameter", "entry", "call", "load", "constant", "source", "indirect"}
Origins == [kind : Kinds, value : Nat]
Slices == [fn : SliceFunctions, origin : Origins,
           values : SUBSET (SliceFunctions \X Nat), params : SUBSET Nat]
Activations ==
    [fn : SliceFunctions, todo : Seq(Nat \X Nat), visited : SUBSET Nat, origin : Origins,
     rank : Nat, terminal : Seq(Nat), ascending : BOOLEAN, at : Nat \ {0},
     followed : BOOLEAN, found : SUBSET Slices]

\* The values of a frame are values of its function, and what it ended at are parameters.
Local(frame) ==
    /\ \A j \in DOMAIN frame.todo : frame.todo[j][1] \in SliceValues(frame.fn)
    /\ frame.visited \subseteq SliceValues(frame.fn)
    /\ \A j \in DOMAIN frame.terminal : frame.terminal[j] \in 1..Arity[frame.fn]
    /\ defs[frame.fn] # << >>

\* A parameter that was reached is the origin, unless a returned value hides it.
Ranked(frame) ==
    /\ frame.rank = 0 => frame.origin.kind \in {"unresolved", "parameter", "source", "indirect"}
    /\ frame.terminal # << >> => frame.rank = 0 /\ frame.origin.kind # "unresolved"
    /\ frame.origin.kind = "parameter" => frame.terminal # << >> \/ frame.ascending
    /\ frame.origin.kind = "indirect" => frontier # {}

\* Whoever ascends has walked everything, and hands over at least one slice.
Upward(frame) ==
    IF frame.ascending
    THEN /\ frame.todo = << >> /\ frame.origin.kind = "parameter" /\ sites[frame.fn] # {}
         /\ frame.terminal = << >> \/ frame.followed => frame.found # {}
         /\ Listed(frame.fn) = << >> => frame.found = {}
    ELSE frame.at = 1 /\ ~frame.followed /\ frame.found = {}

\* A slice that was found further up goes on from all that was walked here.
Hull(frame) == \A s \in frame.found : Accounted(frame) \subseteq s.values

SliceTyped ==
    /\ bounds \in [steps : Nat, depth : Nat, callers : Nat]
    /\ defs \in [SliceFunctions -> UNION {BodiesOf(f) \union {<< >>} : f \in SliceFunctions}]
    /\ \A f \in SliceFunctions : defs[f] \in BodiesOf(f) \union {<< >>}
    /\ \A f \in SliceFunctions : sites[f] = {} \/ \E list \in SiteLists[f] : sites[f] = {list}
    /\ DOMAIN sites = SliceFunctions
    /\ seed \in SliceValues("sinking")
    /\ frames \in Seq(Activations)
    /\ slices \subseteq Slices
    /\ frames # << >> => slices = {}
    /\ \A i \in 1..Len(frames) :
           Local(frames[i]) /\ Ranked(frames[i]) /\ Upward(frames[i]) /\ Hull(frames[i])
    /\ \A i \in 1..Len(frames) :
           i < Len(frames) => /\ frames[i].ascending /\ frames[i].terminal # << >>
                              /\ Listed(frames[i].fn) # << >>

-----------------------------------------------------------------------------
(***************************************************************************)
(* What the slice has accounted for, and what it still will.               *)
(***************************************************************************)

Kept == slices \union UNION {frames[i].found : i \in 1..Len(frames)}

Seen(f, v) ==
    \/ \E i \in 1..Len(frames) : frames[i].fn = f /\ v \in frames[i].visited
    \/ \E s \in Kept : <<f, v>> \in s.values

Awaited(f, v) ==
    \E i \in 1..Len(frames) :
        frames[i].fn = f /\ \E j \in DOMAIN frames[i].todo : frames[i].todo[j][1] = v

Reached(f, v) == Seen(f, v) \/ Awaited(f, v)

NamedAt(f, v) ==
    \E s \in Kept : s.origin.kind = "parameter" /\ s.fn = f /\ v \in s.params

\* A frame has yet to follow the parameter.
Pending(f, v) ==
    \E i \in 1..Len(frames) :
        frames[i].fn = f /\ \E j \in DOMAIN frames[i].terminal : frames[i].terminal[j] = v

\* A frame has yet to tell that it did not look at all call sites.
Untold(f) ==
    NoteCallerCap(f) /\ \E i \in 1..Len(frames) : frames[i].fn = f /\ frames[i].ascending

Answered(t, v) == t.found /\ t.args[v] # 0 => Reached(t.caller, t.args[v])

Followed(f, v) == sites[f] # {} /\ \A j \in DOMAIN Listed(f) : Answered(Listed(f)[j], v)

Told(f, v) ==
    NamedAt(f, v) \/ <<f, v>> \in masked \/ Pending(f, v) \/ Untold(f) \/ Followed(f, v)

Settled(f, v) ==
    IF Parameter(f, v) THEN Told(f, v)
    ELSE \A j \in DOMAIN Defining(f, v).reads : Reached(f, Defining(f, v).reads[j])

\* The call sites before the one that a frame is at are done with.
Progress(frame) ==
    frame.ascending /\ frame.terminal # << >> =>
        \A j \in DOMAIN Listed(frame.fn) :
            j < frame.at /\ j <= bounds.callers => Answered(Listed(frame.fn)[j], Head(frame.terminal))

\* The site that a frame is at is the one that the frame above it follows.
Upheld(frame) ==
    frame.at \in DOMAIN Listed(frame.fn) => Answered(Listed(frame.fn)[frame.at], Head(frame.terminal))

Disclosed == frontier # {} \/ cut # {} \/ "chain_truncated" \in caveats

Traced ==
    /\ Reached("sinking", seed)
    /\ \A f \in SliceFunctions, v \in Nat : Seen(f, v) => defs[f] # << >> /\ Settled(f, v)
    /\ \A i \in 1..Len(frames) : Progress(frames[i])
    /\ \A i \in 1..Len(frames) : i < Len(frames) => Upheld(frames[i])

SliceInv == SliceTyped /\ (Disclosed \/ Traced)
-----------------------------------------------------------------------------
(***************************************************************************)
(* Steps that change the frame on top.                                     *)
(***************************************************************************)

LEMMA FrameIsActivation ==
    ASSUME frames \in Seq(Activations), NEW i \in 1..Len(frames)
    PROVE  frames[i] \in Activations /\ frames[i].fn \in SliceFunctions
<1>1. frames[i] \in Activations
  OBVIOUS
<1> QED BY <1>1 DEF Activations

LEMMA TopFrame ==
    ASSUME SliceTyped, frames # << >>
    PROVE  /\ Len(frames) \in Nat \ {0} /\ Current = frames[Len(frames)]
           /\ Len(frames) \in 1..Len(frames)
           /\ Current \in Activations /\ slices = {}
           /\ Local(Current) /\ Ranked(Current) /\ Upward(Current) /\ Hull(Current)
BY DEF SliceTyped, Current

LEMMA TopChanges ==
    ASSUME SliceTyped, frames # << >>, NEW fr \in Activations, SetCurrent(fr)
    PROVE  /\ frames' \in Seq(Activations) /\ Len(frames') = Len(frames) /\ frames' # << >>
           /\ \A i \in 1..Len(frames) : i # Len(frames) => frames'[i] = frames[i]
           /\ frames'[Len(frames)] = fr
BY DEF SliceTyped, SetCurrent

LEMMA TopTyped ==
    ASSUME SliceTyped, frames # << >>, NEW fr \in Activations, SetCurrent(fr),
           fr.fn = Current.fn,
           UNCHANGED <<defs, bounds, seed, slices>>, frontier \subseteq frontier',
           DOMAIN sites' = SliceFunctions,
           \A f \in SliceFunctions : IF sites[f] = {}
               THEN sites'[f] = {} \/ \E list \in SiteLists[f] : sites'[f] = {list}
               ELSE sites'[f] = sites[f],
           Local(fr), Ranked(fr)', Upward(fr)', Hull(fr)
    PROVE  SliceTyped'
<1>1. /\ frames' \in Seq(Activations) /\ Len(frames') = Len(frames) /\ frames' # << >>
      /\ \A i \in 1..Len(frames) : i # Len(frames) => frames'[i] = frames[i]
      /\ frames'[Len(frames)] = fr
  BY TopChanges
<1>2. ASSUME NEW i \in 1..Len(frames)
      PROVE  /\ Local(frames[i])' /\ Ranked(frames[i])' /\ Upward(frames[i])' /\ Hull(frames[i])'
             /\ i < Len(frames) => /\ frames'[i].ascending /\ frames'[i].terminal # << >>
                                /\ Listed(frames[i].fn)' # << >>
  <2>0. fr.fn \in SliceFunctions
    BY DEF Activations
  <2>1. CASE i = Len(frames)
    <3>1. frames'[i] = fr
      BY <1>1, <2>1
    <3> QED BY <3>1, <2>0, <2>1 DEF Local, Ranked, Upward, Hull, Accounted
  <2>2. CASE i # Len(frames)
    <3>1. frames'[i] = frames[i] /\ Local(frames[i]) /\ Ranked(frames[i])
          /\ Upward(frames[i]) /\ Hull(frames[i])
      BY <1>1, <2>2 DEF SliceTyped
    <3>2. frames[i].fn \in SliceFunctions
      <4>1. frames \in Seq(Activations)
        BY DEF SliceTyped
      <4> QED BY <4>1, FrameIsActivation
    <3>3. Local(frames[i])' /\ Hull(frames[i])'
      BY <3>1 DEF Local, Hull, Accounted
    <3>4. Ranked(frames[i])'
      BY <3>1 DEF Ranked
    <3>5. sites[frames[i].fn] # {} => Listed(frames[i].fn)' = Listed(frames[i].fn)
      BY <3>1, <3>2 DEF Listed
    <3>6. Upward(frames[i])'
      BY <3>1, <3>2, <3>5 DEF Upward
    <3>7. i < Len(frames) => /\ frames'[i].ascending /\ frames'[i].terminal # << >>
                             /\ Listed(frames[i].fn)' # << >>
      BY <3>1, <3>5 DEF SliceTyped, Upward
    <3> QED BY <3>3, <3>4, <3>6, <3>7
  <2> QED BY <2>1, <2>2
<1>3. frames # << >> => slices' = {}
  BY DEF SliceTyped
<1> QED BY <1>1, <1>2, <1>3 DEF SliceTyped

LEMMA TopKeeps ==
    ASSUME SliceTyped, frames # << >>, NEW fr \in Activations, SetCurrent(fr),
           fr.fn = Current.fn, slices' = slices,
           Current.visited \subseteq fr.visited, Current.found \subseteq fr.found,
           \A j \in DOMAIN Current.todo :
               \/ Current.todo[j][1] \in fr.visited
               \/ \E k \in DOMAIN fr.todo : fr.todo[k][1] = Current.todo[j][1],
           NEW f, NEW v
    PROVE  /\ Seen(f, v) => Seen(f, v)'
           /\ Reached(f, v) => Reached(f, v)'
           /\ NamedAt(f, v) => NamedAt(f, v)'
<1>1. /\ frames' \in Seq(Activations) /\ Len(frames') = Len(frames) /\ frames' # << >>
      /\ \A i \in 1..Len(frames) : i # Len(frames) => frames'[i] = frames[i]
      /\ frames'[Len(frames)] = fr
  BY TopChanges
<1>2. Len(frames) \in 1..Len(frames) /\ Current = frames[Len(frames)]
  BY TopFrame
<1>3. Kept \subseteq Kept'
  <2> SUFFICES ASSUME NEW s \in Kept PROVE s \in Kept'
    OBVIOUS
  <2>1. CASE s \in slices
    BY <2>1 DEF Kept
  <2>2. CASE \E i \in 1..Len(frames) : s \in frames[i].found
    <3>1. PICK i \in 1..Len(frames) : s \in frames[i].found
      BY <2>2
    <3>2. s \in frames'[i].found
      BY <1>1, <1>2, <3>1
    <3> QED BY <3>2, <1>1 DEF Kept
  <2> QED BY <2>1, <2>2 DEF Kept
<1>4. Seen(f, v) => Seen(f, v)'
  <2>1. ASSUME NEW i \in 1..Len(frames), frames[i].fn = f, v \in frames[i].visited
        PROVE  Seen(f, v)'
    <3>1. frames'[i].fn = f /\ v \in frames'[i].visited
      BY <1>1, <1>2, <2>1
    <3> QED BY <3>1, <1>1 DEF Seen
  <2> QED BY <2>1, <1>3 DEF Seen
<1>5. Awaited(f, v) => Reached(f, v)'
  <2> SUFFICES ASSUME NEW i \in 1..Len(frames), frames[i].fn = f, NEW j \in DOMAIN frames[i].todo,
                      frames[i].todo[j][1] = v
               PROVE  Reached(f, v)'
    BY DEF Awaited
  <2>1. CASE i = Len(frames)
    <3>1. frames'[i] = fr /\ fr.fn = f /\ i \in 1..Len(frames')
      BY <1>1, <1>2, <2>1
    <3>2. CASE v \in fr.visited
      BY <3>1, <3>2 DEF Reached, Seen
    <3>3. CASE \E k \in DOMAIN fr.todo : fr.todo[k][1] = v
      BY <3>1, <3>3 DEF Reached, Awaited
    <3> QED BY <3>2, <3>3, <2>1, <1>2
  <2>2. CASE i # Len(frames)
    <3>1. frames'[i] = frames[i] /\ i \in 1..Len(frames')
      BY <1>1, <2>2
    <3> QED BY <3>1 DEF Reached, Awaited
  <2> QED BY <2>1, <2>2
<1>6. NamedAt(f, v) => NamedAt(f, v)'
  BY <1>3 DEF NamedAt
<1> QED BY <1>4, <1>5, <1>6 DEF Reached

\* What was settled stays so: only the pending parameters of the frames that a step
\* touches need to be looked at.
LEMMA SettledStays ==
    ASSUME NEW f \in SliceFunctions, NEW v \in Nat, Settled(f, v), defs[f] # << >>,
           defs'[f] = defs[f], sites[f] # {} => sites'[f] = sites[f], masked \subseteq masked',
           \A g, w : (Reached(g, w) => Reached(g, w)') /\ (NamedAt(g, w) => NamedAt(g, w)'),
           Pending(f, v) => Told(f, v)', Untold(f) => Told(f, v)'
    PROVE  Settled(f, v)'
<1>1. CASE Parameter(f, v)
  <2>1. Followed(f, v) => Followed(f, v)'
    BY DEF Followed, Answered, Listed
  <2> QED BY <1>1, <2>1 DEF Settled, Told, Parameter
<1>2. CASE ~Parameter(f, v)
  BY <1>2 DEF Settled, Parameter, Defining
<1> QED BY <1>1, <1>2


\* A frame below the top, or one that a step leaves alone, keeps its place.
LEMMA PlaceStays ==
    ASSUME SliceTyped, NEW i \in 1..Len(frames), NEW k \in 1..Len(frames'),
           frames'[k] = frames[i], bounds' = bounds,
           \A f \in SliceFunctions : sites[f] # {} => sites'[f] = sites[f],
           \A g, w : Reached(g, w) => Reached(g, w)'
    PROVE  /\ Progress(frames[i]) => Progress(frames[k])'
           /\ frames[i].ascending /\ Upheld(frames[i]) => Upheld(frames[k])'
<1>1. frames[i].fn \in SliceFunctions
  BY FrameIsActivation DEF SliceTyped
<1>2. frames[i].ascending => sites'[frames[i].fn] = sites[frames[i].fn]
  BY <1>1 DEF SliceTyped, Upward
<1>3. \A t, v : Answered(t, v) => Answered(t, v)'
  BY DEF Answered
<1>4. Progress(frames[i]) => Progress(frames[k])'
  <2> SUFFICES ASSUME Progress(frames[i]), frames[i].ascending, frames[i].terminal # << >>
               PROVE  Progress(frames[k])'
    BY DEF Progress
  <2>1. Listed(frames[k].fn)' = Listed(frames[i].fn)
    BY <1>2 DEF Listed
  <2>2. ASSUME NEW j \in DOMAIN Listed(frames[i].fn), j < frames[i].at, j <= bounds.callers
        PROVE  Answered(Listed(frames[i].fn)[j], Head(frames[i].terminal))
    BY <2>2 DEF Progress
  <2> QED BY <1>3, <2>1, <2>2 DEF Progress
<1>5. frames[i].ascending /\ Upheld(frames[i]) => Upheld(frames[k])'
  <2> SUFFICES ASSUME frames[i].ascending, Upheld(frames[i]) PROVE Upheld(frames[k])'
    OBVIOUS
  <2>1. Listed(frames[k].fn)' = Listed(frames[i].fn)
    BY <1>2 DEF Listed
  <2> QED BY <1>3, <2>1 DEF Upheld
<1> QED BY <1>4, <1>5

LEMMA TopTraced ==
    ASSUME SliceTyped, Traced, frames # << >>, NEW fr \in Activations, SetCurrent(fr),
           fr.fn = Current.fn,
           UNCHANGED <<defs, bounds, seed, masked, slices>>,
           \A f \in SliceFunctions : sites[f] # {} => sites'[f] = sites[f],
           Current.visited \subseteq fr.visited, Current.found \subseteq fr.found,
           \A j \in DOMAIN Current.todo :
               \/ Current.todo[j][1] \in fr.visited
               \/ \E k \in DOMAIN fr.todo : fr.todo[k][1] = Current.todo[j][1],
           Current.ascending => fr.ascending,
           \A v \in fr.visited : v \in Current.visited \/ Settled(fr.fn, v)',
           \A s \in fr.found : s \in Current.found \/ s.values \subseteq Accounted(Current),
           \A v \in Nat : (\E j \in DOMAIN Current.terminal : Current.terminal[j] = v) =>
               (\E k \in DOMAIN fr.terminal : fr.terminal[k] = v) \/ Told(fr.fn, v)',
           Progress(Current)'
    PROVE  Traced'
<1>1. /\ frames' \in Seq(Activations) /\ Len(frames') = Len(frames) /\ frames' # << >>
      /\ \A i \in 1..Len(frames) : i # Len(frames) => frames'[i] = frames[i]
      /\ frames'[Len(frames)] = fr
  BY TopChanges
<1>2. Len(frames) \in 1..Len(frames) /\ Current = frames[Len(frames)] /\ Current \in Activations
      /\ slices = {} /\ Len(frames) \in Nat
  BY TopFrame
<1>3. \A f, v : /\ Seen(f, v) => Seen(f, v)'
                /\ Reached(f, v) => Reached(f, v)'
                /\ NamedAt(f, v) => NamedAt(f, v)'
  BY TopKeeps
<1>4. Reached("sinking", seed)'
  BY <1>3 DEF Traced
<1>5. ASSUME NEW i \in 1..Len(frames)
      PROVE  Progress(frames[i])' /\ (i < Len(frames) => Upheld(frames[i])')
  <2>1. CASE i = Len(frames)
    BY <2>1, <1>1, <1>2 DEF Current
  <2>2. CASE i # Len(frames)
    <3>1. frames'[i] = frames[i] /\ i \in 1..Len(frames') /\ i < Len(frames)
      BY <2>2, <1>1, <1>2
    <3>2. Progress(frames[i]) /\ Upheld(frames[i]) /\ frames[i].ascending
      BY <3>1 DEF Traced, SliceTyped
    <3> QED BY <3>1, <3>2, <1>3, PlaceStays
  <2> QED BY <2>1, <2>2
<1>6. ASSUME NEW f \in SliceFunctions, NEW v \in Nat, Seen(f, v)
      PROVE  defs'[f] # << >> /\ Settled(f, v)'
  <2>1. Settled(f, v) /\ defs[f] # << >>
    BY <1>6 DEF Traced
  <2>2. Pending(f, v) => Told(f, v)'
    <3> SUFFICES ASSUME NEW i \in 1..Len(frames), frames[i].fn = f,
                        NEW j \in DOMAIN frames[i].terminal, frames[i].terminal[j] = v
                 PROVE  Told(f, v)'
      BY DEF Pending
    <3>1. CASE i = Len(frames)
      <4>1. Current.fn = f /\ j \in DOMAIN Current.terminal /\ Current.terminal[j] = v
        BY <3>1, <1>2
      <4>2. CASE \E k \in DOMAIN fr.terminal : fr.terminal[k] = v
        <5>1. frames'[i] = fr /\ fr.fn = f /\ i \in 1..Len(frames')
          BY <3>1, <4>1, <1>1
        <5> QED BY <5>1, <4>2 DEF Told, Pending
      <4> QED BY <4>1, <4>2
    <3>2. CASE i # Len(frames)
      BY <3>2, <1>1 DEF Told, Pending
    <3> QED BY <3>1, <3>2
  <2>3. Untold(f) => Told(f, v)'
    <3> SUFFICES ASSUME NoteCallerCap(f), NEW i \in 1..Len(frames), frames[i].fn = f, frames[i].ascending
                 PROVE  Untold(f)'
      BY DEF Untold, Told
    <3>1. sites'[f] = sites[f]
      BY DEF SliceTyped, Upward
    <3>2. NoteCallerCap(f)'
      BY <3>1 DEF NoteCallerCap, Listed
    <3>3. frames'[i].fn = f /\ frames'[i].ascending
      BY <1>1, <1>2
    <3> QED BY <3>2, <3>3, <1>1 DEF Untold
  <2> QED BY <2>1, <2>2, <2>3, <1>3, SettledStays
<1>7. ASSUME NEW f \in SliceFunctions, NEW v \in Nat, Seen(f, v)'
      PROVE  defs'[f] # << >> /\ Settled(f, v)'
  <2>1. CASE Seen(f, v)
    BY <2>1, <1>6
  <2>2. ASSUME NEW i \in 1..Len(frames), frames'[i].fn = f, v \in frames'[i].visited
        PROVE  defs'[f] # << >> /\ Settled(f, v)'
    <3>1. CASE i # Len(frames) \/ v \in Current.visited
      <4>1. Seen(f, v)
        BY <3>1, <2>2, <1>1, <1>2 DEF Seen
      <4> QED BY <4>1, <1>6
    <3>2. CASE i = Len(frames) /\ v \notin Current.visited
      <4>1. fr.fn = f /\ Settled(f, v)'
        BY <3>2, <2>2, <1>1
      <4>2. defs[f] # << >>
        BY <4>1, TopFrame DEF Local
      <4> QED BY <4>1, <4>2
    <3> QED BY <3>1, <3>2
  <2>3. ASSUME NEW s \in Kept', <<f, v>> \in s.values
        PROVE  defs'[f] # << >> /\ Settled(f, v)'
    <3>1. PICK i \in 1..Len(frames) : s \in frames'[i].found
      BY <1>1, <1>2 DEF Kept
    <3>2. CASE s \in frames[i].found
      <4>1. s \in Kept
        BY <3>2 DEF Kept
      <4> QED BY <4>1, <2>3, <1>6 DEF Seen
    <3>3. CASE s \notin frames[i].found
      <4>1. i = Len(frames) /\ s \in fr.found /\ s \notin Current.found
        BY <3>1, <3>3, <1>1, <1>2
      <4>2. <<f, v>> \in Accounted(Current)
        BY <4>1, <2>3
      <4>3. Current.fn = f /\ v \in Current.visited
        BY <4>2 DEF Accounted
      <4>4. Seen(f, v)
        BY <4>3, <1>2 DEF Seen
      <4> QED BY <4>4, <1>6
    <3> QED BY <3>2, <3>3
  <2> QED BY <2>1, <2>2, <2>3, <1>7, <1>1 DEF Seen
<1> QED BY <1>1, <1>4, <1>5, <1>7 DEF Traced

-----------------------------------------------------------------------------
(***************************************************************************)
(* The walk.                                                               *)
(***************************************************************************)

LEMMA DefinitionFacts ==
    ASSUME BackwardConstants, SliceTyped, NEW f \in SliceFunctions, defs[f] # << >>,
           NEW v \in SliceValues(f), ~Parameter(f, v)
    PROVE  /\ Defining(f, v).reads \in Seq(SliceValues(f))
           /\ Defining(f, v).kind # "reads" => Defining(f, v).reads = << >>
<1>1. defs[f] \in BodiesOf(f)
  BY DEF SliceTyped
<1>2. v - Arity[f] \in 1..Size[f]
  BY DEF SliceValues, Parameter, BackwardConstants
<1>3. Defining(f, v) \in Definitions[f]
  BY <1>1, <1>2 DEF BodiesOf, Defining
<1> QED BY <1>3 DEF BackwardConstants, WellDefined

LEMMA HeadAndTail ==
    ASSUME NEW S, NEW q \in Seq(S), q # << >>
    PROVE  /\ Tail(q) \in Seq(S) /\ Head(q) = q[1] /\ 1 \in DOMAIN q /\ q[1] \in S
           /\ \A j \in DOMAIN q : j = 1 \/ \E k \in DOMAIN Tail(q) : Tail(q)[k] = q[j]
           /\ \A k \in DOMAIN Tail(q) : \E j \in DOMAIN q : Tail(q)[k] = q[j]
<1>1. /\ Len(q) \in Nat \ {0} /\ DOMAIN q = 1..Len(q)
      /\ Tail(q) \in Seq(S) /\ DOMAIN Tail(q) = 1..(Len(q) - 1)
      /\ \A k \in 1..(Len(q) - 1) : Tail(q)[k] = q[k + 1]
  OBVIOUS
<1>2. ASSUME NEW j \in DOMAIN q, j # 1 PROVE \E k \in DOMAIN Tail(q) : Tail(q)[k] = q[j]
  <2>1. j - 1 \in 1..(Len(q) - 1) /\ (j - 1) + 1 = j
    BY <1>1, <1>2
  <2>2. Tail(q)[j - 1] = q[j]
    BY <1>1, <2>1
  <2> QED BY <1>1, <2>1, <2>2
<1>3. ASSUME NEW k \in DOMAIN Tail(q) PROVE \E j \in DOMAIN q : Tail(q)[k] = q[j]
  <2>1. k + 1 \in 1..Len(q)
    BY <1>1
  <2> QED BY <1>1, <2>1
<1> QED BY <1>1, <1>2, <1>3

LEMMA WalkFacts ==
    ASSUME SliceTyped, Walking
    PROVE  /\ Current \in Activations /\ ~Current.ascending /\ defs[Current.fn] # << >>
           /\ Current.todo \in Seq(Nat \X Nat) /\ Tail(Current.todo) \in Seq(Nat \X Nat)
           /\ Value \in SliceValues(Current.fn) /\ Value \in Nat /\ Steps \in Nat
           /\ \A j \in DOMAIN Current.todo :
                  \/ Current.todo[j][1] = Value
                  \/ \E k \in DOMAIN Tail(Current.todo) : Tail(Current.todo)[k] = Current.todo[j]
           /\ \A k \in DOMAIN Tail(Current.todo) : Tail(Current.todo)[k][1] \in SliceValues(Current.fn)
<1>1. Current \in Activations /\ Local(Current) /\ ~Current.ascending /\ Current.todo # << >>
  BY TopFrame DEF Walking
<1>2. Current.todo \in Seq(Nat \X Nat)
  BY <1>1 DEF Activations
<1>3. /\ Tail(Current.todo) \in Seq(Nat \X Nat) /\ Head(Current.todo) = Current.todo[1]
      /\ 1 \in DOMAIN Current.todo /\ Current.todo[1] \in Nat \X Nat
      /\ \A j \in DOMAIN Current.todo :
            j = 1 \/ \E k \in DOMAIN Tail(Current.todo) : Tail(Current.todo)[k] = Current.todo[j]
      /\ \A k \in DOMAIN Tail(Current.todo) :
            \E j \in DOMAIN Current.todo : Tail(Current.todo)[k] = Current.todo[j]
  BY <1>1, <1>2, HeadAndTail
<1>4. \A j \in DOMAIN Current.todo :
         \/ Current.todo[j][1] = Value
         \/ \E k \in DOMAIN Tail(Current.todo) : Tail(Current.todo)[k] = Current.todo[j]
  BY <1>3 DEF Value
<1>5. Value \in SliceValues(Current.fn) /\ Value \in Nat /\ Steps \in Nat
  BY <1>1, <1>3 DEF Value, Steps, Local
<1>6. ASSUME NEW k \in DOMAIN Tail(Current.todo)
      PROVE  Tail(Current.todo)[k][1] \in SliceValues(Current.fn)
  <2>1. PICK j \in DOMAIN Current.todo : Tail(Current.todo)[k] = Current.todo[j]
    BY <1>3
  <2> QED BY <1>1, <2>1 DEF Local
<1>7. defs[Current.fn] # << >>
  BY <1>1 DEF Local
<1> QED BY <1>1, <1>2, <1>3, <1>4, <1>5, <1>6, <1>7

LEMMA WalkStep ==
    ASSUME SliceInv, Walking, NEW fr \in Activations, SetCurrent(fr), fr.fn = Current.fn,
           fr.ascending = Current.ascending, fr.at = Current.at,
           fr.followed = Current.followed, fr.found = Current.found,
           UNCHANGED <<sliceProgram, masked, slices>>,
           frontier \subseteq frontier', cut \subseteq cut', caveats \subseteq caveats',
           Current.visited \subseteq fr.visited, Local(fr), Ranked(fr)',
           \/ Disclosed'
           \/ /\ \A j \in DOMAIN Current.todo :
                     \/ Current.todo[j][1] \in fr.visited
                     \/ \E k \in DOMAIN fr.todo : fr.todo[k][1] = Current.todo[j][1]
              /\ \A v \in fr.visited : v \in Current.visited \/ Settled(fr.fn, v)'
              /\ \A j \in DOMAIN Current.terminal :
                     \E k \in DOMAIN fr.terminal : fr.terminal[k] = Current.terminal[j]
    PROVE  SliceInv'
<1>1. SliceTyped /\ frames # << >> /\ ~Current.ascending
  BY DEF SliceInv, Walking
<1>2. Upward(Current) /\ Current \in Activations
  BY <1>1, TopFrame
<1>3. Upward(fr)' /\ Hull(fr) /\ fr.found = {}
  BY <1>1, <1>2 DEF Upward, Hull
<1>4. /\ UNCHANGED <<defs, sites, bounds, seed>>
      /\ DOMAIN sites = SliceFunctions
  BY <1>1 DEF sliceProgram, SliceTyped
<1>5. SliceTyped'
  BY <1>1, <1>3, <1>4, TopTyped
<1>6. Disclosed \/ Traced
  BY DEF SliceInv
<1>7. Disclosed => Disclosed'
  BY DEF Disclosed
<1>8. ASSUME ~Disclosed' PROVE Traced'
  <2>1. Progress(Current)'
    <3>1. Current' = fr
      BY <1>1, TopChanges, TopFrame DEF Current
    <3> QED BY <3>1, <1>1 DEF Progress
  <2>2. \A v \in Nat : (\E j \in DOMAIN Current.terminal : Current.terminal[j] = v) =>
               (\E k \in DOMAIN fr.terminal : fr.terminal[k] = v) \/ Told(fr.fn, v)'
    BY <1>8
  <2> QED BY <1>1, <1>3, <1>4, <1>6, <1>7, <1>8, <2>1, <2>2, TopTraced
<1> QED BY <1>5, <1>8 DEF SliceInv

LEMMA DropStep ==
    ASSUME SliceInv, CutChain \/ AlreadyWalked
    PROVE  SliceInv'
<1>1. SliceTyped /\ Walking
  BY DEF SliceInv, CutChain, AlreadyWalked
<1>2. Current \in Activations /\ Local(Current) /\ Ranked(Current)
  BY <1>1, TopFrame DEF Walking
<1>3. PICK fr : fr = [Current EXCEPT !.todo = Tail(@)]
  OBVIOUS
<1>4. /\ fr \in Activations /\ fr.fn = Current.fn /\ fr.todo = Tail(Current.todo)
      /\ fr.visited = Current.visited /\ fr.terminal = Current.terminal
      /\ fr.found = Current.found /\ fr.rank = Current.rank /\ fr.origin = Current.origin
      /\ fr.ascending = Current.ascending /\ fr.at = Current.at
      /\ fr.followed = Current.followed
  BY <1>1, <1>2, <1>3, WalkFacts DEF Activations
<1>5. SetCurrent(fr) /\ UNCHANGED <<sliceProgram, masked, slices, frontier, cut>>
      /\ caveats \subseteq caveats'
  BY <1>3 DEF CutChain, AlreadyWalked, Quiet
<1>6. Local(fr)
  BY <1>1, <1>2, <1>4, WalkFacts DEF Local
<1>7. Ranked(fr)'
  BY <1>2, <1>4, <1>5 DEF Ranked
<1>8. CASE CutChain
  <2>1. Disclosed'
    BY <1>8 DEF CutChain, Disclosed
  <2> QED BY <1>1, <1>4, <1>5, <1>6, <1>7, <2>1, WalkStep
<1>9. CASE AlreadyWalked
  <2>1. Value \in Current.visited
    BY <1>9 DEF AlreadyWalked
  <2>2. \A j \in DOMAIN Current.todo :
           \/ Current.todo[j][1] \in fr.visited
           \/ \E k \in DOMAIN fr.todo : fr.todo[k][1] = Current.todo[j][1]
    <3> SUFFICES ASSUME NEW j \in DOMAIN Current.todo, Current.todo[j][1] # Value
                 PROVE  \E k \in DOMAIN fr.todo : fr.todo[k][1] = Current.todo[j][1]
      BY <1>4, <2>1
    <3>1. PICK k \in DOMAIN Tail(Current.todo) : Tail(Current.todo)[k] = Current.todo[j]
      BY <1>1, WalkFacts
    <3> QED BY <1>4, <3>1
  <2> QED BY <1>1, <1>4, <1>5, <1>6, <1>7, <2>2, WalkStep
<1> QED BY <1>8, <1>9

\* What the walk does to a value that is new: its frame and what remains to walk.
LEMMA NewValueStep ==
    ASSUME SliceInv, New, NEW value, value = Value, NEW fr \in Activations, SetCurrent(fr),
           fr.fn = Current.fn, fr.visited = Current.visited \union {value},
           fr.ascending = Current.ascending, fr.at = Current.at,
           fr.followed = Current.followed, fr.found = Current.found,
           UNCHANGED <<sliceProgram, caveats, cut, masked, slices>>, frontier \subseteq frontier',
           \A k \in DOMAIN Tail(Current.todo) :
               \E j \in DOMAIN fr.todo : fr.todo[j] = Tail(Current.todo)[k],
           \A j \in DOMAIN Current.terminal :
               \E k \in DOMAIN fr.terminal : fr.terminal[k] = Current.terminal[j],
           Local(fr), Ranked(fr)', Disclosed' \/ Settled(fr.fn, value)'
    PROVE  SliceInv'
<1>1. Walking /\ SliceTyped
  BY DEF New, SliceInv
<1>2. \A j \in DOMAIN Current.todo :
           \/ Current.todo[j][1] \in fr.visited
           \/ \E k \in DOMAIN fr.todo : fr.todo[k][1] = Current.todo[j][1]
  <2> SUFFICES ASSUME NEW j \in DOMAIN Current.todo, Current.todo[j][1] # value
               PROVE  \E k \in DOMAIN fr.todo : fr.todo[k][1] = Current.todo[j][1]
    OBVIOUS
  <2>1. PICK k \in DOMAIN Tail(Current.todo) : Tail(Current.todo)[k] = Current.todo[j]
    BY <1>1, WalkFacts
  <2>2. PICK m \in DOMAIN fr.todo : fr.todo[m] = Tail(Current.todo)[k]
    BY <2>1
  <2> QED BY <2>1, <2>2
<1>3. \A v \in fr.visited : v \in Current.visited \/ v = value
  OBVIOUS
<1>4. Disclosed' \/ \A v \in fr.visited : v \in Current.visited \/ Settled(fr.fn, v)'
  BY <1>3
<1> QED BY <1>1, <1>2, <1>4, WalkStep

LEMMA OriginFacts ==
    ASSUME NEW frame \in Activations, NEW kind \in DOMAIN Ranks, NEW v \in Nat,
           NEW fr, fr = SetOrigin(frame, kind, v)
    PROVE  /\ fr \in Activations
           /\ fr.fn = frame.fn /\ fr.todo = frame.todo /\ fr.visited = frame.visited
           /\ fr.terminal = frame.terminal /\ fr.ascending = frame.ascending
           /\ fr.at = frame.at /\ fr.followed = frame.followed /\ fr.found = frame.found
           /\ IF frame.origin.kind = "unresolved" \/ frame.rank > Ranks[kind]
              THEN fr.origin.kind = kind /\ fr.rank = Ranks[kind]
              ELSE fr.origin = frame.origin /\ fr.rank = frame.rank
<1>1. kind \in Kinds /\ Ranks[kind] \in Nat
  BY DEF Ranks, Kinds
<1>2. [kind |-> kind, value |-> v] \in Origins
  BY <1>1 DEF Origins
<1> QED BY <1>1, <1>2 DEF SetOrigin, Activations

LEMMA WalkedFacts ==
    ASSUME SliceTyped, Walking
    PROVE  /\ Walked(Current) \in Activations
           /\ Walked(Current).fn = Current.fn /\ Walked(Current).todo = Tail(Current.todo)
           /\ Walked(Current).visited = Current.visited \union {Value}
           /\ Walked(Current).terminal = Current.terminal
           /\ Walked(Current).ascending = Current.ascending
           /\ Walked(Current).at = Current.at /\ Walked(Current).followed = Current.followed
           /\ Walked(Current).found = Current.found
           /\ Walked(Current).origin = Current.origin /\ Walked(Current).rank = Current.rank
           /\ Local(Walked(Current)) /\ Ranked(Walked(Current))
<1>1. Current \in Activations /\ Local(Current) /\ Ranked(Current)
  BY TopFrame DEF Walking
<1>2. /\ Walked(Current) \in Activations
      /\ Walked(Current).fn = Current.fn /\ Walked(Current).todo = Tail(Current.todo)
      /\ Walked(Current).visited = Current.visited \union {Value}
      /\ Walked(Current).terminal = Current.terminal
      /\ Walked(Current).ascending = Current.ascending
      /\ Walked(Current).at = Current.at /\ Walked(Current).followed = Current.followed
      /\ Walked(Current).found = Current.found
      /\ Walked(Current).origin = Current.origin /\ Walked(Current).rank = Current.rank
  BY <1>1, WalkFacts DEF Walked, Activations
<1>3. Local(Walked(Current))
  BY <1>1, <1>2, WalkFacts DEF Local
<1>4. Ranked(Walked(Current))
  BY <1>1, <1>2 DEF Ranked
<1> QED BY <1>2, <1>3, <1>4

LEMMA WalkParameterStep ==
    ASSUME BackwardConstants, SliceInv, WalkParameter
    PROVE  SliceInv'
<1>1. SliceTyped /\ Walking /\ New /\ Parameter(Current.fn, Value)
  BY DEF SliceInv, WalkParameter, New
<1>2. PICK value : value = Value
  OBVIOUS
<1>3. PICK w : w = [Walked(Current) EXCEPT !.terminal = Append(@, Value)]
  OBVIOUS
<1>4. PICK fr : fr = SetOrigin(w, "parameter", value)
  OBVIOUS
<1>5. /\ value \in SliceValues(Current.fn) /\ value \in Nat /\ value \in 1..Arity[Current.fn]
      /\ Current.fn \in SliceFunctions
  <2>1. Value \in SliceValues(Current.fn) /\ Value \in Nat /\ Current \in Activations
    BY <1>1, WalkFacts
  <2>2. Current.fn \in SliceFunctions
    BY <2>1 DEF Activations
  <2> QED BY <1>1, <1>2, <2>1, <2>2 DEF Parameter, SliceValues, BackwardConstants
<1>6. /\ w \in Activations /\ w.fn = Current.fn /\ w.todo = Tail(Current.todo)
      /\ w.visited = Current.visited \union {value}
      /\ w.terminal = Append(Current.terminal, value)
      /\ w.ascending = Current.ascending /\ w.at = Current.at
      /\ w.followed = Current.followed /\ w.found = Current.found
      /\ w.origin = Current.origin /\ w.rank = Current.rank
  <2>1. PICK w0 : w0 = Walked(Current)
    OBVIOUS
  <2>2. w0 \in Activations /\ w0.terminal = Current.terminal /\ w0.terminal \in Seq(Nat)
    BY <1>1, <2>1, WalkedFacts DEF Activations
  <2>3. Append(w0.terminal, value) \in Seq(Nat)
    BY <1>5, <2>2
  <2>4. w = [w0 EXCEPT !.terminal = Append(w0.terminal, value)]
    BY <1>2, <1>3, <2>1
  <2> QED BY <1>1, <1>2, <2>1, <2>2, <2>3, <2>4, WalkedFacts DEF Activations
<1>7. /\ fr \in Activations /\ fr.fn = Current.fn /\ fr.todo = Tail(Current.todo)
      /\ fr.visited = Current.visited \union {value}
      /\ fr.terminal = Append(Current.terminal, value)
      /\ fr.ascending = Current.ascending /\ fr.at = Current.at
      /\ fr.followed = Current.followed /\ fr.found = Current.found
      /\ IF Current.origin.kind = "unresolved" \/ Current.rank > 0
         THEN fr.origin.kind = "parameter" /\ fr.rank = 0
         ELSE fr.origin = Current.origin /\ fr.rank = Current.rank
  <2>1. "parameter" \in DOMAIN Ranks /\ Ranks["parameter"] = 0
    BY DEF Ranks
  <2>2. /\ fr \in Activations
        /\ fr.fn = w.fn /\ fr.todo = w.todo /\ fr.visited = w.visited
        /\ fr.terminal = w.terminal /\ fr.ascending = w.ascending
        /\ fr.at = w.at /\ fr.followed = w.followed /\ fr.found = w.found
        /\ IF w.origin.kind = "unresolved" \/ w.rank > Ranks["parameter"]
           THEN fr.origin.kind = "parameter" /\ fr.rank = Ranks["parameter"]
           ELSE fr.origin = w.origin /\ fr.rank = w.rank
    <3>1. PICK kind : kind = "parameter"
      OBVIOUS
    <3>2. kind \in DOMAIN Ranks /\ fr = SetOrigin(w, kind, value) /\ w \in Activations /\ value \in Nat
      BY <1>4, <1>5, <1>6, <2>1, <3>1
    <3>3. /\ fr \in Activations
          /\ fr.fn = w.fn /\ fr.todo = w.todo /\ fr.visited = w.visited
          /\ fr.terminal = w.terminal /\ fr.ascending = w.ascending
          /\ fr.at = w.at /\ fr.followed = w.followed /\ fr.found = w.found
          /\ IF w.origin.kind = "unresolved" \/ w.rank > Ranks[kind]
             THEN fr.origin.kind = kind /\ fr.rank = Ranks[kind]
             ELSE fr.origin = w.origin /\ fr.rank = w.rank
      BY <3>2, OriginFacts
    <3> QED BY <3>1, <3>3
  <2> QED BY <1>6, <2>1, <2>2
<1>8. SetCurrent(fr) /\ UNCHANGED <<sliceProgram, caveats, cut, masked, slices, frontier>>
  BY <1>2, <1>3, <1>4 DEF WalkParameter, Quiet
<1>9. Current \in Activations /\ Local(Current) /\ Ranked(Current) /\ Current.terminal \in Seq(Nat)
      /\ Current.rank \in Nat
  BY <1>1, TopFrame DEF Walking, Activations
<1>10. /\ fr.terminal # << >>
       /\ DOMAIN fr.terminal = 1..(Len(Current.terminal) + 1)
       /\ DOMAIN Current.terminal = 1..Len(Current.terminal) /\ Len(Current.terminal) \in Nat
       /\ \A j \in 1..Len(Current.terminal) : fr.terminal[j] = Current.terminal[j]
       /\ fr.terminal[Len(Current.terminal) + 1] = value
  BY <1>5, <1>7, <1>9
<1>11. Ranked(fr)'
  <2>1. fr.rank = 0 /\ fr.origin.kind # "unresolved"
    BY <1>7, <1>9
  <2>2. fr.origin.kind \in {"parameter", "source", "indirect"}
        /\ (fr.origin.kind = "indirect" => frontier # {})
    BY <1>7, <1>9 DEF Ranked
  <2> QED BY <2>1, <2>2, <1>8, <1>10 DEF Ranked
<1>12. Local(fr)
  <2>1. \A j \in DOMAIN fr.terminal : fr.terminal[j] \in 1..Arity[fr.fn]
    BY <1>5, <1>7, <1>9, <1>10 DEF Local
  <2> QED BY <1>1, <1>5, <1>7, <1>9, <2>1, WalkFacts DEF Local
<1>13. Settled(fr.fn, value)'
  <2>1. frames'[Len(frames)] = fr /\ Len(frames) \in 1..Len(frames')
    BY <1>1, <1>7, <1>8, TopChanges, TopFrame DEF Walking
  <2>2. Pending(fr.fn, value)'
    BY <1>10, <2>1 DEF Pending
  <2>3. Parameter(fr.fn, value)'
    BY <1>1, <1>2, <1>7 DEF Parameter
  <2> QED BY <2>2, <2>3 DEF Settled, Told
<1>14. \A k \in DOMAIN Tail(Current.todo) :
           \E j \in DOMAIN fr.todo : fr.todo[j] = Tail(Current.todo)[k]
  BY <1>7
<1>15. \A j \in DOMAIN Current.terminal :
           \E k \in DOMAIN fr.terminal : fr.terminal[k] = Current.terminal[j]
  <2> SUFFICES ASSUME NEW j \in DOMAIN Current.terminal
               PROVE  j \in DOMAIN fr.terminal /\ fr.terminal[j] = Current.terminal[j]
    OBVIOUS
  <2> QED BY <1>10
<1> QED BY <1>1, <1>2, <1>7, <1>8, <1>11, <1>12, <1>13, <1>14, <1>15, NewValueStep

LEMMA WalkOtherStep ==
    ASSUME BackwardConstants, SliceInv, WalkLeaf \/ WalkReturn \/ WalkLoad
    PROVE  SliceInv'
<1>1. SliceTyped /\ Walking /\ New /\ ~Parameter(Current.fn, Value)
  BY DEF SliceInv, WalkLeaf, WalkReturn, WalkLoad, Leading, New
<1>2. PICK value, kind : value = Value /\ kind = Defining(Current.fn, Value).kind
  OBVIOUS
<1>3. PICK w : w = Walked(Current)
  OBVIOUS
<1>4. PICK fr : fr = IF WalkReturn THEN ReplaceOrigin(w, kind, value) ELSE SetOrigin(w, kind, value)
  OBVIOUS
<1>5. /\ value \in SliceValues(Current.fn) /\ value \in Nat /\ Current.fn \in SliceFunctions
      /\ defs[Current.fn] # << >> /\ Current \in Activations
  BY <1>1, <1>2, WalkFacts DEF Activations
<1>6. kind \in {"entry", "constant", "call", "source", "indirect", "load"}
      /\ (WalkReturn => kind \in {"source", "indirect"})
      /\ (~WalkReturn => kind \in {"entry", "constant", "call", "load"})
      /\ (WalkLoad => kind = "load")
  BY <1>2 DEF WalkLeaf, WalkReturn, WalkLoad, Leading
<1>7. Defining(Current.fn, value).reads = << >>
  BY <1>1, <1>2, <1>5, <1>6, DefinitionFacts
<1>8. /\ fr \in Activations /\ fr.fn = Current.fn /\ fr.todo = Tail(Current.todo)
      /\ fr.visited = Current.visited \union {value}
      /\ fr.terminal = Current.terminal
      /\ fr.ascending = Current.ascending /\ fr.at = Current.at
      /\ fr.followed = Current.followed /\ fr.found = Current.found
      /\ IF WalkReturn THEN fr.origin.kind = kind /\ fr.rank = Current.rank
         ELSE IF Current.origin.kind = "unresolved" \/ Current.rank > Ranks[kind]
         THEN fr.origin.kind = kind /\ fr.rank = Ranks[kind]
         ELSE fr.origin = Current.origin /\ fr.rank = Current.rank
  <2>1. CASE WalkReturn
    <3>1. [kind |-> kind, value |-> value] \in Origins
      BY <1>5, <1>6 DEF Origins, Kinds
    <3> QED BY <1>1, <1>2, <1>3, <1>4, <2>1, <3>1, WalkedFacts DEF ReplaceOrigin, Activations
  <2>2. CASE ~WalkReturn
    <3>1. kind \in DOMAIN Ranks
      BY <1>6, <2>2 DEF Ranks
    <3> QED BY <1>1, <1>2, <1>3, <1>4, <1>5, <2>2, <3>1, WalkedFacts, OriginFacts
  <2> QED BY <2>1, <2>2
<1>9. SetCurrent(fr) /\ UNCHANGED <<sliceProgram, caveats, cut, masked, slices>>
      /\ frontier \subseteq frontier'
  <2>1. CASE WalkReturn
    BY <1>2, <1>3, <1>4, <2>1 DEF WalkReturn, Quiet
  <2>2. CASE WalkLeaf /\ ~WalkReturn
    BY <1>2, <1>3, <1>4, <2>2 DEF WalkLeaf, Quiet
  <2>3. CASE WalkLoad /\ ~WalkReturn
    <3>1. kind = "load"
      BY <1>6, <2>3
    <3> QED BY <1>2, <1>3, <1>4, <2>3, <3>1 DEF WalkLoad, Quiet
  <2> QED BY <2>1, <2>2, <2>3
<1>10. Local(Current) /\ Ranked(Current) /\ Current.rank \in Nat
  BY <1>1, TopFrame DEF Walking, Activations
<1>11. Ranked(fr)'
  <2>1. kind = "indirect" => frontier' # {}
    <3> SUFFICES ASSUME kind = "indirect" PROVE frontier' # {}
      OBVIOUS
    <3>1. WalkReturn
      BY <1>6
    <3> QED BY <3>1, <1>2 DEF WalkReturn
  <2>2. CASE WalkReturn
    BY <1>6, <1>8, <1>9, <1>10, <2>1, <2>2 DEF Ranked
  <2>3. CASE ~WalkReturn
    <3>1. Ranks[kind] \in Nat \ {0} /\ kind \notin {"unresolved", "indirect", "parameter"}
      BY <1>6, <2>3 DEF Ranks
    <3> QED BY <1>8, <1>9, <1>10, <2>3, <3>1 DEF Ranked
  <2> QED BY <2>2, <2>3
<1>12. Local(fr)
  BY <1>1, <1>5, <1>8, <1>10, WalkFacts DEF Local
<1>13. Settled(fr.fn, value)'
  <2>1. ~Parameter(fr.fn, value)' /\ Defining(fr.fn, value)' = Defining(Current.fn, value)
    BY <1>1, <1>2, <1>8, <1>9 DEF Parameter, Defining, sliceProgram
  <2>2. DOMAIN << >> = {}
    OBVIOUS
  <2> QED BY <2>1, <2>2, <1>7 DEF Settled
<1>14. \A k \in DOMAIN Tail(Current.todo) :
           \E j \in DOMAIN fr.todo : fr.todo[j] = Tail(Current.todo)[k]
  BY <1>8
<1>15. \A j \in DOMAIN Current.terminal :
           \E k \in DOMAIN fr.terminal : fr.terminal[k] = Current.terminal[j]
  BY <1>8
<1> QED BY <1>1, <1>2, <1>8, <1>9, <1>11, <1>12, <1>13, <1>14, <1>15, NewValueStep

LEMMA WalkReadsStep ==
    ASSUME BackwardConstants, SliceInv, WalkReads
    PROVE  SliceInv'
<1>1. SliceTyped /\ Walking /\ New /\ ~Parameter(Current.fn, Value)
  BY DEF SliceInv, WalkReads, Leading, New
<1>2. PICK value : value = Value
  OBVIOUS
<1>3. PICK reads : reads = Defining(Current.fn, value).reads
  OBVIOUS
<1>4. PICK next : next = [i \in DOMAIN reads |-> <<reads[i], Steps + 1>>]
  OBVIOUS
<1>5. PICK fr : fr = [Walked(Current) EXCEPT !.todo = next \o @]
  OBVIOUS
<1>6. /\ value \in SliceValues(Current.fn) /\ value \in Nat /\ Current.fn \in SliceFunctions
      /\ defs[Current.fn] # << >> /\ Current \in Activations /\ Steps \in Nat
      /\ Tail(Current.todo) \in Seq(Nat \X Nat)
  BY <1>1, <1>2, WalkFacts DEF Activations
<1>7. reads \in Seq(SliceValues(Current.fn))
  BY <1>1, <1>2, <1>3, <1>6, DefinitionFacts
<1>8. /\ next \in Seq(SliceValues(Current.fn) \X Nat) /\ DOMAIN next = DOMAIN reads
      /\ \A i \in DOMAIN reads : next[i][1] = reads[i]
  <2>1. Len(reads) \in Nat /\ DOMAIN reads = 1..Len(reads)
        /\ \A i \in DOMAIN reads : reads[i] \in SliceValues(Current.fn)
    BY <1>7
  <2>2. next \in [1..Len(reads) -> SliceValues(Current.fn) \X Nat]
    BY <1>4, <1>6, <2>1
  <2> QED BY <1>4, <2>1, <2>2, SeqDef
<1>9. next \in Seq(Nat \X Nat)
  BY <1>8 DEF SliceValues
<1>10. PICK todo : todo = next \o Tail(Current.todo)
  OBVIOUS
<1>11. /\ todo \in Seq(Nat \X Nat) /\ DOMAIN next = 1..Len(next)
       /\ DOMAIN Tail(Current.todo) = 1..Len(Tail(Current.todo))
       /\ DOMAIN todo = 1..(Len(next) + Len(Tail(Current.todo)))
       /\ Len(next) \in Nat /\ Len(Tail(Current.todo)) \in Nat
       /\ \A i \in DOMAIN todo :
              todo[i] = IF i <= Len(next) THEN next[i] ELSE Tail(Current.todo)[i - Len(next)]
  <2>1. /\ todo \in Seq(Nat \X Nat) /\ Len(todo) = Len(next) + Len(Tail(Current.todo))
        /\ \A i \in 1..(Len(next) + Len(Tail(Current.todo))) :
              todo[i] = IF i <= Len(next) THEN next[i] ELSE Tail(Current.todo)[i - Len(next)]
    BY <1>6, <1>9, <1>10, ConcatProperties
  <2>2. DOMAIN todo = 1..Len(todo) /\ DOMAIN next = 1..Len(next)
        /\ DOMAIN Tail(Current.todo) = 1..Len(Tail(Current.todo))
        /\ Len(next) \in Nat /\ Len(Tail(Current.todo)) \in Nat
    BY <1>6, <1>9, <2>1
  <2> QED BY <2>1, <2>2
<1>12. /\ fr \in Activations /\ fr.fn = Current.fn /\ fr.todo = todo
       /\ fr.visited = Current.visited \union {value}
       /\ fr.terminal = Current.terminal
       /\ fr.ascending = Current.ascending /\ fr.at = Current.at
       /\ fr.followed = Current.followed /\ fr.found = Current.found
       /\ fr.origin = Current.origin /\ fr.rank = Current.rank
  BY <1>1, <1>2, <1>5, <1>10, <1>11, WalkedFacts DEF Activations
<1>13. SetCurrent(fr) /\ UNCHANGED <<sliceProgram, caveats, cut, masked, slices, frontier>>
  BY <1>2, <1>3, <1>4, <1>5 DEF WalkReads, Quiet
<1>14. Local(Current) /\ Ranked(Current)
  BY <1>1, TopFrame DEF Walking
<1>15. Ranked(fr)'
  BY <1>12, <1>13, <1>14 DEF Ranked
<1>16. Local(fr)
  <2>1. ASSUME NEW j \in DOMAIN todo PROVE todo[j][1] \in SliceValues(Current.fn)
    <3>1. CASE j <= Len(next)
      <4>1. j \in DOMAIN next /\ todo[j] = next[j]
        BY <3>1, <1>11
      <4>2. reads[j] \in SliceValues(Current.fn)
        BY <4>1, <1>7, <1>8
      <4> QED BY <4>1, <4>2, <1>8
    <3>2. CASE j > Len(next)
      <4>1. j - Len(next) \in DOMAIN Tail(Current.todo) /\ todo[j] = Tail(Current.todo)[j - Len(next)]
        <5>1. j \in 1..(Len(next) + Len(Tail(Current.todo))) /\ ~(j <= Len(next))
          BY <3>2, <1>11
        <5>2. j - Len(next) \in 1..Len(Tail(Current.todo))
          BY <5>1, <1>11
        <5> QED BY <5>1, <5>2, <1>11
      <4> QED BY <4>1, <1>1, WalkFacts
    <3> QED BY <3>1, <3>2, <1>11
  <2> QED BY <1>6, <1>12, <1>14, <2>1 DEF Local
<1>17. Settled(fr.fn, value)'
  <2>1. ~Parameter(fr.fn, value)' /\ Defining(fr.fn, value)' = Defining(Current.fn, value)
    BY <1>1, <1>2, <1>12, <1>13 DEF Parameter, Defining, sliceProgram
  <2>2. frames'[Len(frames)] = fr /\ Len(frames) \in 1..Len(frames')
    BY <1>1, <1>12, <1>13, TopChanges, TopFrame DEF Walking
  <2>3. ASSUME NEW j \in DOMAIN reads PROVE Awaited(fr.fn, reads[j])'
    <3>1. j \in 1..Len(next) /\ Len(next) \in Nat /\ Len(Tail(Current.todo)) \in Nat
      BY <1>8, <1>11
    <3>2. j \in 1..(Len(next) + Len(Tail(Current.todo))) /\ j <= Len(next)
      BY <3>1
    <3>3. j \in DOMAIN fr.todo /\ fr.todo[j][1] = reads[j]
      BY <1>8, <1>11, <1>12, <3>2
    <3> QED BY <3>3, <2>2 DEF Awaited
  <2> QED BY <2>1, <2>3, <1>3 DEF Settled, Reached
<1>18. \A k \in DOMAIN Tail(Current.todo) :
           \E j \in DOMAIN fr.todo : fr.todo[j] = Tail(Current.todo)[k]
  <2> SUFFICES ASSUME NEW k \in DOMAIN Tail(Current.todo)
               PROVE  Len(next) + k \in DOMAIN todo /\ todo[Len(next) + k] = Tail(Current.todo)[k]
    BY <1>12
  <2>1. k \in 1..Len(Tail(Current.todo))
    BY <1>11
  <2>2. /\ Len(next) + k \in 1..(Len(next) + Len(Tail(Current.todo)))
        /\ ~(Len(next) + k <= Len(next)) /\ (Len(next) + k) - Len(next) = k
    BY <2>1, <1>11
  <2> QED BY <2>2, <1>11
<1>19. \A j \in DOMAIN Current.terminal :
           \E k \in DOMAIN fr.terminal : fr.terminal[k] = Current.terminal[j]
  BY <1>12
<1> QED BY <1>1, <1>2, <1>12, <1>13, <1>15, <1>16, <1>17, <1>18, <1>19, NewValueStep

-----------------------------------------------------------------------------
(***************************************************************************)
(* The ascent within one frame.                                            *)
(***************************************************************************)

SitesOf(f) == [caller : SliceFunctions, args : [1..Arity[f] -> Nat], found : BOOLEAN]

LEMMA ListedFacts ==
    ASSUME BackwardConstants, SliceTyped, NEW f \in SliceFunctions, sites[f] # {}
    PROVE  /\ Listed(f) \in SiteLists[f] /\ Listed(f) \in Seq(SitesOf(f))
           /\ \A j \in DOMAIN Listed(f), i \in 1..Arity[f] :
                 /\ Listed(f)[j].caller \in SliceFunctions
                 /\ Listed(f)[j].args[i] \in {0} \union SliceValues(Listed(f)[j].caller)
           /\ bounds.callers \in Nat /\ Len(Considered(f)) \in Nat
           /\ \A j \in Nat \ {0} :
                 j <= Len(Considered(f)) <=> j \in DOMAIN Listed(f) /\ j <= bounds.callers
           /\ \A j \in Nat \ {0} : j <= Len(Considered(f)) => Considered(f)[j] = Listed(f)[j]
<1>1. PICK list \in SiteLists[f] : sites[f] = {list}
  BY DEF SliceTyped
<1>2. Listed(f) = list
  BY <1>1 DEF Listed
<1>3. Listed(f) \in Seq(SitesOf(f))
  BY <1>1, <1>2 DEF BackwardConstants, WellCalled, SitesOf
<1>4. ASSUME NEW j \in DOMAIN Listed(f), NEW i \in 1..Arity[f]
      PROVE  /\ Listed(f)[j].caller \in SliceFunctions
             /\ Listed(f)[j].args[i] \in {0} \union SliceValues(Listed(f)[j].caller)
  <2>1. Listed(f)[j] \in SitesOf(f) /\ Listed(f)[j] \in ToSet(list)
    BY <1>2, <1>3 DEF ToSet
  <2> QED BY <2>1, <1>1 DEF BackwardConstants, WellCalled, SitesOf
<1>5. bounds.callers \in Nat
  BY DEF SliceTyped
<1>6. PICK n, m : n = Len(Listed(f)) /\ m = Min({Len(Listed(f)), bounds.callers})
  OBVIOUS
<1>7. n \in Nat /\ m \in Nat /\ m <= n /\ m <= bounds.callers /\ (m = n \/ m = bounds.callers)
  <2>1. n \in Nat
    BY <1>3, <1>6
  <2>2. \E x \in {n, bounds.callers} : \A y \in {n, bounds.callers} : x <= y
    <3>1. CASE n <= bounds.callers
      BY <2>1, <1>5, <3>1
    <3>2. CASE ~(n <= bounds.callers)
      BY <2>1, <1>5, <3>2
    <3> QED BY <3>1, <3>2
  <2>3. m \in {n, bounds.callers} /\ \A y \in {n, bounds.callers} : m <= y
    BY <1>6, <2>2 DEF Min
  <2> QED BY <2>1, <2>3, <1>5
<1>8. /\ Len(SubSeq(Listed(f), 1, m)) = m
      /\ \A j \in 1..m : SubSeq(Listed(f), 1, m)[j] = Listed(f)[j]
  <2>1. \A j \in 1..m : Listed(f)[j] \in SitesOf(f)
    BY <1>3, <1>6, <1>7
  <2>2. /\ Len(SubSeq(Listed(f), 1, m)) = IF 1 <= m THEN m - 1 + 1 ELSE 0
        /\ \A j \in 1..(m - 1 + 1) : SubSeq(Listed(f), 1, m)[j] = Listed(f)[1 + j - 1]
    BY <2>1, <1>7, SubSeqProperties
  <2> QED BY <2>2, <1>7
<1>9. Considered(f) = SubSeq(Listed(f), 1, m)
  BY <1>6 DEF Considered
<1>10. DOMAIN Listed(f) = 1..n
  BY <1>3, <1>6
<1>11. ASSUME NEW j \in Nat \ {0}
       PROVE  /\ j <= Len(Considered(f)) <=> j \in DOMAIN Listed(f) /\ j <= bounds.callers
              /\ j <= Len(Considered(f)) => Considered(f)[j] = Listed(f)[j]
  BY <1>5, <1>7, <1>8, <1>9, <1>10
<1>12. Len(Considered(f)) \in Nat
  BY <1>7, <1>8, <1>9
<1> QED BY <1>1, <1>2, <1>3, <1>4, <1>5, <1>11, <1>12

LEMMA AscendFacts ==
    ASSUME SliceTyped, Ascending
    PROVE  /\ Current \in Activations /\ Current.fn \in SliceFunctions /\ slices = {}
           /\ frames # << >> /\ Current.todo = << >> /\ Current.origin.kind = "parameter"
           /\ sites[Current.fn] # {} /\ Current.ascending /\ Current.at \in Nat \ {0}
           /\ Current.terminal \in Seq(Nat)
           /\ Current.terminal = << >> \/ Current.followed => Current.found # {}
           /\ Local(Current) /\ Ranked(Current) /\ Hull(Current) /\ Upward(Current)
<1>1. Current \in Activations /\ Upward(Current) /\ Current.ascending /\ slices = {}
      /\ Local(Current) /\ Ranked(Current) /\ Hull(Current)
  BY TopFrame DEF Ascending
<1>2. Current.fn \in SliceFunctions /\ Current.at \in Nat \ {0} /\ Current.terminal \in Seq(Nat)
  BY <1>1 DEF Activations
<1> QED BY <1>1, <1>2 DEF Upward, Ascending

LEMMA AskForSitesStep ==
    ASSUME BackwardConstants, SliceInv, AskForSites
    PROVE  SliceInv'
<1>1. SliceTyped /\ frames # << >> /\ ~Current.ascending /\ Current.todo = << >>
      /\ Current.origin.kind = "parameter"
  BY DEF SliceInv, AskForSites, WalkEnded, MayAscend
<1>2. /\ Current \in Activations /\ Local(Current) /\ Ranked(Current) /\ Upward(Current)
      /\ Hull(Current)
  BY <1>1, TopFrame
<1>3. PICK fr : fr = [Current EXCEPT !.ascending = TRUE]
  OBVIOUS
<1>4. /\ fr \in Activations /\ fr.fn = Current.fn /\ fr.todo = Current.todo
      /\ fr.visited = Current.visited /\ fr.terminal = Current.terminal
      /\ fr.found = Current.found /\ fr.rank = Current.rank /\ fr.origin = Current.origin
      /\ fr.ascending /\ fr.at = Current.at /\ fr.followed = Current.followed
      /\ fr.fn \in SliceFunctions
  BY <1>2, <1>3 DEF Activations
<1>5. SetCurrent(fr) /\ UNCHANGED <<defs, bounds, seed, frontier, caveats, cut, masked, slices>>
  BY <1>3 DEF AskForSites
<1>6. /\ DOMAIN sites' = SliceFunctions /\ sites'[fr.fn] # {}
      /\ \A f \in SliceFunctions : IF sites[f] = {}
            THEN sites'[f] = {} \/ \E list \in SiteLists[f] : sites'[f] = {list}
            ELSE sites'[f] = sites[f]
  <2>1. \A f \in SliceFunctions : sites[f] = {} \/ \E list \in SiteLists[f] : sites[f] = {list}
    BY <1>1 DEF SliceTyped
  <2>2. DOMAIN sites = SliceFunctions
    BY <1>1 DEF SliceTyped
  <2>3. CASE sites[Current.fn] = {}
    <3>1. PICK list \in SiteLists[Current.fn] : sites' = [sites EXCEPT ![Current.fn] = {list}]
      BY <2>3 DEF AskForSites
    <3> QED BY <1>4, <2>2, <2>3, <3>1
  <2>4. CASE sites[Current.fn] # {}
    <3>1. sites' = sites
      BY <2>4 DEF AskForSites
    <3> QED BY <1>4, <2>2, <2>4, <3>1
  <2> QED BY <2>3, <2>4
<1>7. Local(fr) /\ Hull(fr) /\ Ranked(fr)'
  BY <1>2, <1>4, <1>5 DEF Local, Hull, Accounted, Ranked
<1>8. Upward(fr)'
  <2>1. fr.terminal # << >> /\ ~fr.followed /\ fr.found = {}
    BY <1>1, <1>2, <1>4 DEF Upward, Ranked
  <2> QED BY <2>1, <1>1, <1>4, <1>6 DEF Upward
<1>9. SliceTyped'
  BY <1>1, <1>4, <1>5, <1>6, <1>7, <1>8, TopTyped
<1>10. Disclosed => Disclosed'
  BY <1>5 DEF Disclosed
<1>11. ASSUME Traced PROVE Traced'
  <2>1. Progress(Current)'
    <3>1. Current' = fr
      BY <1>1, <1>4, <1>5, TopChanges, TopFrame DEF Current
    <3>2. Current.at = 1
      BY <1>1, <1>2 DEF Upward
    <3>3. \A j \in DOMAIN Listed(fr.fn)' : ~(j < 1)
      <4>1. PICK list \in SiteLists[fr.fn] : sites'[fr.fn] = {list}
        BY <1>4, <1>6, <1>9 DEF SliceTyped
      <4>2. list \in Seq(SitesOf(fr.fn))
        BY <1>4 DEF BackwardConstants, WellCalled, SitesOf
      <4>3. Listed(fr.fn)' = list
        BY <4>1 DEF Listed
      <4> QED BY <4>2, <4>3
    <3> QED BY <3>1, <3>2, <3>3, <1>4 DEF Progress
  <2>2. \A f \in SliceFunctions : sites[f] # {} => sites'[f] = sites[f]
    BY <1>6
  <2>3. \A v \in Nat : (\E j \in DOMAIN Current.terminal : Current.terminal[j] = v) =>
               (\E k \in DOMAIN fr.terminal : fr.terminal[k] = v) \/ Told(fr.fn, v)'
    BY <1>4
  <2>4. \A j \in DOMAIN Current.todo :
               \/ Current.todo[j][1] \in fr.visited
               \/ \E k \in DOMAIN fr.todo : fr.todo[k][1] = Current.todo[j][1]
    BY <1>4
  <2> QED BY <1>1, <1>4, <1>5, <1>11, <2>1, <2>2, <2>3, <2>4, TopTraced
<1> QED BY <1>9, <1>10, <1>11 DEF SliceInv

\* The site that a frame is at leads nowhere.
LEMMA PassSiteStep ==
    ASSUME BackwardConstants, SliceInv, SkipSite \/ UntrackableArgument
    PROVE  SliceInv'
<1>1. SliceTyped /\ Ascending /\ AtSite
  BY DEF SliceInv, SkipSite, UntrackableArgument, AtSite
<1>2. /\ Current \in Activations /\ Current.fn \in SliceFunctions /\ frames # << >>
      /\ Current.todo = << >> /\ sites[Current.fn] # {} /\ Current.ascending
      /\ Current.at \in Nat \ {0} /\ Current.terminal \in Seq(Nat) /\ Current.terminal # << >>
      /\ Local(Current) /\ Ranked(Current) /\ Hull(Current) /\ Upward(Current)
  BY <1>1, AscendFacts DEF AtSite
<1>3. PICK fr : fr = NextSite(Current)
  OBVIOUS
<1>4. /\ fr \in Activations /\ fr.fn = Current.fn /\ fr.todo = Current.todo
      /\ fr.visited = Current.visited /\ fr.terminal = Current.terminal
      /\ fr.found = Current.found /\ fr.rank = Current.rank /\ fr.origin = Current.origin
      /\ fr.ascending = Current.ascending /\ fr.at = Current.at + 1
      /\ fr.followed = Current.followed
  <2>1. Current.at + 1 \in Nat \ {0}
    BY <1>2
  <2>2. fr = [Current EXCEPT !.at = Current.at + 1]
    BY <1>3 DEF NextSite
  <2> QED BY <1>2, <2>1, <2>2 DEF Activations
<1>5. /\ SetCurrent(fr) /\ UNCHANGED <<defs, sites, bounds, seed, frontier, cut, masked, slices>>
      /\ caveats \subseteq caveats'
  BY <1>3 DEF SkipSite, UntrackableArgument, Quiet, sliceProgram
<1>6. Local(fr) /\ Hull(fr) /\ Ranked(fr)' /\ Upward(fr)'
  <2>1. Local(fr) /\ Hull(fr) /\ Ranked(fr)'
    BY <1>2, <1>4, <1>5 DEF Local, Hull, Accounted, Ranked
  <2>2. Listed(fr.fn)' = Listed(Current.fn)
    BY <1>4, <1>5 DEF Listed
  <2>3. Upward(fr)'
    BY <1>2, <1>4, <1>5, <2>2 DEF Upward
  <2> QED BY <2>1, <2>3
<1>7. DOMAIN sites = SliceFunctions
  BY <1>1 DEF SliceTyped
<1>8. SliceTyped'
  BY <1>1, <1>2, <1>4, <1>5, <1>6, <1>7, TopTyped
<1>9. Disclosed => Disclosed'
  BY <1>5 DEF Disclosed
<1>10. ThisSite = Listed(Current.fn)[Current.at]
  BY <1>1, <1>2, ListedFacts DEF AtSite, ThisSite
<1>11. ~ThisSite.found \/ ThisSite.args[Head(Current.terminal)] = 0
  BY DEF SkipSite, UntrackableArgument
<1>12. \A j \in DOMAIN Current.todo :
           \/ Current.todo[j][1] \in fr.visited
           \/ \E k \in DOMAIN fr.todo : fr.todo[k][1] = Current.todo[j][1]
  BY <1>4
<1>13. ASSUME Traced PROVE Traced'
  <2>1. Progress(Current)'
    <3>1. Current' = fr
      BY <1>2, <1>4, <1>5, <1>1, TopChanges, TopFrame DEF Current
    <3>2. Progress(Current)
      BY <1>1, <1>2, <1>13, TopFrame DEF Traced
    <3>3. \A t, v : Answered(t, v) => Answered(t, v)'
      BY <1>1, <1>2, <1>4, <1>5, <1>12, TopKeeps DEF Answered
    <3>4. PICK list, t : list = Listed(Current.fn) /\ t = Head(Current.terminal)
      OBVIOUS
    <3>5. Listed(fr.fn)' = list
      BY <1>4, <1>5, <3>4 DEF Listed
    <3>6. \A j \in DOMAIN list : j \in Nat
      BY <1>1, <1>2, <3>4, ListedFacts
    <3>7. ASSUME NEW j \in DOMAIN list, j < Current.at + 1, j <= bounds.callers
          PROVE  Answered(list[j], t)
      <4>1. CASE j < Current.at
        BY <4>1, <3>2, <3>4, <3>7, <1>2 DEF Progress
      <4>2. CASE j = Current.at
        BY <4>2, <3>4, <1>10, <1>11 DEF Answered
      <4> QED BY <4>1, <4>2, <3>6, <3>7, <1>2
    <3>8. \A j \in DOMAIN list : j < fr.at /\ j <= bounds.callers => Answered(list[j], t)'
      BY <3>3, <3>7, <1>4
    <3>9. Head(fr.terminal) = t
      BY <3>4, <1>4
    <3> QED BY <3>1, <3>5, <3>8, <3>9, <1>5 DEF Progress
  <2>2. \A v \in Nat : (\E j \in DOMAIN Current.terminal : Current.terminal[j] = v) =>
               (\E k \in DOMAIN fr.terminal : fr.terminal[k] = v) \/ Told(fr.fn, v)'
    BY <1>4
  <2> QED BY <1>1, <1>2, <1>4, <1>5, <1>12, <1>13, <2>1, <2>2, TopTraced
<1> QED BY <1>8, <1>9, <1>13 DEF SliceInv

LEMMA SliceFacts ==
    ASSUME NEW frame \in Activations, NEW origin \in Origins, NEW params \in SUBSET Nat,
           NEW s, s = Slice(frame, origin, params)
    PROVE  /\ s \in Slices /\ s.fn = frame.fn /\ s.origin = origin /\ s.params = params
           /\ s.values = Accounted(frame)
<1>1. frame.fn \in SliceFunctions /\ frame.visited \subseteq Nat
  BY DEF Activations
<1>2. Accounted(frame) \subseteq SliceFunctions \X Nat
  BY <1>1 DEF Accounted
<1> QED BY <1>1, <1>2 DEF Slice, Slices

LEMMA NextParameterStep ==
    ASSUME BackwardConstants, SliceInv, NextParameter
    PROVE  SliceInv'
<1>1. SliceTyped /\ Ascending /\ Current.at > Len(Considered(Current.fn))
  BY DEF SliceInv, NextParameter
<1>2. /\ Current \in Activations /\ Current.fn \in SliceFunctions /\ frames # << >>
      /\ Current.todo = << >> /\ sites[Current.fn] # {} /\ Current.ascending
      /\ Current.at \in Nat \ {0} /\ Current.terminal \in Seq(Nat) /\ Current.terminal # << >>
      /\ Local(Current) /\ Ranked(Current) /\ Hull(Current) /\ Upward(Current)
  BY <1>1, AscendFacts DEF NextParameter
<1>3. PICK v : v = Head(Current.terminal)
  OBVIOUS
<1>4. PICK own : own = Slice(Current, [kind |-> "parameter", value |-> v], {v})
  OBVIOUS
<1>5. PICK found : found = IF Current.followed THEN Current.found ELSE Current.found \union {own}
  OBVIOUS
<1>6. PICK fr : fr = [Current EXCEPT !.at = 1, !.followed = FALSE, !.terminal = Tail(@),
                                     !.found = found]
  OBVIOUS
<1>7. /\ v \in Nat /\ Tail(Current.terminal) \in Seq(Nat)
      /\ \A j \in DOMAIN Current.terminal : Current.terminal[j] = v
            \/ \E k \in DOMAIN Tail(Current.terminal) : Tail(Current.terminal)[k] = Current.terminal[j]
      /\ \A k \in DOMAIN Tail(Current.terminal) :
            \E j \in DOMAIN Current.terminal : Tail(Current.terminal)[k] = Current.terminal[j]
  <2>1. PICK s \in Seq(Nat) : s = Current.terminal
    BY <1>2
  <2>2. s # << >> /\ v = Head(s)
    BY <1>2, <1>3, <2>1
  <2>3. /\ Head(s) \in Nat /\ Tail(s) \in Seq(Nat)
        /\ \A j \in DOMAIN s : s[j] = Head(s) \/ \E k \in DOMAIN Tail(s) : Tail(s)[k] = s[j]
        /\ \A k \in DOMAIN Tail(s) : \E j \in DOMAIN s : Tail(s)[k] = s[j]
    BY <2>2, HeadAndTail
  <2> QED BY <2>1, <2>2, <2>3
<1>8. own \in Slices /\ own.values = Accounted(Current)
  <2>1. [kind |-> "parameter", value |-> v] \in Origins /\ {v} \in SUBSET Nat
    BY <1>7 DEF Origins, Kinds
  <2> QED BY <1>2, <1>4, <2>1, SliceFacts
<1>9. /\ found \subseteq Slices /\ Current.found \subseteq found /\ found # {}
      /\ \A s \in found : s \in Current.found \/ s = own
  <2>1. Current.found \subseteq Slices
    BY <1>2 DEF Activations
  <2>2. Current.followed => Current.found # {}
    BY <1>1, AscendFacts
  <2> QED BY <1>5, <1>8, <2>1, <2>2
<1>10. /\ fr \in Activations /\ fr.fn = Current.fn /\ fr.todo = Current.todo
       /\ fr.visited = Current.visited /\ fr.terminal = Tail(Current.terminal)
       /\ fr.found = found /\ fr.rank = Current.rank /\ fr.origin = Current.origin
       /\ fr.ascending = Current.ascending /\ fr.at = 1 /\ fr.followed = FALSE
  <2>1. PICK tail : tail = Tail(Current.terminal)
    OBVIOUS
  <2>2. PICK f1 : f1 = [Current EXCEPT !.at = 1, !.followed = FALSE]
    OBVIOUS
  <2>3. /\ f1 \in Activations /\ f1.fn = Current.fn /\ f1.todo = Current.todo
        /\ f1.visited = Current.visited /\ f1.rank = Current.rank /\ f1.origin = Current.origin
        /\ f1.ascending = Current.ascending /\ f1.at = 1 /\ f1.followed = FALSE
    <3>1. 1 \in Nat \ {0}
      OBVIOUS
    <3> QED BY <1>2, <2>2, <3>1 DEF Activations
  <2>4. fr = [f1 EXCEPT !.terminal = tail, !.found = found]
    BY <1>6, <2>1, <2>2
  <2> QED BY <1>7, <1>9, <2>1, <2>3, <2>4 DEF Activations
<1>11. SetCurrent(fr) /\ UNCHANGED <<defs, sites, bounds, seed, frontier, caveats, cut, masked, slices>>
  BY <1>3, <1>4, <1>5, <1>6 DEF NextParameter, Quiet, sliceProgram
<1>12. Local(fr)
  BY <1>2, <1>7, <1>10 DEF Local
<1>13. Hull(fr)
  BY <1>2, <1>8, <1>9, <1>10 DEF Hull, Accounted
<1>14. Ranked(fr)' /\ Upward(fr)'
  <2>1. Listed(fr.fn)' # << >>
    BY <1>10, <1>11 DEF NextParameter, Listed
  <2> QED BY <1>2, <1>9, <1>10, <1>11, <2>1 DEF Ranked, Upward
<1>15. DOMAIN sites = SliceFunctions
  BY <1>1 DEF SliceTyped
<1>16. SliceTyped'
  BY <1>1, <1>2, <1>10, <1>11, <1>12, <1>13, <1>14, <1>15, TopTyped
<1>17. Disclosed => Disclosed'
  BY <1>11 DEF Disclosed
<1>18. \A j \in DOMAIN Current.todo :
           \/ Current.todo[j][1] \in fr.visited
           \/ \E k \in DOMAIN fr.todo : fr.todo[k][1] = Current.todo[j][1]
  BY <1>10
<1>19. PICK list : list = Listed(Current.fn)
  OBVIOUS
<1>20. Listed(fr.fn)' = list /\ list \in Seq(SitesOf(Current.fn)) /\ bounds.callers \in Nat
  BY <1>1, <1>2, <1>10, <1>11, <1>19, ListedFacts DEF Listed
<1>21. /\ frames'[Len(frames)] = fr /\ Len(frames) \in 1..Len(frames') /\ Current' = fr
  BY <1>1, <1>2, <1>10, <1>11, TopChanges, TopFrame DEF Current
<1>22. ASSUME Traced PROVE Traced'
  <2>1. Progress(Current)'
    <3>1. \A j \in DOMAIN list : ~(j < 1)
      BY <1>20
    <3> QED BY <3>1, <1>20, <1>21, <1>10 DEF Progress
  <2>2. Told(fr.fn, v)'
    <3>1. Progress(Current)
      BY <1>1, <1>2, <1>22, TopFrame DEF Traced
    <3>2. \A t : Answered(t, v) => Answered(t, v)'
      BY <1>1, <1>2, <1>9, <1>10, <1>11, <1>18, TopKeeps DEF Answered
    <3>3. ASSUME NEW j \in DOMAIN list, j <= bounds.callers
          PROVE  Answered(list[j], v)
      <4>1. j \in Nat \ {0}
        BY <1>20
      <4>2. j <= Len(Considered(Current.fn))
        BY <4>1, <3>3, <1>1, <1>2, <1>19, ListedFacts
      <4>3. Len(Considered(Current.fn)) \in Nat
        BY <1>1, <1>2, ListedFacts
      <4>4. j < Current.at
        BY <4>1, <4>2, <4>3, <1>1, <1>2
      <4> QED BY <4>4, <3>1, <3>3, <1>2, <1>3, <1>19 DEF Progress
    <3>4. CASE Len(list) > bounds.callers
      <4>1. NoteCallerCap(fr.fn)'
        BY <3>4, <1>20, <1>11 DEF NoteCallerCap
      <4> QED BY <4>1, <1>21, <1>10, <1>2 DEF Told, Untold
    <3>5. CASE ~(Len(list) > bounds.callers)
      <4>1. \A j \in DOMAIN list : j <= bounds.callers
        BY <3>5, <1>20
      <4>2. \A j \in DOMAIN list : Answered(list[j], v)'
        BY <4>1, <3>2, <3>3
      <4>3. sites'[fr.fn] # {}
        BY <1>2, <1>10, <1>11
      <4> QED BY <4>2, <4>3, <1>20 DEF Told, Followed
    <3> QED BY <3>4, <3>5
  <2>3. \A w \in Nat : (\E j \in DOMAIN Current.terminal : Current.terminal[j] = w) =>
               (\E k \in DOMAIN fr.terminal : fr.terminal[k] = w) \/ Told(fr.fn, w)'
    BY <2>2, <1>7, <1>10
  <2>4. \A s \in fr.found : s \in Current.found \/ s.values \subseteq Accounted(Current)
    BY <1>8, <1>9, <1>10
  <2> QED BY <1>1, <1>2, <1>9, <1>10, <1>11, <1>18, <1>22, <2>1, <2>3, <2>4, TopTraced
<1> QED BY <1>16, <1>17, <1>22 DEF SliceInv

-----------------------------------------------------------------------------
(***************************************************************************)
(* Into a caller, and back.                                                *)
(***************************************************************************)

LEMMA EnterCallerStep ==
    ASSUME BackwardConstants, SliceInv, EnterCaller
    PROVE  SliceInv'
<1>1. SliceTyped /\ Ascending /\ AtSite
  BY DEF SliceInv, EnterCaller, AtSite
<1>2. /\ Current \in Activations /\ Current.fn \in SliceFunctions /\ frames # << >>
      /\ sites[Current.fn] # {} /\ Current.ascending
      /\ Current.at \in Nat \ {0} /\ Current.terminal \in Seq(Nat) /\ Current.terminal # << >>
      /\ Local(Current) /\ slices = {}
  BY <1>1, AscendFacts DEF AtSite
<1>3. PICK v, caller, arg : v = Head(Current.terminal) /\ caller = ThisSite.caller
                            /\ arg = ThisSite.args[v]
  OBVIOUS
<1>4. PICK act : act = Activation(caller, arg)
  OBVIOUS
<1>5. ThisSite = Listed(Current.fn)[Current.at] /\ Current.at \in DOMAIN Listed(Current.fn)
  BY <1>1, <1>2, ListedFacts DEF AtSite, ThisSite
<1>6. v \in 1..Arity[Current.fn]
  BY <1>2, <1>3, HeadAndTail DEF Local
<1>7. caller \in SliceFunctions /\ arg \in SliceValues(caller) /\ arg \in Nat
  <2>1. caller \in SliceFunctions /\ arg \in {0} \union SliceValues(caller)
    BY <1>1, <1>2, <1>3, <1>5, <1>6, ListedFacts
  <2>2. arg # 0
    BY <1>3 DEF EnterCaller
  <2> QED BY <2>1, <2>2 DEF SliceValues
<1>8. /\ act \in Activations /\ act.fn = caller /\ act.todo = <<<<arg, 0>>>>
      /\ act.visited = {} /\ act.terminal = << >> /\ act.found = {} /\ act.rank = 0
      /\ act.origin.kind = "unresolved" /\ act.ascending = FALSE /\ act.at = 1
      /\ act.followed = FALSE
  <2>1. Unresolved \in Origins /\ Unresolved.kind = "unresolved"
    BY DEF Unresolved, Origins, Kinds
  <2>2. <<<<arg, 0>>>> \in Seq(Nat \X Nat) /\ << >> \in Seq(Nat)
    BY <1>7
  <2> QED BY <1>4, <1>7, <2>1, <2>2 DEF Activation, Activations
<1>9. frames' = Append(frames, act)
      /\ UNCHANGED <<sites, bounds, seed, frontier, caveats, cut, masked, slices>>
  BY <1>3, <1>4 DEF EnterCaller
<1>10. /\ frames \in Seq(Activations) /\ Len(frames) \in Nat \ {0}
       /\ frames' \in Seq(Activations) /\ Len(frames') = Len(frames) + 1
       /\ \A i \in 1..Len(frames) : frames'[i] = frames[i]
       /\ frames'[Len(frames) + 1] = act /\ Current = frames[Len(frames)]
  <2>1. frames \in Seq(Activations)
    BY <1>1 DEF SliceTyped
  <2>2. Len(frames) \in Nat \ {0}
    BY <2>1, <1>2
  <2> QED BY <2>1, <2>2, <1>8, <1>9, AppendProperties DEF Current
<1>11. /\ \A f \in SliceFunctions : defs[f] # << >> => defs'[f] = defs[f]
       /\ \A f \in SliceFunctions : defs'[f] \in BodiesOf(f) \union {<< >>}
       /\ defs' \in [SliceFunctions -> UNION {BodiesOf(f) \union {<< >>} : f \in SliceFunctions}]
       /\ defs'[caller] # << >>
  <2>1. /\ defs \in [SliceFunctions -> UNION {BodiesOf(f) \union {<< >>} : f \in SliceFunctions}]
        /\ \A f \in SliceFunctions : defs[f] \in BodiesOf(f) \union {<< >>}
    BY <1>1 DEF SliceTyped
  <2>2. CASE defs[caller] = << >>
    <3>1. PICK body \in BodiesOf(caller) : defs' = [defs EXCEPT ![caller] = body]
      BY <1>3, <2>2 DEF EnterCaller
    <3>2. body # << >>
      <4>1. 1 \in DOMAIN body
        BY <1>7 DEF BodiesOf, BackwardConstants
      <4>2. DOMAIN << >> = {}
        OBVIOUS
      <4> QED BY <4>1, <4>2
    <3> QED BY <1>7, <2>1, <2>2, <3>1, <3>2
  <2>3. CASE defs[caller] # << >>
    <3>1. defs' = defs
      BY <1>3, <2>3 DEF EnterCaller
    <3> QED BY <2>1, <2>3, <3>1
  <2> QED BY <2>2, <2>3
<1>12. SliceTyped'
  <2>1. ASSUME NEW i \in 1..Len(frames')
        PROVE  /\ Local(frames[i])' /\ Ranked(frames[i])' /\ Upward(frames[i])' /\ Hull(frames[i])'
               /\ i < Len(frames') => /\ frames'[i].ascending /\ frames'[i].terminal # << >>
                                   /\ Listed(frames[i].fn)' # << >>
    <3>1. CASE i \in 1..Len(frames)
      <4>1. frames'[i] = frames[i] /\ Local(frames[i]) /\ Ranked(frames[i])
            /\ Upward(frames[i]) /\ Hull(frames[i])
        BY <1>1, <1>10, <3>1 DEF SliceTyped
      <4>2. frames[i].fn \in SliceFunctions
        BY <1>10, <3>1, FrameIsActivation
      <4>3. Local(frames[i])' /\ Hull(frames[i])'
        BY <4>1, <4>2, <1>11 DEF Local, Hull, Accounted
      <4>4. Ranked(frames[i])' /\ Upward(frames[i])'
        BY <4>1, <1>9 DEF Ranked, Upward, Listed
      <4>5. frames[i].ascending /\ frames[i].terminal # << >> /\ Listed(frames[i].fn)' # << >>
        <5>0. Listed(frames[i].fn)' = Listed(frames[i].fn)
          BY <4>1, <1>9 DEF Listed
        <5>1. CASE i = Len(frames)
          <6>1. Listed(Current.fn) # << >>
            <7>1. Current.at \in DOMAIN Listed(Current.fn)
              BY <1>5
            <7>2. DOMAIN << >> = {}
              OBVIOUS
            <7> QED BY <7>1, <7>2
          <6> QED BY <5>0, <5>1, <6>1, <1>2, <1>10
        <5>2. CASE i # Len(frames)
          <6>1. i < Len(frames)
            BY <5>2, <3>1, <1>10
          <6> QED BY <5>0, <6>1, <3>1, <1>1 DEF SliceTyped
        <5> QED BY <5>1, <5>2
      <4> QED BY <4>1, <4>3, <4>4, <4>5
    <3>2. CASE i = Len(frames) + 1
      <4>1. frames'[i] = act
        BY <3>2, <1>10
      <4>2. \A j \in DOMAIN act.todo : act.todo[j][1] = arg
        BY <1>8
      <4>3. Local(frames[i])'
        BY <4>1, <4>2, <1>7, <1>8, <1>11 DEF Local
      <4>4. Ranked(frames[i])' /\ Upward(frames[i])' /\ Hull(frames[i])'
        BY <4>1, <1>8 DEF Ranked, Upward, Hull
      <4>5. ~(i < Len(frames'))
        BY <3>2, <1>10
      <4> QED BY <4>3, <4>4, <4>5
    <3> QED BY <3>1, <3>2, <1>10
  <2>2. frames' # << >> /\ slices' = {}
    BY <1>2, <1>9, <1>10
  <2> QED BY <1>1, <1>9, <1>10, <1>11, <2>1, <2>2 DEF SliceTyped
<1>13. Disclosed => Disclosed'
  BY <1>9 DEF Disclosed
<1>14. Kept' = Kept
  <2>1. Kept \subseteq Kept'
    BY <1>9, <1>10 DEF Kept
  <2>2. Kept' \subseteq Kept
    <3> SUFFICES ASSUME NEW s \in Kept' PROVE s \in Kept
      OBVIOUS
    <3>1. CASE s \in slices'
      BY <3>1, <1>9 DEF Kept
    <3>2. CASE \E i \in 1..Len(frames') : s \in frames'[i].found
      <4>1. PICK i \in 1..Len(frames') : s \in frames'[i].found
        BY <3>2
      <4>2. i # Len(frames) + 1
        BY <4>1, <1>8, <1>10
      <4>3. i \in 1..Len(frames) /\ s \in frames[i].found
        BY <4>1, <4>2, <1>10
      <4> QED BY <4>3 DEF Kept
    <3> QED BY <3>1, <3>2 DEF Kept
  <2> QED BY <2>1, <2>2
<1>15. \A f, w : /\ Seen(f, w)' <=> Seen(f, w)
                 /\ Reached(f, w) => Reached(f, w)'
                 /\ NamedAt(f, w) => NamedAt(f, w)'
                 /\ Pending(f, w) => Pending(f, w)'
  <2> SUFFICES ASSUME NEW f, NEW w
               PROVE  /\ Seen(f, w)' <=> Seen(f, w)
                      /\ Reached(f, w) => Reached(f, w)'
                      /\ NamedAt(f, w) => NamedAt(f, w)'
                      /\ Pending(f, w) => Pending(f, w)'
    OBVIOUS
  <2>1. \A i \in 1..Len(frames) : i \in 1..Len(frames') /\ frames'[i] = frames[i]
    BY <1>10
  <2>2. \A i \in 1..Len(frames') : i \in 1..Len(frames) \/ frames'[i] = act
    BY <1>10
  <2>3. Seen(f, w)' => Seen(f, w)
    BY <2>1, <2>2, <1>8, <1>14 DEF Seen
  <2>4. Seen(f, w) => Seen(f, w)'
    BY <2>1, <1>14 DEF Seen
  <2>5. Awaited(f, w) => Awaited(f, w)'
    BY <2>1 DEF Awaited
  <2>6. NamedAt(f, w) => NamedAt(f, w)'
    BY <1>14 DEF NamedAt
  <2>7. Pending(f, w) => Pending(f, w)'
    BY <2>1 DEF Pending
  <2> QED BY <2>3, <2>4, <2>5, <2>6, <2>7 DEF Reached
<1>16. ASSUME Traced PROVE Traced'
  <2>1. Reached("sinking", seed)'
    BY <1>9, <1>15, <1>16 DEF Traced
  <2>2. ASSUME NEW f \in SliceFunctions, NEW w \in Nat, Seen(f, w)'
        PROVE  defs'[f] # << >> /\ Settled(f, w)'
    <3>1. Settled(f, w) /\ defs[f] # << >>
      BY <1>15, <1>16, <2>2 DEF Traced
    <3>2. Pending(f, w) => Told(f, w)'
      BY <1>15 DEF Told
    <3>3. Untold(f) => Told(f, w)'
      <4>1. Untold(f) => Untold(f)'
        BY <1>9, <1>10 DEF Untold, NoteCallerCap, Listed
      <4> QED BY <4>1 DEF Told
    <3>4. defs'[f] = defs[f]
      BY <1>11, <3>1
    <3> QED BY <1>9, <1>15, <3>1, <3>2, <3>3, <3>4, SettledStays
  <2>3. ASSUME NEW i \in 1..Len(frames') PROVE Progress(frames[i])'
    <3>1. CASE i \in 1..Len(frames)
      BY <3>1, <1>1, <1>9, <1>10, <1>15, <1>16, PlaceStays DEF Traced
    <3>2. CASE i = Len(frames) + 1
      BY <3>2, <1>8, <1>10 DEF Progress
    <3> QED BY <3>1, <3>2, <1>10
  <2>4. ASSUME NEW i \in 1..Len(frames'), i < Len(frames') PROVE Upheld(frames[i])'
    <3>1. i \in 1..Len(frames) /\ frames'[i] = frames[i]
      BY <2>4, <1>10
    <3>2. CASE i < Len(frames)
      <4>1. frames[i].ascending /\ Upheld(frames[i])
        BY <3>1, <3>2, <1>1, <1>16 DEF SliceTyped, Traced
      <4> QED BY <4>1, <3>1, <1>1, <1>9, <1>15, PlaceStays
    <3>3. CASE i = Len(frames)
      <4>1. Awaited(caller, arg)'
        <5>1. Len(frames) + 1 \in 1..Len(frames') /\ act.todo[1][1] = arg /\ 1 \in DOMAIN act.todo
          BY <1>8, <1>10
        <5> QED BY <5>1, <1>8, <1>10 DEF Awaited
      <4>2. PICK t : t = ThisSite
        OBVIOUS
      <4>3. t.caller = caller /\ t.args[v] = arg
        BY <1>3, <4>2
      <4>4. Answered(t, v)'
        BY <4>1, <4>3 DEF Answered, Reached
      <4>5. frames'[i].at = Current.at /\ Head(frames'[i].terminal) = v
            /\ Listed(frames[i].fn)' = Listed(Current.fn)
        BY <3>1, <3>3, <1>3, <1>9, <1>10 DEF Listed
      <4>6. PICK list, at : list = Listed(Current.fn) /\ at = Current.at
        OBVIOUS
      <4>7. list[at] = t
        BY <4>2, <4>6, <1>5
      <4> QED BY <4>4, <4>5, <4>6, <4>7 DEF Upheld
    <3> QED BY <3>1, <3>2, <3>3, <1>10
  <2> QED BY <2>1, <2>2, <2>3, <2>4 DEF Traced
<1> QED BY <1>12, <1>13, <1>16 DEF SliceInv

\* What was found goes to the activation below, or ends the run.
LEMMA HandOverFacts ==
    ASSUME SliceTyped, frames # << >>, NEW found \in SUBSET Slices, found # {}, HandOver(found)
    PROVE  /\ Len(frames) = 1 => frames' = << >> /\ slices' = found
           /\ Len(frames) # 1 =>
                /\ frames' \in Seq(Activations) /\ Len(frames') = Len(frames) - 1
                /\ Len(frames') \in Nat \ {0} /\ frames' # << >> /\ slices' = slices
                /\ \A i \in 1..Len(frames') : i # Len(frames') => frames'[i] = frames[i]
                /\ \E par, new \in Activations :
                     /\ par = frames[Len(frames')] /\ new = frames'[Len(frames')]
                     /\ new.found = par.found \union {Below(par, s) : s \in found}
                     /\ new.fn = par.fn /\ new.todo = par.todo /\ new.visited = par.visited
                     /\ new.origin = par.origin /\ new.rank = par.rank
                     /\ new.terminal = par.terminal /\ new.ascending = par.ascending
                     /\ new.at = par.at + 1 /\ new.followed
<1>1. CASE Len(frames) = 1
  BY <1>1 DEF HandOver
<1>2. CASE Len(frames) # 1
  <2>0. frames \in Seq(Activations) /\ Len(frames) \in Nat \ {0}
    BY TopFrame DEF SliceTyped
  <2>1. Len(frames) - 1 \in Nat \ {0} /\ Len(frames) - 1 \in 1..Len(frames)
    <3>1. \A m \in Nat \ {0} : m # 1 => m - 1 \in Nat \ {0} /\ m - 1 \in 1..m
      OBVIOUS
    <3>2. Len(frames) # 1
      BY <1>2
    <3> QED BY <2>0, <3>1, <3>2
  <2>2. PICK n, par : n = Len(frames) - 1 /\ par = frames[n]
    OBVIOUS
  <2>3. par \in Activations
    BY <2>0, <2>1, <2>2
  <2>4. PICK below : below = {Below(par, s) : s \in found}
    OBVIOUS
  <2>5. below \subseteq Slices
    <3> SUFFICES ASSUME NEW s \in found PROVE Below(par, s) \in Slices
      BY <2>4
    <3>1. Accounted(par) \subseteq SliceFunctions \X Nat
      BY <2>3 DEF Accounted, Activations
    <3>2. PICK acc : acc = Accounted(par)
      OBVIOUS
    <3>3. Below(par, s) = [s EXCEPT !.values = s.values \union acc]
      BY <3>2 DEF Below
    <3> QED BY <3>1, <3>2, <3>3 DEF Slices
  <2>6. PICK all : all = par.found \union below
    OBVIOUS
  <2>7. PICK new : new = [par EXCEPT !.found = all, !.followed = TRUE, !.at = par.at + 1]
    OBVIOUS
  <2>8. /\ new \in Activations /\ new.found = all /\ new.fn = par.fn /\ new.todo = par.todo
        /\ new.visited = par.visited /\ new.origin = par.origin /\ new.rank = par.rank
        /\ new.terminal = par.terminal /\ new.ascending = par.ascending
        /\ new.at = par.at + 1 /\ new.followed
    <3>1. all \in SUBSET Slices /\ par.at + 1 \in Nat \ {0}
      BY <2>3, <2>5, <2>6 DEF Activations
    <3>2. PICK f1 : f1 = [par EXCEPT !.found = all]
      OBVIOUS
    <3>3. f1 \in Activations /\ f1.found = all /\ f1.fn = par.fn /\ f1.todo = par.todo
          /\ f1.visited = par.visited /\ f1.origin = par.origin /\ f1.rank = par.rank
          /\ f1.terminal = par.terminal /\ f1.ascending = par.ascending
          /\ f1.at = par.at /\ f1.followed = par.followed
      BY <2>3, <3>1, <3>2 DEF Activations
    <3>4. new = [f1 EXCEPT !.followed = TRUE, !.at = par.at + 1]
      BY <2>7, <3>2
    <3> QED BY <3>1, <3>3, <3>4 DEF Activations
  <2>9. PICK rest : rest = SubSeq(frames, 1, n)
    OBVIOUS
  <2>10. rest \in Seq(Activations) /\ Len(rest) = n /\ \A i \in 1..n : rest[i] = frames[i]
    <3>1. 1 \in Nat /\ n \in Nat /\ n <= Len(frames)
      BY <2>0, <2>1, <2>2
    <3> QED BY <2>0, <2>1, <2>2, <2>9, <3>1, SubSeqProperties
  <2>11. frames' = [rest EXCEPT ![n] = new] /\ slices' = slices
    <3>1. Receives(par, found) = new
      BY <2>4, <2>6, <2>7 DEF Receives
    <3> QED BY <1>2, <2>2, <2>9, <3>1 DEF HandOver
  <2>12. frames' \in Seq(Activations) /\ Len(frames') = n /\ frames'[n] = new
         /\ \A i \in 1..n : i # n => frames'[i] = frames[i]
    BY <2>1, <2>2, <2>8, <2>10, <2>11
  <2>13. frames' # << >>
    BY <2>1, <2>2, <2>12
  <2> QED BY <2>1, <2>2, <2>3, <2>4, <2>6, <2>8, <2>11, <2>12, <2>13
<1> QED BY <1>1, <1>2

LEMMA BelowFacts ==
    ASSUME NEW par \in Activations, NEW s \in Slices
    PROVE  /\ Below(par, s).values = s.values \union Accounted(par) /\ Below(par, s).fn = s.fn
           /\ Below(par, s).origin = s.origin /\ Below(par, s).params = s.params
<1>1. PICK acc : acc = Accounted(par)
  OBVIOUS
<1>2. Below(par, s) = [s EXCEPT !.values = s.values \union acc]
  BY <1>1 DEF Below
<1> QED BY <1>1, <1>2 DEF Slices

LEMMA HandOverTyped ==
    ASSUME SliceTyped, frames # << >>, NEW found \in SUBSET Slices, found # {}, HandOver(found),
           UNCHANGED <<defs, sites, bounds, seed>>, frontier \subseteq frontier'
    PROVE  SliceTyped'
<1>1. CASE Len(frames) = 1
  <2>1. frames' = << >> /\ slices' \subseteq Slices
    BY <1>1, HandOverFacts
  <2>2. Len(frames') = 0 /\ frames' \in Seq(Activations)
    BY <2>1
  <2>3. \A i \in 1..Len(frames') : FALSE
    BY <2>2
  <2> QED BY <2>1, <2>2, <2>3 DEF SliceTyped
<1>2. CASE Len(frames) # 1
  <2>0. frames \in Seq(Activations)
    BY DEF SliceTyped
  <2>1. /\ frames' \in Seq(Activations) /\ Len(frames') = Len(frames) - 1
        /\ Len(frames') \in Nat \ {0} /\ frames' # << >> /\ slices' = slices
        /\ \A i \in 1..Len(frames') : i # Len(frames') => frames'[i] = frames[i]
    BY <1>2, HandOverFacts
  <2>2. PICK par, new \in Activations :
          /\ par = frames[Len(frames')] /\ new = frames'[Len(frames')]
          /\ new.found = par.found \union {Below(par, s) : s \in found}
          /\ new.fn = par.fn /\ new.todo = par.todo /\ new.visited = par.visited
          /\ new.origin = par.origin /\ new.rank = par.rank
          /\ new.terminal = par.terminal /\ new.ascending = par.ascending
          /\ new.at = par.at + 1 /\ new.followed
    BY <1>2, HandOverFacts
  <2>3. Len(frames) \in Nat /\ \A i \in 1..Len(frames') : i \in 1..Len(frames) /\ i < Len(frames)
    BY <2>0, <2>1
  <2>4. ASSUME NEW i \in 1..Len(frames')
        PROVE  /\ Local(frames[i])' /\ Ranked(frames[i])' /\ Upward(frames[i])' /\ Hull(frames[i])'
               /\ i < Len(frames') => /\ frames'[i].ascending /\ frames'[i].terminal # << >>
                                      /\ Listed(frames[i].fn)' # << >>
    <3>1. /\ Local(frames[i]) /\ Ranked(frames[i]) /\ Upward(frames[i]) /\ Hull(frames[i])
          /\ frames[i].ascending /\ frames[i].terminal # << >> /\ Listed(frames[i].fn) # << >>
      BY <2>3 DEF SliceTyped
    <3>2. CASE i # Len(frames')
      <4>1. frames'[i] = frames[i]
        BY <3>2, <2>1
      <4>2. Listed(frames[i].fn)' = Listed(frames[i].fn)
        BY <4>1 DEF Listed
      <4>3. Local(frames[i])' /\ Hull(frames[i])' /\ Ranked(frames[i])'
        BY <3>1, <4>1 DEF Local, Hull, Accounted, Ranked
      <4>4. Upward(frames[i])'
        BY <3>1, <4>1, <4>2 DEF Upward
      <4> QED BY <3>1, <4>1, <4>2, <4>3, <4>4
    <3>3. CASE i = Len(frames')
      <4>1. frames'[i] = new /\ frames[i] = par
        BY <3>3, <2>2
      <4>2. Listed(frames[i].fn)' = Listed(par.fn)
        BY <4>1, <2>2 DEF Listed
      <4>3. Local(frames[i])' /\ Ranked(frames[i])'
        BY <3>1, <4>1, <2>2 DEF Local, Ranked
      <4>4. new.found # {}
        BY <2>2
      <4>5. Upward(frames[i])'
        BY <3>1, <4>1, <4>2, <4>4, <2>2 DEF Upward
      <4>6. Accounted(new) = Accounted(par)
        BY <2>2 DEF Accounted
      <4>7. Hull(frames[i])'
        <5>1. \A s \in found : Accounted(par) \subseteq Below(par, s).values
          BY <2>2, BelowFacts
        <5>2. Hull(new)
          BY <3>1, <4>1, <4>6, <2>2, <5>1 DEF Hull
        <5> QED BY <4>1, <5>2 DEF Hull, Accounted
      <4>8. ~(i < Len(frames'))
        BY <3>3, <2>1
      <4> QED BY <4>3, <4>5, <4>7, <4>8
    <3> QED BY <3>2, <3>3
  <2>5. slices' = {}
    BY <2>1 DEF SliceTyped
  <2> QED BY <2>1, <2>4, <2>5 DEF SliceTyped
<1> QED BY <1>1, <1>2

\* Whoever hands over what it found loses nothing of what was accounted for.
LEMMA HandOverTraced ==
    ASSUME BackwardConstants, SliceTyped, Traced, frames # << >>,
           NEW found \in SUBSET Slices, found # {}, HandOver(found),
           UNCHANGED <<defs, sites, bounds, seed>>, masked \subseteq masked',
           Current.todo = << >>, Current.found \subseteq found,
           \A s \in found : /\ Accounted(Current) \subseteq s.values
                            /\ s \in Current.found \/ s.values \subseteq Accounted(Current),
           \A f \in SliceFunctions, v \in Nat :
               f = Current.fn /\ (\E j \in DOMAIN Current.terminal : Current.terminal[j] = v) =>
                   Told(f, v)',
           ~(Current.ascending /\ NoteCallerCap(Current.fn))
    PROVE  Traced'
<1>1. /\ frames \in Seq(Activations) /\ Len(frames) \in Nat \ {0} /\ slices = {}
      /\ Current = frames[Len(frames)] /\ Len(frames) \in 1..Len(frames)
  BY TopFrame DEF SliceTyped
<1>2. PICK n : n = Len(frames) - 1
  OBVIOUS
<1>3. /\ n \in Nat /\ \A i \in 1..Len(frames) : i \in 1..n \/ i = Len(frames)
      /\ \A i \in 1..n : i \in 1..Len(frames) /\ i < Len(frames)
  BY <1>1, <1>2
<1>4. /\ Len(frames') = n
      /\ \A i \in 1..n : /\ frames'[i].fn = frames[i].fn /\ frames'[i].visited = frames[i].visited
                         /\ frames'[i].todo = frames[i].todo
                         /\ frames'[i].terminal = frames[i].terminal
                         /\ frames'[i].ascending = frames[i].ascending
                         /\ frames[i].found \subseteq frames'[i].found
      /\ \A i \in 1..n : i # n => frames'[i] = frames[i]
      /\ n # 0 => frames'[n].at = frames[n].at + 1
  <2>1. CASE n = 0
    <3>1. frames' = << >>
      BY <2>1, <1>1, <1>2, HandOverFacts
    <3>2. Len(frames') = 0 /\ \A i \in 1..n : FALSE
      BY <2>1, <3>1
    <3> QED BY <2>1, <3>2
  <2>2. CASE n # 0
    <3>1. Len(frames) # 1
      BY <2>2, <1>1, <1>2
    <3>2. Len(frames') = n /\ \A i \in 1..n : i # n => frames'[i] = frames[i]
      BY <3>1, <1>2, HandOverFacts
    <3>3. PICK par, new \in Activations :
          /\ par = frames[n] /\ new = frames'[n]
          /\ new.found = par.found \union {Below(par, s) : s \in found}
          /\ new.fn = par.fn /\ new.todo = par.todo /\ new.visited = par.visited
          /\ new.terminal = par.terminal /\ new.ascending = par.ascending
          /\ new.at = par.at + 1
      BY <3>1, <3>2, HandOverFacts
    <3>4. par.found \subseteq new.found
      BY <3>3
    <3>5. ASSUME NEW i \in 1..n
          PROVE  /\ frames'[i].fn = frames[i].fn /\ frames'[i].visited = frames[i].visited
                 /\ frames'[i].todo = frames[i].todo
                 /\ frames'[i].terminal = frames[i].terminal
                 /\ frames'[i].ascending = frames[i].ascending
                 /\ frames[i].found \subseteq frames'[i].found
      <4>1. CASE i = n
        BY <4>1, <3>3, <3>4
      <4>2. CASE i # n
        BY <4>2, <3>2
      <4> QED BY <4>1, <4>2
    <3>6. frames'[n].at = frames[n].at + 1
      BY <3>3
    <3> QED BY <3>2, <3>5, <3>6
  <2> QED BY <2>1, <2>2
<1>5. \A s \in found : \E t \in Kept' :
          s.values \subseteq t.values /\ t.fn = s.fn /\ t.origin = s.origin /\ t.params = s.params
  <2> SUFFICES ASSUME NEW s \in found
               PROVE  \E t \in Kept' : /\ s.values \subseteq t.values /\ t.fn = s.fn
                                       /\ t.origin = s.origin /\ t.params = s.params
    OBVIOUS
  <2>1. CASE n = 0
    <3>1. slices' = found
      BY <2>1, <1>1, <1>2, HandOverFacts
    <3> QED BY <3>1 DEF Kept
  <2>2. CASE n # 0
    <3>1. PICK par \in Activations : par = frames[n] /\ Below(par, s) \in frames'[n].found
      <4>1. Len(frames) # 1
        BY <2>2, <1>1, <1>2
      <4> QED BY <4>1, <1>4, HandOverFacts
    <3>2. Below(par, s) \in Kept'
      BY <3>1, <2>2, <1>3, <1>4 DEF Kept
    <3> QED BY <3>2, BelowFacts
  <2> QED BY <2>1, <2>2
<1>6. \A t \in Kept : \E u \in Kept' :
          t.values \subseteq u.values /\ u.fn = t.fn /\ u.origin = t.origin /\ u.params = t.params
  <2> SUFFICES ASSUME NEW t \in Kept
               PROVE  \E u \in Kept' : /\ t.values \subseteq u.values /\ u.fn = t.fn
                                       /\ u.origin = t.origin /\ u.params = t.params
    OBVIOUS
  <2>1. PICK i \in 1..Len(frames) : t \in frames[i].found
    BY <1>1 DEF Kept
  <2>2. CASE i \in 1..n
    <3>1. t \in frames'[i].found /\ i \in 1..Len(frames')
      BY <2>1, <2>2, <1>4
    <3> QED BY <3>1 DEF Kept
  <2>3. CASE i = Len(frames)
    <3>1. t \in found
      BY <2>1, <2>3, <1>1
    <3> QED BY <3>1, <1>5
  <2> QED BY <2>2, <2>3, <1>3
<1>7. \A f, v : Seen(f, v) => Seen(f, v)'
  <2> SUFFICES ASSUME NEW f, NEW v, Seen(f, v) PROVE Seen(f, v)'
    OBVIOUS
  <2>1. ASSUME NEW i \in 1..Len(frames), frames[i].fn = f, v \in frames[i].visited
        PROVE  Seen(f, v)'
    <3>1. CASE i \in 1..n
      BY <2>1, <3>1, <1>4 DEF Seen
    <3>2. CASE i = Len(frames)
      <4>1. <<f, v>> \in Accounted(Current)
        BY <2>1, <3>2, <1>1 DEF Accounted
      <4>2. PICK s : s \in found
        OBVIOUS
      <4>3. <<f, v>> \in s.values
        BY <4>1, <4>2
      <4> QED BY <4>2, <4>3, <1>5 DEF Seen
    <3> QED BY <3>1, <3>2, <1>3
  <2>2. ASSUME NEW s \in Kept, <<f, v>> \in s.values PROVE Seen(f, v)'
    BY <2>2, <1>6 DEF Seen
  <2> QED BY <2>1, <2>2 DEF Seen
<1>8. \A f, v : Reached(f, v) => Reached(f, v)'
  <2> SUFFICES ASSUME NEW f, NEW v, NEW i \in 1..Len(frames), frames[i].fn = f,
                      NEW j \in DOMAIN frames[i].todo, frames[i].todo[j][1] = v
               PROVE  Awaited(f, v)'
    BY <1>7 DEF Reached, Awaited
  <2>1. i # Len(frames)
    <3>1. DOMAIN << >> = {}
      OBVIOUS
    <3> QED BY <3>1, <1>1
  <2> QED BY <2>1, <1>3, <1>4 DEF Awaited
<1>9. \A f, v : NamedAt(f, v) => NamedAt(f, v)'
  BY <1>6 DEF NamedAt
<1>10. \A f, v : Seen(f, v)' => Seen(f, v)
  <2> SUFFICES ASSUME NEW f, NEW v, Seen(f, v)' PROVE Seen(f, v)
    OBVIOUS
  <2>1. ASSUME NEW i \in 1..n, frames'[i].fn = f, v \in frames'[i].visited PROVE Seen(f, v)
    BY <2>1, <1>3, <1>4 DEF Seen
  <2>2. ASSUME NEW s \in found, <<f, v>> \in s.values PROVE Seen(f, v)
    <3>1. CASE s \in Current.found
      BY <3>1, <2>2, <1>1 DEF Seen, Kept
    <3>2. CASE s.values \subseteq Accounted(Current)
      BY <3>2, <2>2, <1>1 DEF Seen, Accounted
    <3> QED BY <3>1, <3>2
  <2>3. ASSUME NEW t \in Kept', <<f, v>> \in t.values PROVE Seen(f, v)
    <3>1. CASE n = 0
      <4>1. slices' = found
        BY <3>1, <1>1, <1>2, HandOverFacts
      <4>2. \A i \in 1..Len(frames') : FALSE
        BY <3>1, <1>4
      <4> QED BY <4>1, <4>2, <2>2, <2>3 DEF Kept
    <3>2. CASE n # 0
      <4>1. Len(frames) # 1
        BY <3>2, <1>1, <1>2
      <4>2. slices' = {}
        BY <4>1, <1>1, HandOverFacts
      <4>3. PICK i \in 1..n : t \in frames'[i].found
        BY <4>2, <2>3, <1>4 DEF Kept
      <4>4. CASE t \in frames[i].found
        BY <4>4, <2>3, <1>3 DEF Seen, Kept
      <4>5. CASE t \notin frames[i].found
        <5>1. i = n
          BY <4>3, <4>5, <1>4
        <5>2. PICK par \in Activations : par = frames[n]
                    /\ frames'[n].found = par.found \union {Below(par, s) : s \in found}
          BY <4>1, <1>4, HandOverFacts
        <5>3. PICK s \in found : t = Below(par, s)
          BY <4>3, <4>5, <5>1, <5>2
        <5>4. <<f, v>> \in s.values \/ <<f, v>> \in Accounted(par)
          BY <2>3, <5>3, BelowFacts
        <5>5. CASE <<f, v>> \in Accounted(par)
          BY <5>1, <5>2, <5>5, <1>3 DEF Seen, Accounted
        <5> QED BY <5>4, <5>5, <2>2
      <4> QED BY <4>4, <4>5
    <3> QED BY <3>1, <3>2
  <2> QED BY <2>1, <2>3, <1>4 DEF Seen
<1>11. Reached("sinking", seed)'
  BY <1>8 DEF Traced
<1>12. ASSUME NEW f \in SliceFunctions, NEW v \in Nat, Seen(f, v)'
       PROVE  defs'[f] # << >> /\ Settled(f, v)'
  <2>1. Settled(f, v) /\ defs[f] # << >>
    BY <1>10, <1>12 DEF Traced
  <2>2. Pending(f, v) => Told(f, v)'
    <3> SUFFICES ASSUME NEW i \in 1..Len(frames), frames[i].fn = f,
                        NEW j \in DOMAIN frames[i].terminal, frames[i].terminal[j] = v
                 PROVE  Told(f, v)'
      BY DEF Pending
    <3>1. CASE i \in 1..n
      BY <3>1, <1>4 DEF Told, Pending
    <3>2. CASE i = Len(frames)
      <4>1. Current.fn = f /\ j \in DOMAIN Current.terminal /\ Current.terminal[j] = v
        BY <3>2, <1>1
      <4> QED BY <4>1
    <3> QED BY <3>1, <3>2, <1>3
  <2>3. Untold(f) => Told(f, v)'
    <3> SUFFICES ASSUME NoteCallerCap(f), NEW i \in 1..Len(frames), frames[i].fn = f, frames[i].ascending
                 PROVE  Untold(f)'
      BY DEF Untold, Told
    <3>1. NoteCallerCap(f)'
      BY DEF NoteCallerCap, Listed
    <3>2. i \in 1..n
      BY <1>1, <1>3
    <3> QED BY <3>1, <3>2, <1>4 DEF Untold
  <2> QED BY <1>8, <1>9, <2>1, <2>2, <2>3, SettledStays
<1>13. ASSUME NEW i \in 1..n, i # n
       PROVE  Progress(frames[i])' /\ Upheld(frames[i])'
  <2>1. frames'[i] = frames[i] /\ i \in 1..Len(frames) /\ i \in 1..Len(frames') /\ i < Len(frames)
    BY <1>3, <1>4, <1>13
  <2>2. Progress(frames[i]) /\ Upheld(frames[i]) /\ frames[i].ascending
    BY <2>1 DEF Traced, SliceTyped
  <2> QED BY <2>1, <2>2, <1>8, PlaceStays
<1>14. ASSUME n # 0 PROVE Progress(frames[n])'
  <2>1. n \in 1..n /\ n \in 1..Len(frames) /\ n < Len(frames)
    BY <1>3, <1>14
  <2>2. Progress(frames[n]) /\ Upheld(frames[n])
    BY <2>1 DEF Traced
  <2>3. frames[n].ascending /\ frames[n].terminal # << >> /\ frames[n].at \in Nat
    <3>1. frames[n] \in Activations
      BY <2>1, <1>1
    <3> QED BY <3>1, <2>1 DEF SliceTyped, Activations
  <2>4. PICK list, at, t : list = Listed(frames[n].fn) /\ at = frames[n].at
                           /\ t = Head(frames[n].terminal)
    OBVIOUS
  <2>5. Listed(frames[n].fn)' = list /\ frames'[n].at = at + 1 /\ Head(frames'[n].terminal) = t
    <3>1. frames'[n].fn = frames[n].fn /\ frames'[n].terminal = frames[n].terminal
          /\ frames'[n].at = frames[n].at + 1
      BY <2>1, <1>4, <1>14
    <3> QED BY <3>1, <2>4 DEF Listed
  <2>6. \A a : Answered(a, t) => Answered(a, t)'
    BY <1>8 DEF Answered
  <2>7. ASSUME NEW j \in DOMAIN list, j < at + 1, j <= bounds.callers PROVE Answered(list[j], t)
    <3>1. j \in Nat
      <4>1. PICK l : l \in Seq(SitesOf(frames[n].fn)) /\ l = list
        <5>1. frames[n].fn \in SliceFunctions /\ sites[frames[n].fn] # {}
          BY <2>1, <2>3, <1>1, FrameIsActivation DEF SliceTyped, Upward
        <5> QED BY <5>1, <2>4, ListedFacts
      <4> QED BY <4>1
    <3>2. CASE j < at
      BY <3>2, <2>2, <2>3, <2>4, <2>7 DEF Progress
    <3>3. CASE j = at
      BY <3>3, <2>2, <2>4 DEF Upheld
    <3> QED BY <3>1, <3>2, <3>3, <2>3, <2>4, <2>7
  <2>8. \A j \in DOMAIN list : j < at + 1 /\ j <= bounds.callers => Answered(list[j], t)'
    BY <2>6, <2>7
  <2> QED BY <2>5, <2>8 DEF Progress
<1> QED BY <1>3, <1>4, <1>11, <1>12, <1>13, <1>14 DEF Traced

\* The slice of one activation, handed over as it is.
LEMMA OwnSlice ==
    ASSUME SliceTyped, frames # << >>, Current.found = {},
           HandOver({Slice(Current, Current.origin, ToSet(Current.terminal))}),
           NEW own, own = Slice(Current, Current.origin, ToSet(Current.terminal))
    PROVE  /\ {own} \in SUBSET Slices /\ {own} # {} /\ HandOver({own})
           /\ \A s \in {own} : /\ Accounted(Current) \subseteq s.values
                               /\ s \in Current.found \/ s.values \subseteq Accounted(Current)
           /\ own.origin = Current.origin /\ own.fn = Current.fn
           /\ \A j \in DOMAIN Current.terminal : Current.terminal[j] \in own.params
<1>1. Current \in Activations
  BY TopFrame
<1>2. Current.origin \in Origins /\ Current.terminal \in Seq(Nat)
  BY <1>1 DEF Activations
<1>3. PICK params : params = ToSet(Current.terminal)
  OBVIOUS
<1>4. params \in SUBSET Nat /\ \A j \in DOMAIN Current.terminal : Current.terminal[j] \in params
  BY <1>2, <1>3 DEF ToSet
<1>5. own = Slice(Current, Current.origin, params)
  BY <1>3
<1>6. /\ own \in Slices /\ own.fn = Current.fn /\ own.origin = Current.origin
      /\ own.params = params /\ own.values = Accounted(Current)
  BY <1>1, <1>2, <1>4, <1>5, SliceFacts
<1> QED BY <1>4, <1>6

\* A slice with a parameter as its origin, once it is handed over.
LEMMA NamesItsParameters ==
    ASSUME SliceTyped, frames # << >>, NEW found \in SUBSET Slices, found # {}, HandOver(found),
           NEW s \in found, s.origin.kind = "parameter", NEW v \in s.params
    PROVE  NamedAt(s.fn, v)'
<1>1. CASE Len(frames) = 1
  <2>1. s \in Kept'
    BY <1>1, HandOverFacts DEF Kept
  <2> QED BY <2>1 DEF NamedAt
<1>2. CASE Len(frames) # 1
  <2>1. PICK par \in Activations : Below(par, s) \in frames'[Len(frames')].found
    BY <1>2, HandOverFacts
  <2>2. Len(frames') \in 1..Len(frames')
    <3>1. Len(frames') \in Nat \ {0}
      BY <1>2, HandOverFacts
    <3> QED BY <3>1
  <2>3. Below(par, s) \in Kept'
    BY <2>1, <2>2 DEF Kept
  <2> QED BY <2>3, BelowFacts DEF NamedAt
<1> QED BY <1>1, <1>2

\* The origin is what the walk ended at, or hides the parameters that it came across.
LEMMA EndSliceStep ==
    ASSUME BackwardConstants, SliceInv, EndSlice
    PROVE  SliceInv'
<1>1. SliceTyped /\ frames # << >> /\ ~Current.ascending /\ Current.todo = << >>
  BY DEF SliceInv, EndSlice, WalkEnded
<1>2. Current \in Activations /\ Ranked(Current) /\ Upward(Current) /\ Current.fn \in SliceFunctions
  BY <1>1, TopFrame DEF Activations
<1>3. UNCHANGED <<defs, sites, bounds, seed>> /\ UNCHANGED <<frontier, caveats, cut>>
      /\ masked \subseteq masked'
  BY DEF EndSlice, sliceProgram
<1>4. PICK own : own = Slice(Current, Current.origin, ToSet(Current.terminal))
  OBVIOUS
<1>5. Current.found = {}
  BY <1>1, <1>2 DEF Upward
<1>6. /\ {own} \in SUBSET Slices /\ {own} # {} /\ HandOver({own})
      /\ \A s \in {own} : /\ Accounted(Current) \subseteq s.values
                          /\ s \in Current.found \/ s.values \subseteq Accounted(Current)
      /\ own.origin = Current.origin /\ own.fn = Current.fn
      /\ \A j \in DOMAIN Current.terminal : Current.terminal[j] \in own.params
  <2>1. HandOver({Slice(Current, Current.origin, ToSet(Current.terminal))})
    BY DEF EndSlice
  <2> QED BY <1>1, <1>4, <1>5, <2>1, OwnSlice
<1>7. SliceTyped'
  BY <1>1, <1>3, <1>6, HandOverTyped
<1>8. Disclosed => Disclosed'
  BY <1>3 DEF Disclosed
<1>9. ASSUME Traced, ~Disclosed PROVE Traced'
  <2>1. ASSUME NEW f \in SliceFunctions, NEW v \in Nat, f = Current.fn,
               NEW j \in DOMAIN Current.terminal, Current.terminal[j] = v
        PROVE  Told(f, v)'
    <3>1. Current.terminal # << >>
      <4>1. DOMAIN << >> = {}
        OBVIOUS
      <4> QED BY <2>1, <4>1
    <3>2. Current.origin.kind \in {"parameter", "source"}
      BY <3>1, <1>2, <1>9 DEF Ranked, Disclosed
    <3>3. CASE Current.origin.kind = "parameter"
      <4>1. NamedAt(own.fn, v)'
        BY <3>3, <2>1, <1>1, <1>6, NamesItsParameters
      <4> QED BY <4>1, <2>1, <1>6 DEF Told
    <3>4. CASE Current.origin.kind = "source"
      <4>1. Current.terminal \in Seq(Nat)
        BY <1>2 DEF Activations
      <4>2. v \in ToSet(Current.terminal)
        BY <4>1, <2>1 DEF ToSet
      <4>3. <<f, v>> \in masked'
        BY <3>4, <4>2, <2>1 DEF EndSlice
      <4> QED BY <4>3 DEF Told
    <3> QED BY <3>2, <3>3, <3>4
  <2>2. Current.found \subseteq {own}
    BY <1>5
  <2> QED BY <1>1, <1>3, <1>6, <1>9, <2>1, <2>2, HandOverTraced
<1> QED BY <1>7, <1>8, <1>9 DEF SliceInv

LEMMA NoCallerStep ==
    ASSUME BackwardConstants, SliceInv, NoCaller
    PROVE  SliceInv'
<1>1. SliceTyped /\ frames # << >> /\ Ascending
  BY DEF SliceInv, NoCaller, Ascending
<1>2. /\ Current \in Activations /\ Current.fn \in SliceFunctions /\ Current.ascending
      /\ Current.todo = << >> /\ Current.origin.kind = "parameter" /\ Upward(Current)
  BY <1>1, AscendFacts
<1>3. UNCHANGED <<defs, sites, bounds, seed>> /\ UNCHANGED <<frontier, caveats, cut, masked>>
  BY DEF NoCaller, sliceProgram
<1>4. PICK own : own = Slice(Current, Current.origin, ToSet(Current.terminal))
  OBVIOUS
<1>5. Current.found = {}
  BY <1>2 DEF Upward, NoCaller
<1>6. /\ {own} \in SUBSET Slices /\ {own} # {} /\ HandOver({own})
      /\ \A s \in {own} : /\ Accounted(Current) \subseteq s.values
                          /\ s \in Current.found \/ s.values \subseteq Accounted(Current)
      /\ own.origin = Current.origin /\ own.fn = Current.fn
      /\ \A j \in DOMAIN Current.terminal : Current.terminal[j] \in own.params
  <2>1. HandOver({Slice(Current, Current.origin, ToSet(Current.terminal))})
    BY DEF NoCaller
  <2> QED BY <1>1, <1>4, <1>5, <2>1, OwnSlice
<1>7. SliceTyped'
  BY <1>1, <1>3, <1>6, HandOverTyped
<1>8. Disclosed => Disclosed'
  BY <1>3 DEF Disclosed
<1>9. ASSUME Traced PROVE Traced'
  <2>1. ASSUME NEW f \in SliceFunctions, NEW v \in Nat, f = Current.fn,
               NEW j \in DOMAIN Current.terminal, Current.terminal[j] = v
        PROVE  Told(f, v)'
    <3>1. NamedAt(own.fn, v)'
      BY <2>1, <1>1, <1>2, <1>6, NamesItsParameters
    <3> QED BY <3>1, <2>1, <1>6 DEF Told
  <2>2. ~NoteCallerCap(Current.fn)
    <3>1. Listed(Current.fn) = << >> /\ bounds.callers \in Nat
      BY <1>1 DEF NoCaller, SliceTyped
    <3>2. Len(Listed(Current.fn)) = 0
      BY <3>1
    <3> QED BY <3>1, <3>2 DEF NoteCallerCap
  <2>3. Current.found \subseteq {own}
    BY <1>5
  <2> QED BY <1>1, <1>2, <1>3, <1>6, <1>9, <2>1, <2>2, <2>3, HandOverTraced
<1> QED BY <1>7, <1>8, <1>9 DEF SliceInv

LEMMA EndAscentStep ==
    ASSUME BackwardConstants, SliceInv, EndAscent
    PROVE  SliceInv'
<1>1. SliceTyped /\ frames # << >> /\ Ascending /\ Current.terminal = << >>
  BY DEF SliceInv, EndAscent, Ascending
<1>2. /\ Current \in Activations /\ Current.fn \in SliceFunctions /\ Current.ascending
      /\ Current.todo = << >> /\ Current.found # {} /\ Hull(Current)
  BY <1>1, AscendFacts
<1>3. /\ UNCHANGED <<defs, sites, bounds, seed>> /\ UNCHANGED <<caveats, masked>>
      /\ frontier \subseteq frontier' /\ cut \subseteq cut' /\ HandOver(Current.found)
  BY DEF EndAscent, sliceProgram
<1>4. PICK found : found = Current.found
  OBVIOUS
<1>5. /\ found \in SUBSET Slices /\ found # {} /\ HandOver(found)
      /\ \A s \in found : Accounted(Current) \subseteq s.values
  BY <1>2, <1>3, <1>4 DEF Activations, Hull
<1>6. SliceTyped'
  BY <1>1, <1>3, <1>5, HandOverTyped
<1>7. Disclosed \/ NoteCallerCap(Current.fn) => Disclosed'
  <2>1. NoteCallerCap(Current.fn) => "caller_cap" \in cut'
    BY DEF EndAscent
  <2> QED BY <1>3, <2>1 DEF Disclosed
<1>8. ASSUME Traced, ~NoteCallerCap(Current.fn) PROVE Traced'
  <2>1. \A j \in DOMAIN Current.terminal : FALSE
    <3>1. DOMAIN << >> = {}
      OBVIOUS
    <3> QED BY <3>1, <1>1
  <2> QED BY <1>1, <1>2, <1>3, <1>4, <1>5, <1>8, <2>1, HandOverTraced
<1> QED BY <1>6, <1>7, <1>8 DEF SliceInv

-----------------------------------------------------------------------------
(***************************************************************************)
(* The run.                                                                *)
(***************************************************************************)

LEMMA BackwardStarts ==
    ASSUME BackwardConstants, BackwardInit
    PROVE  SliceInv
<1>1. PICK body \in BodiesOf("sinking") :
          defs = [f \in SliceFunctions |-> IF f = "sinking" THEN body ELSE << >>]
  BY DEF BackwardInit
<1>2. "sinking" \in SliceFunctions /\ seed \in SliceValues("sinking") /\ seed \in Nat
  BY DEF BackwardConstants, BackwardInit, SliceValues
<1>3. PICK act : act = Activation("sinking", seed)
  OBVIOUS
<1>4. /\ act \in Activations /\ act.fn = "sinking" /\ act.todo = <<<<seed, 0>>>>
      /\ act.visited = {} /\ act.terminal = << >> /\ act.found = {} /\ act.rank = 0
      /\ act.origin.kind = "unresolved" /\ act.ascending = FALSE /\ act.at = 1
      /\ act.followed = FALSE
  <2>1. Unresolved \in Origins /\ Unresolved.kind = "unresolved"
    BY DEF Unresolved, Origins, Kinds
  <2>2. <<<<seed, 0>>>> \in Seq(Nat \X Nat) /\ << >> \in Seq(Nat)
    BY <1>2
  <2> QED BY <1>2, <1>3, <2>1, <2>2 DEF Activation, Activations
<1>5. /\ frames = <<act>> /\ frames \in Seq(Activations) /\ Len(frames) = 1 /\ frames[1] = act
      /\ \A i \in 1..Len(frames) : i = 1
  BY <1>3, <1>4 DEF BackwardInit
<1>6. body # << >>
  <2>1. 1 \in DOMAIN body
    BY <1>2 DEF BodiesOf, BackwardConstants
  <2>2. DOMAIN << >> = {}
    OBVIOUS
  <2> QED BY <2>1, <2>2
<1>7. Local(act) /\ Ranked(act) /\ Upward(act) /\ Hull(act)
  <2>1. \A j \in DOMAIN act.todo : act.todo[j][1] = seed
    BY <1>4
  <2>2. Local(act)
    BY <1>1, <1>2, <1>4, <1>6, <2>1 DEF Local
  <2> QED BY <1>4, <2>2 DEF Ranked, Upward, Hull
<1>8. SliceTyped
  <2>1. bounds \in [steps : Nat, depth : Nat, callers : Nat]
    BY DEF BackwardInit, BackwardConstants
  <2>2. /\ defs \in [SliceFunctions -> UNION {BodiesOf(f) \union {<< >>} : f \in SliceFunctions}]
        /\ \A f \in SliceFunctions : defs[f] \in BodiesOf(f) \union {<< >>}
    BY <1>1
  <2>3. DOMAIN sites = SliceFunctions /\ \A f \in SliceFunctions : sites[f] = {}
    BY DEF BackwardInit
  <2>4. slices = {}
    BY DEF BackwardInit
  <2> QED BY <1>2, <1>5, <1>7, <2>1, <2>2, <2>3, <2>4 DEF SliceTyped
<1>9. Traced
  <2>1. Awaited("sinking", seed)
    <3>1. 1 \in DOMAIN act.todo /\ act.todo[1][1] = seed
      BY <1>4
    <3> QED BY <1>4, <1>5, <3>1 DEF Awaited
  <2>2. \A f, v : ~Seen(f, v)
    <3>1. Kept = {}
      <4>1. slices = {}
        BY DEF BackwardInit
      <4> QED BY <1>4, <1>5, <4>1 DEF Kept
    <3> QED BY <1>4, <1>5, <3>1 DEF Seen
  <2>3. \A i \in 1..Len(frames) : Progress(frames[i]) /\ ~(i < Len(frames))
    BY <1>4, <1>5 DEF Progress
  <2> QED BY <2>1, <2>2, <2>3 DEF Traced, Reached
<1> QED BY <1>8, <1>9 DEF SliceInv

LEMMA BackwardStep ==
    ASSUME BackwardConstants, SliceInv, BackwardNext
    PROVE  SliceInv'
<1>1. CASE Walk
  BY <1>1, DropStep, WalkParameterStep, WalkOtherStep, WalkReadsStep DEF Walk
<1>2. CASE EndSlice
  BY <1>2, EndSliceStep
<1>3. CASE Ascend
  BY <1>3, AskForSitesStep, NoCallerStep, PassSiteStep, EnterCallerStep, NextParameterStep,
     EndAscentStep DEF Ascend
<1> QED BY <1>1, <1>2, <1>3 DEF BackwardNext

LEMMA SliceUnchanged ==
    ASSUME SliceInv, UNCHANGED sliceVars
    PROVE  SliceInv'
<1>1. UNCHANGED <<defs, sites, bounds, seed, frames, frontier, caveats, cut, masked, slices>>
  BY DEF sliceVars, sliceProgram
<1>2. SliceTyped'
  BY <1>1 DEF SliceInv, SliceTyped, Local, Ranked, Upward, Hull, Accounted, Listed
<1>3. Disclosed => Disclosed'
  BY <1>1 DEF Disclosed
<1>4. \A f, v : /\ Seen(f, v)' <=> Seen(f, v)
                /\ Awaited(f, v)' <=> Awaited(f, v)
                /\ NamedAt(f, v)' <=> NamedAt(f, v)
                /\ Pending(f, v)' <=> Pending(f, v)
                /\ Untold(f)' <=> Untold(f)
  BY <1>1 DEF Seen, Kept, Awaited, NamedAt, Pending, Untold, NoteCallerCap, Listed
<1>5. \A t, v : Answered(t, v)' <=> Answered(t, v)
  BY <1>4 DEF Answered, Reached
<1>6. ASSUME Traced PROVE Traced'
  <2>1. Reached("sinking", seed)'
    BY <1>1, <1>4, <1>6 DEF Traced, Reached
  <2>2. ASSUME NEW f \in SliceFunctions, NEW v \in Nat, Seen(f, v)'
        PROVE  defs'[f] # << >> /\ Settled(f, v)'
    <3>1. defs[f] # << >> /\ Settled(f, v)
      BY <1>4, <1>6, <2>2 DEF Traced
    <3>2. Told(f, v) => Told(f, v)'
      BY <1>1, <1>4, <1>5 DEF Told, Followed, Listed
    <3>3. \A g, w : Reached(g, w) => Reached(g, w)'
      BY <1>4 DEF Reached
    <3> QED BY <1>1, <3>1, <3>2, <3>3 DEF Settled, Parameter, Defining
  <2>3. \A i \in 1..Len(frames) : Progress(frames[i])'
    BY <1>1, <1>5, <1>6 DEF Traced, Progress, Listed
  <2>4. \A i \in 1..Len(frames) : i < Len(frames) => Upheld(frames[i])'
    BY <1>1, <1>5, <1>6 DEF Traced, Upheld, Listed
  <2> QED BY <1>1, <2>1, <2>2, <2>3, <2>4 DEF Traced
<1> QED BY <1>2, <1>3, <1>6 DEF SliceInv

LEMMA SliceInvHolds == Spec => [](BackwardParked \/ SliceInv)
<1> USE TaintAssumption
<1>1. Init => BackwardParked \/ SliceInv
  BY BackwardStarts DEF Init
<1>2. (BackwardParked \/ SliceInv) /\ [Next]_<<forwardVars, sliceVars>>
          => (BackwardParked \/ SliceInv)'
  <2> SUFFICES ASSUME BackwardParked \/ SliceInv, [Next]_<<forwardVars, sliceVars>>
               PROVE  (BackwardParked \/ SliceInv)'
    OBVIOUS
  <2>1. CASE UNCHANGED sliceVars
    <3>1. BackwardParked => BackwardParked'
      BY <2>1 DEF BackwardParked, sliceVars, sliceProgram
    <3> QED BY <2>1, <3>1, SliceUnchanged
  <2>2. CASE BackwardNext
    <3>1. frames # << >>
      BY <2>2 DEF BackwardNext, Walk, CutChain, AlreadyWalked, WalkParameter, WalkLeaf,
                  WalkReturn, WalkLoad, WalkReads, Leading, New, Walking, EndSlice, WalkEnded,
                  Ascend, AskForSites, NoCaller, SkipSite, UntrackableArgument, EnterCaller,
                  NextParameter, EndAscent, AtSite, Ascending
    <3>2. SliceInv
      BY <3>1 DEF BackwardParked
    <3> QED BY <2>2, <3>2, BackwardStep
  <2> QED BY <2>1, <2>2 DEF Next
<1> QED BY <1>1, <1>2, PTL DEF Spec

LEMMA TracedSliceIsComplete ==
    ASSUME Undisclosed = {"skippedSite", "returnedSource"}, SliceInv
    PROVE  CompleteSliceIsComplete
<1> SUFFICES ASSUME SaysComplete, "chain_truncated" \notin caveats
             PROVE  /\ <<"sinking", seed>> \in Covered
                    /\ \A d \in Covered : DependsOn(d[1], d[2]) \subseteq Covered
  BY DEF CompleteSliceIsComplete
<1>1. SliceTyped /\ Traced /\ frames = << >>
  BY DEF SliceInv, Disclosed, SaysComplete
<1>2. (\A i \in 1..Len(frames) : FALSE) /\ slices \subseteq Slices
  <2>1. Len(frames) = 0
    BY <1>1
  <2> QED BY <1>1, <2>1 DEF SliceTyped
<1>3. Kept = slices
  BY <1>2 DEF Kept
<1>4. \A f, v : /\ Reached(f, v) <=> Seen(f, v)
                /\ Seen(f, v) <=> <<f, v>> \in Covered
  BY <1>2, <1>3 DEF Reached, Seen, Awaited, Covered
<1>5. <<"sinking", seed>> \in Covered
  BY <1>1, <1>4 DEF Traced
<1>6. ASSUME NEW d \in Covered PROVE DependsOn(d[1], d[2]) \subseteq Covered
  <2>1. d \in SliceFunctions \X Nat
    BY <1>2 DEF Covered, Slices
  <2>2. PICK f \in SliceFunctions, v \in Nat : d = <<f, v>>
    BY <2>1
  <2>3. Settled(f, v)
    BY <1>1, <1>4, <2>2 DEF Traced
  <2>4. CASE ~Parameter(f, v)
    <3>1. \A j \in DOMAIN Defining(f, v).reads : <<f, Defining(f, v).reads[j]>> \in Covered
      BY <1>4, <2>3, <2>4 DEF Settled
    <3>2. \A w \in ToSet(Defining(f, v).reads) : <<f, w>> \in Covered
      BY <3>1 DEF ToSet
    <3>3. DependsOn(f, v) \subseteq Covered
      BY <2>4, <3>2 DEF DependsOn
    <3> QED BY <2>2, <3>3
  <2>5. CASE Parameter(f, v)
    <3>1. NamedAt(f, v) \/ <<f, v>> \in masked \/ Followed(f, v)
      BY <1>2, <2>3, <2>5 DEF Settled, Told, Pending, Untold
    <3>2. CASE NamedAt(f, v)
      <4>1. <<f, v>> \in Named
        BY <1>3, <3>2 DEF NamedAt, Named
      <4>2. DependsOn(f, v) = {}
        BY <2>5, <4>1 DEF DependsOn
      <4> QED BY <2>2, <4>2
    <3>3. CASE <<f, v>> \in masked
      <4>1. Excused(f, v)
        BY <3>3 DEF Excused
      <4>2. DependsOn(f, v) = {}
        BY <2>5, <4>1 DEF DependsOn
      <4> QED BY <2>2, <4>2
    <3>4. CASE Followed(f, v)
      <4>1. /\ sites[f] # {}
            /\ \A j \in DOMAIN Listed(f) : Answered(Listed(f)[j], v)
        BY <3>4 DEF Followed
      <4>2. \A t \in ToSet(Listed(f)) : t.found /\ t.args[v] # 0 => <<t.caller, t.args[v]>> \in Covered
        BY <1>4, <4>1 DEF ToSet, Answered
      <4>3. Arguments(f, v) \subseteq Covered
        BY <4>1, <4>2 DEF Arguments
      <4>4. DependsOn(f, v) \subseteq Covered
        BY <2>5, <4>3 DEF DependsOn
      <4> QED BY <2>2, <4>4
    <3> QED BY <3>1, <3>2, <3>3, <3>4
  <2> QED BY <2>4, <2>5
<1> QED BY <1>5, <1>6

(* backward, _bw_note_caller_cap and safe_to_report_complete_slice: for any functions, *)
(* call sites and bounds, a slice that is said to be complete accounts for the sink's  *)
(* value and for all that each of its values depends on, but for the two losses that   *)
(* the code leaves untold.                                                             *)
THEOREM CompleteSlicesAreComplete ==
    ASSUME Undisclosed = {"skippedSite", "returnedSource"}
    PROVE  Spec => []CompleteSliceIsComplete
<1>1. BackwardParked => CompleteSliceIsComplete
  BY DEF BackwardParked, CompleteSliceIsComplete, SaysComplete
<1>2. SliceInv => CompleteSliceIsComplete
  BY TracedSliceIsComplete
<1>3. BackwardParked \/ SliceInv => CompleteSliceIsComplete
  BY <1>1, <1>2
<1> QED BY <1>3, SliceInvHolds, PTL

-----------------------------------------------------------------------------
(***************************************************************************)
(* Induction over the rounds, by the least round that fails.               *)
(***************************************************************************)

LEMMA Rounding ==
    ASSUME NEW S \in SUBSET Nat, 0 \in S, \A n \in S : n + 1 \in S
    PROVE  S = Nat
<1> SUFFICES ASSUME Nat \ S # {} PROVE FALSE
  OBVIOUS
<1>1. PICK R : R = {pair \in Nat \X Nat : pair[1] < pair[2]}
  OBVIOUS
<1>2. IsWellFoundedOn(R, Nat)
  BY <1>1, NatLessThanWellFounded DEF OpToRel
<1>3. PICK T : T = Nat \ S
  OBVIOUS
<1>4. T \subseteq Nat /\ T # {}
  BY <1>3
<1>5. PICK x \in T : \A y \in T : ~ (<<y, x>> \in R)
  BY <1>2, <1>4, WFMin
<1>6. x \in Nat /\ x # 0 /\ x \notin S
  BY <1>3, <1>5
<1>7. x - 1 \in Nat /\ x - 1 < x /\ (x - 1) + 1 = x
  BY <1>6
<1>8. x - 1 \in S
  <2>1. <<x - 1, x>> \in R
    BY <1>1, <1>6, <1>7
  <2> QED BY <1>3, <1>5, <1>7, <2>1
<1>9. (x - 1) + 1 \in S
  BY <1>8
<1> QED BY <1>6, <1>7, <1>9

\* The flow of a round, from that of the round before it.
Round(flow) == [c \in Contexts |-> Consequences(flow, c)]

UpTo(n, F) == DOMAIN F = 0..n /\ F[0] = NoFlow /\ \A m \in 1..n : F[m] = Round(F[m - 1])

LEMMA SameRounds ==
    ASSUME NEW n \in Nat, NEW p \in Nat, NEW F, NEW G, UpTo(n, F), UpTo(p, G)
    PROVE  \A m \in Nat : m <= n /\ m <= p => F[m] = G[m]
<1>1. PICK S : S = {m \in Nat : m <= n /\ m <= p => F[m] = G[m]}
  OBVIOUS
<1>2. S \in SUBSET Nat
  BY <1>1
<1>3. 0 \in S
  BY <1>1 DEF UpTo
<1>4. ASSUME NEW m \in S PROVE m + 1 \in S
  <2> SUFFICES ASSUME m + 1 <= n, m + 1 <= p PROVE F[m + 1] = G[m + 1]
    BY <1>1, <1>2
  <2>1. m \in Nat /\ F[m] = G[m]
    BY <1>1, <1>2
  <2>2. m + 1 \in 1..n /\ m + 1 \in 1..p /\ (m + 1) - 1 = m
    BY <2>1
  <2>3. F[m + 1] = Round(F[(m + 1) - 1]) /\ G[m + 1] = Round(G[(m + 1) - 1])
    BY <2>2 DEF UpTo
  <2> QED BY <2>1, <2>2, <2>3
<1>5. S = Nat
  BY <1>2, <1>3, <1>4, Rounding
<1> QED BY <1>1, <1>5

LEMMA RoundsExist == \A n \in Nat : \E F : UpTo(n, F)
<1>1. PICK S : S = {n \in Nat : \E F : UpTo(n, F)}
  OBVIOUS
<1>2. S \in SUBSET Nat
  BY <1>1
<1>3. 0 \in S
  <2>1. PICK F : F = [m \in 0..0 |-> NoFlow]
    OBVIOUS
  <2>2. UpTo(0, F)
    BY <2>1 DEF UpTo
  <2> QED BY <1>1, <2>2
<1>4. ASSUME NEW n \in S PROVE n + 1 \in S
  <2>1. PICK F : UpTo(n, F)
    BY <1>1
  <2>2. PICK next : next = Round(F[n])
    OBVIOUS
  <2>3. PICK G : G = [m \in 0..(n + 1) |-> IF m = n + 1 THEN next ELSE F[m]]
    OBVIOUS
  <2>4. n \in Nat
    BY <1>2
  <2>5. DOMAIN G = 0..(n + 1) /\ G[0] = NoFlow
    BY <2>1, <2>3, <2>4 DEF UpTo
  <2>6. ASSUME NEW m \in 1..(n + 1) PROVE G[m] = Round(G[m - 1])
    <3>1. CASE m = n + 1
      <4>1. G[m] = next /\ m - 1 = n /\ G[n] = F[n]
        BY <2>3, <2>4, <3>1
      <4> QED BY <2>2, <4>1
    <3>2. CASE m # n + 1
      <4>1. m \in 1..n /\ G[m] = F[m] /\ G[m - 1] = F[m - 1]
        BY <2>3, <2>4, <3>2
      <4>2. F[m] = Round(F[m - 1])
        BY <2>1, <4>1 DEF UpTo
      <4> QED BY <4>1, <4>2
    <3> QED BY <3>1, <3>2
  <2>7. UpTo(n + 1, G)
    BY <2>5, <2>6 DEF UpTo
  <2> QED BY <1>1, <2>4, <2>7
<1>5. S = Nat
  BY <1>2, <1>3, <1>4, Rounding
<1> QED BY <1>1, <1>5

\* The recursive definition of Flow does what it says.
LEMMA FlowByRounds ==
    /\ Flow[0] = NoFlow
    /\ \A n \in Nat : Flow[n + 1] = Round(Flow[n])
<1>1. PICK F : F = [n \in Nat |-> (CHOOSE G : UpTo(n, G))[n]]
  OBVIOUS
<1>2. ASSUME NEW n \in Nat PROVE UpTo(n, CHOOSE G : UpTo(n, G))
  BY RoundsExist
<1>3. F[0] = NoFlow
  BY <1>1, <1>2 DEF UpTo
<1>4. ASSUME NEW n \in Nat PROVE F[n + 1] = Round(F[n])
  <2>1. PICK G, H : G = (CHOOSE K : UpTo(n, K)) /\ H = (CHOOSE K : UpTo(n + 1, K))
    OBVIOUS
  <2>2. UpTo(n, G) /\ UpTo(n + 1, H)
    BY <1>2, <2>1
  <2>3. G[n] = H[n]
    BY <2>2, SameRounds
  <2>4. H[n + 1] = Round(H[n])
    <3>1. n + 1 \in 1..(n + 1) /\ (n + 1) - 1 = n
      OBVIOUS
    <3>2. H[n + 1] = Round(H[(n + 1) - 1])
      BY <2>2, <3>1 DEF UpTo
    <3> QED BY <3>1, <3>2
  <2>5. F[n] = G[n] /\ F[n + 1] = H[n + 1]
    BY <1>1, <2>1
  <2> QED BY <2>3, <2>4, <2>5
<1>5. F = [n \in Nat |-> IF n = 0 THEN NoFlow ELSE [c \in Contexts |-> Consequences(F[n - 1], c)]]
  <2>1. ASSUME NEW n \in Nat
        PROVE  F[n] = IF n = 0 THEN NoFlow ELSE [c \in Contexts |-> Consequences(F[n - 1], c)]
    <3>1. CASE n = 0
      BY <1>3, <3>1
    <3>2. CASE n # 0
      <4>1. n - 1 \in Nat /\ (n - 1) + 1 = n
        BY <3>2
      <4>2. F[(n - 1) + 1] = Round(F[n - 1])
        BY <1>4, <4>1
      <4> QED BY <3>2, <4>1, <4>2 DEF Round
    <3> QED BY <3>1, <3>2
  <2> QED BY <1>1, <2>1
<1>6. PICK Q : Q = Flow
  OBVIOUS
<1>7. Q = [n \in Nat |-> IF n = 0 THEN NoFlow ELSE [c \in Contexts |-> Consequences(Q[n - 1], c)]]
  BY <1>5, <1>6 DEF Flow
<1>8. Q[0] = NoFlow
  BY <1>7
<1>9. ASSUME NEW n \in Nat PROVE Q[n + 1] = Round(Q[n])
  <2>1. n + 1 \in Nat /\ n + 1 # 0 /\ (n + 1) - 1 = n
    OBVIOUS
  <2> QED BY <1>7, <2>1 DEF Round
<1> QED BY <1>6, <1>8, <1>9

-----------------------------------------------------------------------------
(***************************************************************************)
(* Certificates: what a clean activation has shown.                        *)
(***************************************************************************)

Certs == [fn : Functions, given : SUBSET Nat, values : SUBSET Nat, returns : BOOLEAN]

\* Each target of the call is certified for what it is handed.
Passed(D, f, values, k, args) ==
    /\ code[f][k].targets # {}
    /\ \A g \in code[f][k].targets :
           \E d \in D : /\ d.fn = g /\ d.given = Taken(g, args)
                        /\ d.returns => Defined(f, k) \in values

\* The values account for what the instruction does, and it is nothing to report.
Heeds(D, f, values, returns, k) ==
    /\ code[f][k].op = "move" /\ ReadsIn(f, values, k) => Defined(f, k) \in values
    /\ code[f][k].op = "store" /\ CarriesIn(f, values, code[f][k].uses[1]) =>
           ReadsIn(f, values, k) /\ code[f][k].into = 0 /\ 0 \in values
    /\ code[f][k].op = "sink" => ~CarriesIn(f, values, code[f][k].uses[1])
    /\ code[f][k].op = "return" /\ CarriesIn(f, values, code[f][k].uses[1]) => returns
    /\ code[f][k].op = "unlifted" => ~ReadsIn(f, values, k)
    /\ code[f][k].op = "call" /\ HandedAt(f, values, k) # {} =>
           Passed(D, f, values, k, HandedAt(f, values, k))

Holds(D, d) ==
    /\ code[d.fn] # << >> /\ d.given \subseteq d.values
    /\ \A k \in 1..Length[d.fn] : Heeds(D, d.fn, d.values, d.returns, k)

Closed(D) == \A d \in D : Holds(D, d)

Certified == UNION {D \in SUBSET Certs : Closed(D)}

LEMMA HoldsInMore ==
    ASSUME NEW D, NEW E, D \subseteq E, NEW d, Holds(D, d)
    PROVE  Holds(E, d)
<1>1. \A f, values, k, args : Passed(D, f, values, k, args) => Passed(E, f, values, k, args)
  BY DEF Passed
<1>2. \A f, values, returns, k : Heeds(D, f, values, returns, k) => Heeds(E, f, values, returns, k)
  BY <1>1 DEF Heeds
<1> QED BY <1>2 DEF Holds

LEMMA CertifiedHold ==
    Certified \subseteq Certs /\ \A d \in Certified : Holds(Certified, d)
<1>1. Certified \subseteq Certs
  BY DEF Certified
<1>2. ASSUME NEW d \in Certified PROVE Holds(Certified, d)
  <2>1. PICK D \in SUBSET Certs : Closed(D) /\ d \in D
    BY DEF Certified
  <2>2. D \subseteq Certified
    BY <2>1 DEF Certified
  <2> QED BY <2>1, <2>2, HoldsInMore DEF Closed
<1> QED BY <1>1, <1>2

LEMMA Certify ==
    ASSUME NEW d \in Certs, Holds(Certified, d)
    PROVE  d \in Certified
<1>1. PICK D : D = Certified \union {d}
  OBVIOUS
<1>2. D \in SUBSET Certs /\ Certified \subseteq D
  BY <1>1, CertifiedHold
<1>3. ASSUME NEW e \in D PROVE Holds(D, e)
  <2>1. Holds(Certified, e)
    BY <1>1, <1>3, CertifiedHold
  <2> QED BY <1>2, <2>1, HoldsInMore
<1>4. Closed(D)
  BY <1>3 DEF Closed
<1> QED BY <1>1, <1>2, <1>4 DEF Certified

\* Code that the run has yet to meet changes no certificate.
LEMMA CertifiedStay ==
    ASSUME setting' = setting, \A f \in Functions : code[f] # << >> => code'[f] = code[f]
    PROVE  Certified \subseteq Certified'
<1> SUFFICES ASSUME NEW D \in SUBSET Certs, Closed(D) PROVE Closed(D)'
  BY DEF Certified
<1>1. ASSUME NEW d \in D PROVE Holds(D, d)'
  <2>1. Holds(D, d) /\ d.fn \in Functions
    BY DEF Closed, Certs
  <2>2. code[d.fn] # << >> /\ code'[d.fn] = code[d.fn]
    BY <2>1 DEF Holds
  <2> QED BY <2>1, <2>2 DEF Holds, Heeds, Passed, HandedAt, CarriesIn, ReadsIn, Hops
<1> QED BY <1>1 DEF Closed

-----------------------------------------------------------------------------
(***************************************************************************)
(* What flows stays within what is certified.                              *)
(***************************************************************************)

Vouchers(f, v) == {d \in Certified : d.fn = f /\ v \in d.given}

Vouched(f, given) == \A v \in given : Vouchers(f, v) # {}

Within(flow) ==
    \A c \in Contexts : Vouched(c[1], c[2]) =>
        /\ \A y \in flow[c].values :
               \E v \in c[2] : \A d \in Vouchers(c[1], v) : y \in d.values
        /\ flow[c].returns => \E v \in c[2] : \A d \in Vouchers(c[1], v) : d.returns
        /\ flow[c].out = {} /\ flow[c].sinks = {} /\ ~flow[c].unknown

CodeTyped == \A f \in Functions : code[f] \in Bodies(f) \union {<< >>}

\* The flows that are left out.
Disregarded == Oversights \subseteq Overlooked

LEMMA RoundStaysWithin ==
    ASSUME ForwardConstants, Disregarded, CodeTyped, NEW flow, Within(flow)
    PROVE  Within(Round(flow))
<1> SUFFICES ASSUME NEW c \in Contexts, Vouched(c[1], c[2]), NEW r, r = Round(flow)[c]
             PROVE  /\ \A y \in r.values : \E v \in c[2] : \A d \in Vouchers(c[1], v) : y \in d.values
                    /\ r.returns => \E v \in c[2] : \A d \in Vouchers(c[1], v) : d.returns
                    /\ r.out = {} /\ r.sinks = {} /\ ~r.unknown
  BY DEF Within
<1>1. PICK f, G : f = c[1] /\ G = c[2]
  OBVIOUS
<1>2. PICK mine, effects : mine = flow[c].values /\ effects = EffectsIn(flow, f, mine)
  OBVIOUS
<1>3. r = Outcome(f, mine, effects)
  BY <1>1, <1>2 DEF Round, Consequences
<1>4. \A y \in mine : \E v \in G : \A d \in Vouchers(f, v) : y \in d.values
  BY <1>1, <1>2 DEF Within
<1>5. ASSUME NEW u, CarriesIn(f, mine, u)
      PROVE  \E v \in G : \A d \in Vouchers(f, v) : CarriesIn(f, d.values, u)
  <2>1. CASE u # 0 /\ u \in mine
    BY <1>4, <2>1 DEF CarriesIn, Carries, Reads
  <2>2. CASE 0 \in Root(f, code[f], u, Hops(f)) /\ 0 \in mine
    BY <1>4, <2>2 DEF CarriesIn, Carries
  <2> QED BY <1>5, <2>1, <2>2 DEF CarriesIn, Carries, Reads
<1>6. ASSUME NEW k, ReadsIn(f, mine, k)
      PROVE  \E v \in G : \A d \in Vouchers(f, v) : ReadsIn(f, d.values, k)
  BY <1>4, <1>6 DEF ReadsIn, Reads
<1>7. \A v \in G : Vouchers(f, v) # {}
  BY <1>1 DEF Vouched
<1>8. ASSUME NEW v \in G, NEW d \in Vouchers(f, v), NEW k \in DOMAIN code[f]
      PROVE  /\ Heeds(Certified, f, d.values, d.returns, k)
             /\ f \in Functions /\ code[f] # << >> /\ code[f][k] \in Menu[f]
  <2>1. d \in Certified /\ d.fn = f /\ f \in Functions /\ code[f] # << >>
    BY CertifiedHold DEF Vouchers, Holds, Certs
  <2>2. code[f] \in Bodies(f)
    BY <2>1 DEF CodeTyped
  <2>3. k \in 1..Length[f] /\ code[f][k] \in Menu[f]
    BY <2>2 DEF Bodies
  <2> QED BY <2>1, <2>3, CertifiedHold DEF Holds
<1>9. ASSUME NEW k \in CallsIn(f, mine), NEW i \in HandedAt(f, mine, k)
      PROVE  \E v \in G : \A d \in Vouchers(f, v) :
                 i \in HandedAt(f, d.values, k) /\ Passed(Certified, f, d.values, k, HandedAt(f, d.values, k))
  <2>1. k \in DOMAIN code[f] /\ code[f][k].op = "call" /\ i \in DOMAIN code[f][k].uses
        /\ CarriesIn(f, mine, code[f][k].uses[i])
    BY DEF CallsIn, HandedAt
  <2>2. PICK v \in G : \A d \in Vouchers(f, v) : CarriesIn(f, d.values, code[f][k].uses[i])
    BY <1>5, <2>1
  <2>3. \A d \in Vouchers(f, v) : i \in HandedAt(f, d.values, k)
    BY <2>1, <2>2 DEF HandedAt
  <2>4. \A d \in Vouchers(f, v) : Passed(Certified, f, d.values, k, HandedAt(f, d.values, k))
    BY <1>8, <2>1, <2>3 DEF Heeds
  <2> QED BY <2>3, <2>4
<1>10. ASSUME NEW k \in CallsIn(f, mine), NEW i \in HandedAt(f, mine, k), NEW g \in code[f][k].targets
       PROVE  /\ g \in Functions /\ code[g] # << >> /\ code[f][k].targets # {}
              /\ i \in Taken(g, HandedAt(f, mine, k)) => Vouchers(g, i) # {}
  <2>1. PICK v \in G : \A d \in Vouchers(f, v) :
            i \in HandedAt(f, d.values, k) /\ Passed(Certified, f, d.values, k, HandedAt(f, d.values, k))
    BY <1>9
  <2>2. PICK d : d \in Vouchers(f, v)
    BY <1>7
  <2>3. PICK e \in Certified : e.fn = g /\ e.given = Taken(g, HandedAt(f, d.values, k))
    BY <2>1, <2>2 DEF Passed
  <2>4. g \in Functions /\ code[g] # << >>
    BY <2>3, CertifiedHold DEF Holds, Certs
  <2>5. ASSUME i \in Taken(g, HandedAt(f, mine, k)) PROVE e \in Vouchers(g, i)
    <3>1. i \in Taken(g, HandedAt(f, d.values, k))
      BY <2>1, <2>2, <2>4, <2>5 DEF Taken
    <3> QED BY <2>3, <3>1 DEF Vouchers
  <2> QED BY <2>4, <2>5
<1>11. ASSUME NEW k \in CallsIn(f, mine), NEW g \in code[f][k].targets,
              NEW given, given = Taken(g, HandedAt(f, mine, k))
       PROVE  <<g, given>> \in Contexts /\ Vouched(g, given)
  <2>1. HandedAt(f, mine, k) # {}
    BY DEF CallsIn
  <2>2. g \in Functions /\ code[g] # << >>
    BY <1>10, <2>1
  <2>3. given \subseteq Params(g) /\ given \subseteq HandedAt(f, mine, k)
    BY <1>11, <2>2 DEF Taken
  <2>4. <<g, given>> \in Contexts
    BY <2>2, <2>3 DEF Contexts
  <2>5. \A i \in given : Vouchers(g, i) # {}
    BY <1>10, <1>11, <2>3
  <2> QED BY <2>4, <2>5 DEF Vouched
<1>12. ASSUME NEW e \in effects
       PROVE  /\ e[2].out = {} /\ e[2].sinks = {} /\ ~e[2].unknown
              /\ e[2].returns => \E v \in G : \A d \in Vouchers(f, v) : Defined(f, e[1]) \in d.values
  <2>0. PICK k \in CallsIn(f, mine) :
            \E g \in code[f][k].targets : e = <<k, flow[<<g, Taken(g, HandedAt(f, mine, k))>>]>>
    BY <1>2 DEF EffectsIn, CalledAt
  <2>1. PICK g \in code[f][k].targets : e = <<k, flow[<<g, Taken(g, HandedAt(f, mine, k))>>]>>
    BY <2>0
  <2>2. PICK b, given : b = <<g, given>> /\ given = Taken(g, HandedAt(f, mine, k))
    OBVIOUS
  <2>3. b \in Contexts /\ Vouched(b[1], b[2]) /\ e[2] = flow[b] /\ e[1] = k
    BY <1>11, <2>1, <2>2
  <2>4. /\ flow[b].returns => \E i \in b[2] : \A d \in Vouchers(b[1], i) : d.returns
        /\ flow[b].out = {} /\ flow[b].sinks = {} /\ ~flow[b].unknown
    BY <2>3 DEF Within
  <2>5. ASSUME flow[b].returns
        PROVE  \E v \in G : \A d \in Vouchers(f, v) : Defined(f, k) \in d.values
    <3>1. PICK i \in given : \A d \in Vouchers(g, i) : d.returns
      BY <2>2, <2>4, <2>5
    <3>0. i \in HandedAt(f, mine, k)
      BY <2>2, <3>1 DEF Taken
    <3>2. PICK v \in G : \A d \in Vouchers(f, v) :
              i \in HandedAt(f, d.values, k) /\ Passed(Certified, f, d.values, k, HandedAt(f, d.values, k))
      BY <1>9, <3>0
    <3>3. ASSUME NEW d \in Vouchers(f, v) PROVE Defined(f, k) \in d.values
      <4>1. PICK x \in Certified : x.fn = g /\ x.given = Taken(g, HandedAt(f, d.values, k))
                                   /\ (x.returns => Defined(f, k) \in d.values)
        BY <3>2 DEF Passed
      <4>2. x \in Vouchers(g, i)
        BY <2>2, <3>1, <3>2, <4>1 DEF Vouchers, Taken
      <4> QED BY <3>1, <4>1, <4>2
    <3> QED BY <3>3
  <2> QED BY <2>3, <2>4, <2>5
<1>13. ASSUME NEW op, NEW k \in TaintedAt(f, mine, op)
       PROVE  /\ code[f][k].op = op
              /\ \E v \in G : \A d \in Vouchers(f, v) :
                    /\ CarriesIn(f, d.values, code[f][k].uses[1])
                    /\ Heeds(Certified, f, d.values, d.returns, k)
  <2>1. k \in DOMAIN code[f] /\ code[f][k].op = op /\ CarriesIn(f, mine, code[f][k].uses[1])
    BY DEF TaintedAt
  <2> QED BY <1>5, <1>8, <2>1
<1>14. ASSUME NEW k \in TaintedAt(f, mine, "store")
       PROVE  /\ code[f][k].into = 0
              /\ \E v \in G : \A d \in Vouchers(f, v) : 0 \in d.values
  <2>1. PICK v \in G : \A d \in Vouchers(f, v) :
                    /\ CarriesIn(f, d.values, code[f][k].uses[1])
                    /\ Heeds(Certified, f, d.values, d.returns, k)
    BY <1>13
  <2>2. \A d \in Vouchers(f, v) : code[f][k].into = 0 /\ 0 \in d.values
    BY <1>13, <2>1 DEF Heeds
  <2> QED BY <1>7, <2>2
<1>15. \A v : Written(f, mine, effects, v) =>
                  v = 0 /\ \E w \in G : \A d \in Vouchers(f, w) : 0 \in d.values
  <2>1. \A e \in effects : WrittenBy(f, e) = {}
    BY <1>12 DEF WrittenBy
  <2> QED BY <1>14, <2>1 DEF Written
<1>16. TaintedAt(f, mine, "sink") = {}
  BY <1>7, <1>13 DEF Heeds
<1>17. ~Untraceable(f, mine, effects)
  <2>1. ASSUME NEW k \in TaintedAt(f, mine, "unlifted"), ReadsIn(f, mine, k) PROVE FALSE
    <3>1. PICK v \in G : \A d \in Vouchers(f, v) : ReadsIn(f, d.values, k)
      BY <1>6, <2>1
    <3>2. k \in DOMAIN code[f] /\ code[f][k].op = "unlifted"
      BY DEF TaintedAt
    <3> QED BY <1>7, <1>8, <3>1, <3>2 DEF Heeds
  <2>2. ASSUME NEW k \in CallsIn(f, mine)
        PROVE  /\ code[f][k].targets # {} /\ CalledAt(f, mine, k) \subseteq Contexts
               /\ ~ \E g \in code[f][k].targets : Surplus(g, HandedAt(f, mine, k))
    <3>1. PICK i : i \in HandedAt(f, mine, k)
      BY DEF CallsIn
    <3>2. code[f][k].targets # {}
      <4>1. PICK v \in G : \A d \in Vouchers(f, v) : Passed(Certified, f, d.values, k, HandedAt(f, d.values, k))
        BY <1>9, <3>1
      <4> QED BY <1>7, <4>1 DEF Passed
    <3>3. ~ \E g \in code[f][k].targets : Surplus(g, HandedAt(f, mine, k))
      BY DEF Surplus, Disregarded, Oversights
    <3> QED BY <1>11, <3>2, <3>3 DEF CalledAt
  <2>3. \A e \in effects : ~e[2].unknown /\ {} \notin WrittenBy(f, e)
    BY <1>12 DEF WrittenBy
  <2> QED BY <2>1, <2>2, <2>3 DEF Untraceable, Disregarded, Oversights
<1>18. ASSUME NEW y \in r.values
       PROVE  \E v \in G : \A d \in Vouchers(f, v) : y \in d.values
  <2>1. \/ y \in mine
        \/ \E k \in TaintedAt(f, mine, "move") : ReadsIn(f, mine, k) /\ y = Defined(f, k)
        \/ \E e \in effects : e[2].returns /\ y = Defined(f, e[1])
        \/ y = 0 /\ Written(f, mine, effects, 0)
    BY <1>3, <1>18 DEF Outcome
  <2>2. CASE y \in mine
    BY <1>4, <2>2
  <2>3. ASSUME NEW k \in TaintedAt(f, mine, "move"), ReadsIn(f, mine, k), y = Defined(f, k)
        PROVE  \E v \in G : \A d \in Vouchers(f, v) : y \in d.values
    <3>1. PICK v \in G : \A d \in Vouchers(f, v) : ReadsIn(f, d.values, k)
      BY <1>6, <2>3
    <3>2. k \in DOMAIN code[f] /\ code[f][k].op = "move"
      BY DEF TaintedAt
    <3> QED BY <1>8, <2>3, <3>1, <3>2 DEF Heeds
  <2>4. ASSUME NEW e \in effects, e[2].returns, y = Defined(f, e[1])
        PROVE  \E v \in G : \A d \in Vouchers(f, v) : y \in d.values
    BY <1>12, <2>4
  <2>5. CASE y = 0 /\ Written(f, mine, effects, 0)
    BY <1>15, <2>5
  <2> QED BY <2>1, <2>2, <2>3, <2>4, <2>5
<1>19. ASSUME r.returns PROVE \E v \in G : \A d \in Vouchers(f, v) : d.returns
  <2>0. r.returns = (TaintedAt(f, mine, "return") # {})
    BY <1>3 DEF Outcome
  <2>1. PICK k : k \in TaintedAt(f, mine, "return")
    BY <1>19, <2>0
  <2>2. PICK v \in G : \A d \in Vouchers(f, v) :
                    /\ CarriesIn(f, d.values, code[f][k].uses[1])
                    /\ Heeds(Certified, f, d.values, d.returns, k)
    BY <1>13, <2>1
  <2>3. code[f][k].op = "return"
    BY <1>13, <2>1
  <2>4. \A d \in Vouchers(f, v) : d.returns
    BY <2>2, <2>3 DEF Heeds
  <2> QED BY <2>4
<1>20. r.out = {}
  <2>1. r.out = {i \in Params(f) : Written(f, mine, effects, i)}
    BY <1>3 DEF Outcome
  <2>2. 0 \notin Params(f)
    BY DEF Params
  <2> QED BY <1>15, <2>1, <2>2
<1>21. r.sinks = {}
  BY <1>3, <1>12, <1>16 DEF Outcome
<1>22. ~r.unknown
  BY <1>3, <1>17 DEF Outcome
<1> QED BY <1>1, <1>18, <1>19, <1>20, <1>21, <1>22

LEMMA NoFlowIsWithin == Within(NoFlow)
<1> SUFFICES ASSUME NEW c \in Contexts, NEW r, r = NoFlow[c]
             PROVE  /\ \A y \in r.values : \E v \in c[2] : \A d \in Vouchers(c[1], v) : y \in d.values
                    /\ r.returns => \E v \in c[2] : \A d \in Vouchers(c[1], v) : d.returns
                    /\ r.out = {} /\ r.sinks = {} /\ ~r.unknown
  BY DEF Within
<1>1. /\ r.values = c[2] /\ r.returns = FALSE /\ r.out = {} /\ r.sinks = {} /\ r.unknown = FALSE
  BY DEF NoFlow
<1>2. \A f, v : \A d \in Vouchers(f, v) : v \in d.values
  BY CertifiedHold DEF Vouchers, Holds
<1> QED BY <1>1, <1>2

LEMMA FlowIsWithin ==
    ASSUME ForwardConstants, Disregarded, CodeTyped
    PROVE  \A n \in Nat : Within(Flow[n])
<1>1. PICK S : S = {n \in Nat : Within(Flow[n])}
  OBVIOUS
<1>2. S \in SUBSET Nat /\ 0 \in S
  BY <1>1, FlowByRounds, NoFlowIsWithin
<1>3. ASSUME NEW n \in S PROVE n + 1 \in S
  <2>1. n \in Nat /\ Within(Flow[n]) /\ n + 1 \in Nat
    BY <1>1
  <2>2. Within(Round(Flow[n]))
    BY <2>1, RoundStaysWithin
  <2> QED BY <1>1, <2>1, <2>2, FlowByRounds
<1>4. S = Nat
  BY <1>2, <1>3, Rounding
<1> QED BY <1>1, <1>4

\* Sources that are all vouched for reach nothing.
LEMMA VouchedSourcesAreHarmless ==
    ASSUME ForwardConstants, Disregarded, CodeTyped,
           Vouched("main", sources)
    PROVE  Truth.sinks = {} /\ ~Truth.unknown
<1>1. PICK c : c = <<"main", sources>>
  OBVIOUS
<1>2. c \in Contexts /\ c[1] = "main" /\ c[2] = sources
  BY <1>1 DEF Contexts
<1>3. Rounds \in Nat
  BY DEF ForwardConstants
<1>4. Within(Flow[Rounds])
  BY <1>3, FlowIsWithin
<1> QED BY <1>1, <1>2, <1>4 DEF Within, Truth

-----------------------------------------------------------------------------
(***************************************************************************)
(* The forward run: what its state looks like, and what it has shown.      *)
(***************************************************************************)

Leaves == {"coarse_store", "pointer_escape", "unlifted", "indirect_unresolved", "unmodeled",
           "arg_under_recovered"}

FrameRecs ==
    [fn : Functions, given : SUBSET Nat, pass : Nat, at : Nat \ {0}, changed : BOOLEAN,
     tainted : SUBSET Nat, done : SUBSET (Nat \X SUBSET Nat), returns : BOOLEAN,
     out : SUBSET Nat, sinks : SUBSET (Functions \X Nat), leaves : SUBSET Leaves,
     noModel : BOOLEAN, calling : BOOLEAN, targets : SUBSET (Functions \union {"external"}),
     handed : SUBSET Nat, retTainted : BOOLEAN, wrote : SUBSET Nat]

SummaryRecs ==
    [returns : BOOLEAN, out : SUBSET Nat, sinks : SUBSET (Functions \X Nat),
     leaves : SUBSET Leaves, noModel : BOOLEAN]

ForwardTyped ==
    /\ Disregarded
    /\ CodeTyped /\ code \in [Functions -> UNION {Bodies(f) \union {<< >>} : f \in Functions}]
    /\ code["main"] # << >>
    /\ sources \subseteq Nat /\ pending \subseteq Nat
    /\ stack \in Seq(FrameRecs)
    /\ \A i \in 1..Len(stack) : code[stack[i].fn] # << >>
    /\ \A key \in DOMAIN summaries : summaries[key] \subseteq SummaryRecs
    /\ result \in SummaryRecs

Clean(x) == x.leaves = {} /\ ~x.noModel /\ x.sinks = {}

\* The all-clear is lost, or will be.
Spoiled ==
    \/ causes # {} \/ incomplete # {} \/ ~Clean(result)
    \/ \E i \in 1..Len(stack) : ~Clean(stack[i])

Confirmed(f, given, returns) ==
    \E d \in Certified : d.fn = f /\ d.given = given /\ (d.returns => returns)

\* A source that a finished run accounts for.
Shown(v) == \E given \in SUBSET Nat : v \in given /\ Confirmed("main", given, TRUE)

\* A call of which some targets are still to be followed.
InFlight(frame) ==
    LET ins == code[frame.fn][frame.at] IN
    /\ frame.at \in 1..Length[frame.fn] /\ ins.op = "call" /\ ins.targets # {}
    /\ frame.handed = HandedAt(frame.fn, frame.tainted, frame.at) /\ frame.handed # {}
    /\ \A g \in ins.targets \ frame.targets :
           Confirmed(g, Taken(g, frame.handed), frame.retTainted)

\* The instructions of a sweep in which nothing was new are accounted for, and so is every
\* call that was followed.
Tracked(frame) ==
    /\ frame.given \subseteq frame.tainted /\ frame.out = {} /\ frame.wrote = {}
    /\ ~frame.changed => \A k \in 1..Length[frame.fn] : k < frame.at =>
           Heeds(Certified, frame.fn, frame.tainted, frame.returns, k)
    /\ \A k \in Nat : \A args \in SUBSET Nat : <<k, args>> \in frame.done =>
           \/ (frame.calling /\ k = frame.at /\ args = frame.handed)
           \/ Passed(Certified, frame.fn, frame.tainted, k, args)
    /\ frame.calling => InFlight(frame)

Sound ==
    /\ \A i \in 1..Len(stack) : Tracked(stack[i])
    /\ \A i \in 1..Len(stack) : i < Len(stack) =>
           /\ stack[i].calling /\ stack[i + 1].fn \in stack[i].targets
           /\ stack[i + 1].given = Taken(stack[i + 1].fn, stack[i].handed)
    /\ \A key \in DOMAIN summaries : \A sub \in summaries[key] :
           Clean(sub) /\ sub.out = {} /\ Confirmed(key[1], key[2], sub.returns)
    /\ \A v \in sources : \/ v \in pending \/ (stack # << >> /\ v \in stack[1].given)
                          \/ Shown(v)
    /\ stack # << >> => stack[1].fn = "main"
    /\ stack = << >> => pending = {}

TaintInv == ForwardTyped /\ (Spoiled \/ Sound)

LEMMA ShownStays ==
    ASSUME setting' = setting,
           \A f \in Functions : code[f] # << >> => code'[f] = code[f]
    PROVE  /\ \A f, given, returns : Confirmed(f, given, returns) => Confirmed(f, given, returns)'
           /\ \A v : Shown(v) => Shown(v)'
           /\ \A f \in Functions : code[f] # << >> =>
                 /\ \A values, k, args : Passed(Certified, f, values, k, args)
                                            => Passed(Certified, f, values, k, args)'
                 /\ \A values, returns, k : Heeds(Certified, f, values, returns, k)
                                            => Heeds(Certified, f, values, returns, k)'
<1>1. Certified \subseteq Certified'
  BY CertifiedStay
<1>2. \A f, given, returns : Confirmed(f, given, returns) => Confirmed(f, given, returns)'
  BY <1>1 DEF Confirmed
<1>3. ASSUME NEW f \in Functions, code[f] # << >>, NEW values, NEW k, NEW args,
             Passed(Certified, f, values, k, args)
      PROVE  Passed(Certified, f, values, k, args)'
  BY <1>1, <1>3 DEF Passed
<1>4. ASSUME NEW f \in Functions, code[f] # << >>, NEW values, NEW returns, NEW k,
             Heeds(Certified, f, values, returns, k)
      PROVE  Heeds(Certified, f, values, returns, k)'
  <2>1. code'[f] = code[f]
    BY <1>4
  <2>2. HandedAt(f, values, k)' = HandedAt(f, values, k)
    BY <2>1 DEF HandedAt, CarriesIn, Hops
  <2>3. \A args : Passed(Certified, f, values, k, args) => Passed(Certified, f, values, k, args)'
    BY <1>3, <1>4
  <2> QED BY <1>4, <2>1, <2>2, <2>3 DEF Heeds, CarriesIn, ReadsIn, Hops
<1>5. \A v : Shown(v) => Shown(v)'
  BY <1>2 DEF Shown
<1> QED BY <1>2, <1>3, <1>4, <1>5

LEMMA TrackedStays ==
    ASSUME setting' = setting,
           \A f \in Functions : code[f] # << >> => code'[f] = code[f],
           NEW F \in FrameRecs, code[F.fn] # << >>, Tracked(F)
    PROVE  Tracked(F)'
<1>1. F.fn \in Functions /\ code'[F.fn] = code[F.fn]
  BY DEF FrameRecs
<1>2. F.calling => InFlight(F)'
  <2> SUFFICES ASSUME F.calling PROVE InFlight(F)'
    OBVIOUS
  <2>1. InFlight(F)
    BY DEF Tracked
  <2>2. HandedAt(F.fn, F.tainted, F.at)' = HandedAt(F.fn, F.tainted, F.at)
    BY <1>1 DEF HandedAt, CarriesIn, Hops
  <2>3. \A g, given, returns : Confirmed(g, given, returns) => Confirmed(g, given, returns)'
    BY ShownStays
  <2> QED BY <1>1, <2>1, <2>2, <2>3 DEF InFlight
<1>3. \A k, args : Passed(Certified, F.fn, F.tainted, k, args)
                      => Passed(Certified, F.fn, F.tainted, k, args)'
  BY <1>1, ShownStays
<1>4. \A k : Heeds(Certified, F.fn, F.tainted, F.returns, k)
                => Heeds(Certified, F.fn, F.tainted, F.returns, k)'
  BY <1>1, ShownStays
<1> QED BY <1>2, <1>3, <1>4 DEF Tracked

LEMMA TopFacts ==
    ASSUME ForwardConstants, ForwardTyped, stack # << >>
    PROVE  /\ Len(stack) \in Nat \ {0} /\ Len(stack) \in 1..Len(stack) /\ Top = stack[Len(stack)]
           /\ Top \in FrameRecs /\ Top.fn \in Functions /\ code[Top.fn] # << >>
           /\ Body = code[Top.fn] /\ Body \in Bodies(Top.fn) /\ Length[Top.fn] \in Nat \ {0}
           /\ Top.at \in Nat \ {0} /\ NParams[Top.fn] \in Nat
<1>1. stack \in Seq(FrameRecs) /\ Len(stack) \in Nat \ {0} /\ Len(stack) \in 1..Len(stack)
  BY DEF ForwardTyped
<1>2. Top = stack[Len(stack)] /\ Top \in FrameRecs /\ code[Top.fn] # << >>
  BY <1>1 DEF Top, ForwardTyped
<1>3. Top.fn \in Functions /\ Top.at \in Nat \ {0}
  BY <1>2 DEF FrameRecs
<1>4. Body \in Bodies(Top.fn)
  BY <1>2, <1>3 DEF ForwardTyped, CodeTyped, Body
<1> QED BY <1>1, <1>2, <1>3, <1>4 DEF Body, ForwardConstants

LEMMA SetTopFacts ==
    ASSUME ForwardTyped, stack # << >>, NEW fr \in FrameRecs, SetTop(fr)
    PROVE  /\ stack' \in Seq(FrameRecs) /\ Len(stack') = Len(stack) /\ stack' # << >>
           /\ Len(stack) \in 1..Len(stack) /\ Len(stack) \in Nat
           /\ \A i \in 1..Len(stack) : i # Len(stack) => stack'[i] = stack[i]
           /\ stack'[Len(stack)] = fr
BY DEF ForwardTyped, SetTop

LEMMA TopStep ==
    ASSUME ForwardConstants, TaintInv, stack # << >>, NEW fr \in FrameRecs, SetTop(fr),
           fr.fn = Top.fn, fr.given = Top.given,
           UNCHANGED <<code, setting, sources, pending, summaries, result>>,
           causes \subseteq causes', incomplete \subseteq incomplete',
           Clean(fr) => Clean(Top),
           Sound /\ Clean(fr) /\ causes' = {} /\ incomplete' = {} => Tracked(fr)
    PROVE  TaintInv'
<1>1. ForwardTyped /\ (Spoiled \/ Sound)
  BY DEF TaintInv
<1>2. /\ stack' \in Seq(FrameRecs) /\ Len(stack') = Len(stack) /\ stack' # << >>
      /\ Len(stack) \in 1..Len(stack) /\ Len(stack) \in Nat
      /\ \A i \in 1..Len(stack) : i # Len(stack) => stack'[i] = stack[i]
      /\ stack'[Len(stack)] = fr
  BY <1>1, SetTopFacts
<1>3. /\ Top = stack[Len(stack)] /\ Top.fn \in Functions /\ code[Top.fn] # << >>
  BY <1>1, TopFacts
<1>4. ForwardTyped'
  <2>1. \A i \in 1..Len(stack) : code[stack[i].fn] # << >>
    BY <1>1 DEF ForwardTyped
  <2>2. \A i \in 1..Len(stack') : code'[stack'[i].fn] # << >>
    BY <1>2, <1>3, <2>1
  <2> QED BY <1>1, <1>2, <2>2 DEF ForwardTyped, CodeTyped
<1>5. Spoiled => Spoiled'
  <2>1. ASSUME NEW i \in 1..Len(stack), ~Clean(stack[i]) PROVE Spoiled'
    <3>1. CASE i = Len(stack)
      BY <3>1, <2>1, <1>2, <1>3 DEF Spoiled
    <3>2. CASE i # Len(stack)
      BY <3>2, <2>1, <1>2 DEF Spoiled
    <3> QED BY <3>1, <3>2
  <2>2. ASSUME causes # {} \/ incomplete # {} \/ ~Clean(result) PROVE Spoiled'
    BY <2>2 DEF Spoiled
  <2> QED BY <2>1, <2>2 DEF Spoiled
<1>6. ASSUME ~Spoiled' PROVE Sound'
  <2>1. Sound /\ Clean(fr) /\ causes' = {} /\ incomplete' = {}
    BY <1>1, <1>2, <1>5, <1>6 DEF Spoiled
  <2>2. \A f \in Functions : code[f] # << >> => code'[f] = code[f]
    OBVIOUS
  <2>3. ASSUME NEW i \in 1..Len(stack') PROVE Tracked(stack[i])'
    <3>1. CASE i = Len(stack)
      <4>1. Tracked(fr) /\ code[fr.fn] # << >>
        BY <1>3, <2>1
      <4>2. Tracked(fr)'
        BY <2>2, <4>1, TrackedStays
      <4> QED BY <3>1, <4>2, <1>2 DEF Tracked, InFlight
    <3>2. CASE i # Len(stack)
      <4>1. PICK F \in FrameRecs : F = stack[i]
        BY <1>1, <1>2 DEF ForwardTyped
      <4>2. Tracked(F) /\ code[F.fn] # << >> /\ stack'[i] = F
        BY <1>1, <1>2, <2>1, <3>2, <4>1 DEF Sound, ForwardTyped
      <4>3. Tracked(F)'
        BY <2>2, <4>2, TrackedStays
      <4> QED BY <4>2, <4>3 DEF Tracked, InFlight
    <3> QED BY <3>1, <3>2
  <2>4. ASSUME NEW i \in 1..Len(stack'), i < Len(stack')
        PROVE  /\ stack'[i].calling /\ stack'[i + 1].fn \in stack'[i].targets
               /\ stack'[i + 1].given = Taken(stack'[i + 1].fn, stack'[i].handed)
    <3>1. stack'[i] = stack[i] /\ i \in 1..Len(stack) /\ i < Len(stack) /\ i + 1 \in 1..Len(stack)
      BY <2>4, <1>2
    <3>2. stack'[i + 1].fn = stack[i + 1].fn /\ stack'[i + 1].given = stack[i + 1].given
      BY <3>1, <1>2, <1>3
    <3> QED BY <3>1, <3>2, <2>1 DEF Sound
  <2>5. ASSUME NEW key \in DOMAIN summaries', NEW sub \in summaries'[key]
        PROVE  Clean(sub) /\ sub.out = {} /\ Confirmed(key[1], key[2], sub.returns)'
    <3>1. Clean(sub) /\ sub.out = {} /\ Confirmed(key[1], key[2], sub.returns)
      BY <2>1 DEF Sound
    <3> QED BY <3>1, <2>2, ShownStays
  <2>6. stack'[1].fn = stack[1].fn /\ stack'[1].given = stack[1].given
    <3>1. 1 \in 1..Len(stack)
      BY <1>2
    <3> QED BY <3>1, <1>2, <1>3
  <2>7. ASSUME NEW v \in sources'
        PROVE  \/ v \in pending' \/ (stack' # << >> /\ v \in stack'[1].given)
               \/ Shown(v)'
    <3>1. \/ v \in pending \/ (stack # << >> /\ v \in stack[1].given) \/ Shown(v)
      BY <2>1 DEF Sound
    <3>2. Shown(v) => Shown(v)'
      BY <2>2, ShownStays
    <3> QED BY <3>1, <3>2, <2>6, <1>2
  <2>8. stack'[1].fn = "main"
    BY <2>1, <2>6 DEF Sound
  <2> QED BY <1>2, <2>3, <2>4, <2>5, <2>7, <2>8 DEF Sound, Clean
<1> QED BY <1>4, <1>6 DEF TaintInv

-----------------------------------------------------------------------------
(***************************************************************************)
(* What the helpers of the sweep do to a frame.                            *)
(***************************************************************************)

LEMMA AdvanceFacts ==
    ASSUME NEW F \in FrameRecs, NEW fr, fr = Advance(F)
    PROVE  /\ fr \in FrameRecs /\ fr.at = F.at + 1
           /\ fr.fn = F.fn /\ fr.given = F.given /\ fr.pass = F.pass /\ fr.changed = F.changed
           /\ fr.tainted = F.tainted /\ fr.done = F.done /\ fr.returns = F.returns
           /\ fr.out = F.out /\ fr.sinks = F.sinks /\ fr.leaves = F.leaves
           /\ fr.noModel = F.noModel /\ fr.calling = F.calling /\ fr.targets = F.targets
           /\ fr.handed = F.handed /\ fr.retTainted = F.retTainted /\ fr.wrote = F.wrote
<1>1. PICK at : at = F.at + 1
  OBVIOUS
<1>2. at \in Nat \ {0}
  BY <1>1 DEF FrameRecs
<1>3. fr = [F EXCEPT !.at = at]
  BY <1>1 DEF Advance
<1> QED BY <1>1, <1>2, <1>3 DEF FrameRecs

LEMMA TaintFacts ==
    ASSUME NEW F \in FrameRecs, NEW S \in SUBSET Nat, NEW fr, fr = Taint(F, S)
    PROVE  /\ fr \in FrameRecs /\ fr.tainted = F.tainted \union S
           /\ ~fr.changed => ~F.changed /\ S \subseteq F.tainted
           /\ fr.fn = F.fn /\ fr.given = F.given /\ fr.pass = F.pass /\ fr.at = F.at
           /\ fr.done = F.done /\ fr.returns = F.returns /\ fr.out = F.out
           /\ fr.sinks = F.sinks /\ fr.leaves = F.leaves /\ fr.noModel = F.noModel
           /\ fr.calling = F.calling /\ fr.targets = F.targets /\ fr.handed = F.handed
           /\ fr.retTainted = F.retTainted /\ fr.wrote = F.wrote
<1>1. PICK tainted, changed : tainted = F.tainted \union S /\ changed = (F.changed \/ ~(S \subseteq F.tainted))
  OBVIOUS
<1>2. tainted \in SUBSET Nat /\ changed \in BOOLEAN /\ (~changed => ~F.changed /\ S \subseteq F.tainted)
  BY <1>1 DEF FrameRecs
<1>3. fr = [F EXCEPT !.tainted = tainted, !.changed = changed]
  BY <1>1 DEF Taint
<1>4. PICK G : G = [F EXCEPT !.tainted = tainted]
  OBVIOUS
<1>5. /\ G \in FrameRecs /\ G.tainted = tainted
      /\ G.fn = F.fn /\ G.given = F.given /\ G.pass = F.pass /\ G.at = F.at
      /\ G.changed = F.changed /\ G.done = F.done /\ G.returns = F.returns /\ G.out = F.out
      /\ G.sinks = F.sinks /\ G.leaves = F.leaves /\ G.noModel = F.noModel
      /\ G.calling = F.calling /\ G.targets = F.targets /\ G.handed = F.handed
      /\ G.retTainted = F.retTainted /\ G.wrote = F.wrote
  BY <1>2, <1>4 DEF FrameRecs
<1>6. fr = [G EXCEPT !.changed = changed]
  BY <1>3, <1>4
<1> QED BY <1>1, <1>2, <1>5, <1>6 DEF FrameRecs

LEMMA BubbleOutFacts ==
    ASSUME NEW F \in FrameRecs, NEW S \in SUBSET Nat, NEW fr, fr = BubbleOut(F, S)
    PROVE  /\ fr \in FrameRecs /\ fr.out = F.out \union S
           /\ ~fr.changed => ~F.changed /\ S \subseteq F.out
           /\ fr.fn = F.fn /\ fr.given = F.given /\ fr.pass = F.pass /\ fr.at = F.at
           /\ fr.tainted = F.tainted /\ fr.done = F.done /\ fr.returns = F.returns
           /\ fr.sinks = F.sinks /\ fr.leaves = F.leaves /\ fr.noModel = F.noModel
           /\ fr.calling = F.calling /\ fr.targets = F.targets /\ fr.handed = F.handed
           /\ fr.retTainted = F.retTainted /\ fr.wrote = F.wrote
<1>1. PICK out, changed : out = F.out \union S /\ changed = (F.changed \/ ~(S \subseteq F.out))
  OBVIOUS
<1>2. out \in SUBSET Nat /\ changed \in BOOLEAN /\ (~changed => ~F.changed /\ S \subseteq F.out)
  BY <1>1 DEF FrameRecs
<1>3. fr = [F EXCEPT !.out = out, !.changed = changed]
  BY <1>1 DEF BubbleOut
<1>4. PICK G : G = [F EXCEPT !.out = out]
  OBVIOUS
<1>5. /\ G \in FrameRecs /\ G.out = out
      /\ G.fn = F.fn /\ G.given = F.given /\ G.pass = F.pass /\ G.at = F.at
      /\ G.changed = F.changed /\ G.tainted = F.tainted /\ G.done = F.done
      /\ G.returns = F.returns /\ G.sinks = F.sinks /\ G.leaves = F.leaves
      /\ G.noModel = F.noModel /\ G.calling = F.calling /\ G.targets = F.targets
      /\ G.handed = F.handed /\ G.retTainted = F.retTainted /\ G.wrote = F.wrote
  BY <1>2, <1>4 DEF FrameRecs
<1>6. fr = [G EXCEPT !.changed = changed]
  BY <1>3, <1>4
<1> QED BY <1>1, <1>2, <1>5, <1>6 DEF FrameRecs

LEMMA DiscloseFacts ==
    ASSUME NEW F \in FrameRecs, NEW leaf \in Leaves, NEW fr, fr = Disclose(F, leaf)
    PROVE  fr \in FrameRecs /\ fr.fn = F.fn /\ fr.given = F.given /\ ~Clean(fr)
<1>1. PICK leaves : leaves = F.leaves \union {leaf}
  OBVIOUS
<1>2. leaves \in SUBSET Leaves /\ leaves # {}
  BY <1>1 DEF FrameRecs
<1>3. fr = [F EXCEPT !.leaves = leaves]
  BY <1>1 DEF Disclose
<1> QED BY <1>2, <1>3 DEF FrameRecs, Clean

\* After the instruction a frame was at, when that is accounted for.
LEMMA AfterInstruction ==
    ASSUME NEW F \in FrameRecs, NEW fr \in FrameRecs, Tracked(F),
           fr.fn = F.fn, fr.given = F.given, fr.at = F.at + 1, ~fr.calling,
           fr.out = {}, fr.wrote = {}, F.tainted \subseteq fr.tainted,
           F.returns => fr.returns,
           ~fr.changed => /\ ~F.changed /\ fr.tainted = F.tainted
                          /\ Heeds(Certified, fr.fn, fr.tainted, fr.returns, F.at),
           \A k \in Nat : \A args \in SUBSET Nat : <<k, args>> \in fr.done =>
               Passed(Certified, F.fn, F.tainted, k, args)
               \/ Passed(Certified, fr.fn, fr.tainted, k, args),
           Length[F.fn] \in Nat
    PROVE  Tracked(fr)
<1>1. \A k, args : Passed(Certified, F.fn, F.tainted, k, args)
                      => Passed(Certified, fr.fn, fr.tainted, k, args)
  BY DEF Passed
<1>2. ASSUME ~fr.changed, NEW k \in 1..Length[fr.fn], k < fr.at
      PROVE  Heeds(Certified, fr.fn, fr.tainted, fr.returns, k)
  <2>1. F.at \in Nat
    BY DEF FrameRecs
  <2>2. CASE k = F.at
    BY <1>2, <2>2
  <2>3. CASE k < F.at
    <3>1. Heeds(Certified, F.fn, F.tainted, F.returns, k)
      BY <1>2, <2>3 DEF Tracked
    <3>2. fr.fn = F.fn /\ fr.tainted = F.tainted /\ (F.returns => fr.returns)
      BY <1>2
    <3> QED BY <3>1, <3>2 DEF Heeds
  <2> QED BY <1>2, <2>1, <2>2, <2>3
<1>3. fr.given \subseteq fr.tainted
  BY DEF Tracked
<1> QED BY <1>1, <1>2, <1>3 DEF Tracked

-----------------------------------------------------------------------------
(***************************************************************************)
(* The sweep.                                                              *)
(***************************************************************************)

LEMMA InsFacts ==
    ASSUME ForwardConstants, ForwardTyped, InBody
    PROVE  /\ stack # << >> /\ Top.at \in 1..Length[Top.fn] /\ Ins = code[Top.fn][Top.at]
           /\ Ins \in [op : Ops, uses : Seq(Nat), into : Nat,
                       targets : SUBSET (Functions \union {"external"})]
           /\ \A v : Tainted(v) <=> CarriesIn(Top.fn, Top.tainted, v)
           /\ TaintedArgs = HandedAt(Top.fn, Top.tainted, Top.at) /\ TaintedArgs \in SUBSET Nat
<1>1. stack # << >> /\ Top.at <= Length[Top.fn]
  BY DEF InBody
<1>2. /\ Body = code[Top.fn] /\ Body \in Bodies(Top.fn) /\ Length[Top.fn] \in Nat \ {0}
      /\ Top.at \in Nat \ {0} /\ Top.fn \in Functions
  BY <1>1, TopFacts
<1>3. Top.at \in 1..Length[Top.fn]
  BY <1>1, <1>2
<1>4. Ins = code[Top.fn][Top.at]
  BY <1>2 DEF Ins
<1>5. Ins \in Menu[Top.fn]
  BY <1>2, <1>3, <1>4 DEF Bodies
<1>6. Ins \in [op : Ops, uses : Seq(Nat), into : Nat,
               targets : SUBSET (Functions \union {"external"})]
  BY <1>2, <1>5 DEF ForwardConstants
<1>7. \A v : Tainted(v) <=> CarriesIn(Top.fn, Top.tainted, v)
  BY <1>2 DEF Tainted, CarriesIn, Hops, ForwardTyped, Disregarded, Oversights
<1>8. TaintedArgs = HandedAt(Top.fn, Top.tainted, Top.at)
  BY <1>4, <1>7 DEF TaintedArgs, HandedAt
<1>9. TaintedArgs \in SUBSET Nat
  <2>1. DOMAIN Ins.uses \subseteq Nat
    BY <1>6
  <2> QED BY <2>1 DEF TaintedArgs
<1> QED BY <1>1, <1>3, <1>4, <1>6, <1>7, <1>8, <1>9

LEMMA SoundTop ==
    ASSUME ForwardConstants, ForwardTyped, stack # << >>, Sound
    PROVE  /\ Tracked(Top) /\ Top.out = {} /\ Top.wrote = {}
           /\ Top.calling => Ins.op = "call"
<1>1. Tracked(Top)
  BY TopFacts DEF Sound
<1>2. Top.calling => Ins.op = "call"
  BY <1>1 DEF Tracked, InFlight, Ins, Body
<1> QED BY <1>1, <1>2 DEF Tracked

LEMMA VisitStep ==
    ASSUME ForwardConstants, TaintInv, InBody, Ins.op # "call" \/ ~Top.calling, RunFrame,
           NEW X \in FrameRecs, SetTop(Advance(X)),
           X.fn = Top.fn, X.given = Top.given, Clean(X) => Clean(Top),
           Sound /\ Clean(X) =>
                       /\ X.at = Top.at /\ X.calling = Top.calling /\ X.done = Top.done
                       /\ X.out = Top.out /\ X.wrote = Top.wrote
                       /\ Top.tainted \subseteq X.tainted /\ (Top.returns => X.returns)
                       /\ ~X.changed =>
                             /\ ~Top.changed /\ X.tainted = Top.tainted
                             /\ Heeds(Certified, Top.fn, Top.tainted, X.returns, Top.at)
    PROVE  TaintInv'
<1>1. ForwardTyped /\ stack # << >>
  BY InsFacts DEF TaintInv
<1>2. PICK fr : fr = Advance(X)
  OBVIOUS
<1>3. /\ fr \in FrameRecs /\ fr.at = X.at + 1 /\ fr.fn = X.fn /\ fr.given = X.given
      /\ fr.changed = X.changed /\ fr.tainted = X.tainted /\ fr.done = X.done
      /\ fr.returns = X.returns /\ fr.out = X.out /\ fr.sinks = X.sinks /\ fr.leaves = X.leaves
      /\ fr.noModel = X.noModel /\ fr.calling = X.calling /\ fr.wrote = X.wrote
  BY <1>2, AdvanceFacts
<1>4. Top \in FrameRecs /\ Length[Top.fn] \in Nat
  BY <1>1, TopFacts
<1>5. ASSUME Sound, Clean(fr) PROVE Tracked(fr)
  <2>1. /\ Tracked(Top) /\ Top.out = {} /\ Top.wrote = {} /\ ~Top.calling
    BY <1>1, <1>5, SoundTop
  <2>2. Clean(X)
    BY <1>3, <1>5 DEF Clean
  <2>3. \A k \in Nat : \A args \in SUBSET Nat : <<k, args>> \in fr.done =>
            Passed(Certified, Top.fn, Top.tainted, k, args)
    BY <1>3, <1>5, <2>1, <2>2 DEF Tracked
  <2>4. /\ fr.fn = Top.fn /\ fr.given = Top.given /\ fr.at = Top.at + 1 /\ ~fr.calling
        /\ fr.out = {} /\ fr.wrote = {} /\ Top.tainted \subseteq fr.tainted
        /\ (Top.returns => fr.returns)
    BY <1>3, <1>5, <2>1, <2>2
  <2>5. ~fr.changed => /\ ~Top.changed /\ fr.tainted = Top.tainted
                       /\ Heeds(Certified, fr.fn, fr.tainted, fr.returns, Top.at)
    BY <1>3, <1>5, <2>2
  <2> QED BY <1>3, <1>4, <2>1, <2>3, <2>4, <2>5, AfterInstruction
<1>6. UNCHANGED <<code, setting, sources, pending, summaries, result, causes, incomplete>>
  BY DEF RunFrame, forwardProgram
<1>7. Clean(fr) => Clean(Top)
  BY <1>3 DEF Clean
<1>8. SetTop(fr)
  BY <1>2
<1> QED BY <1>1, <1>3, <1>5, <1>6, <1>7, <1>8, TopStep

LEMMA MoveStep ==
    ASSUME ForwardConstants, TaintInv, VisitAs("move", Move)
    PROVE  TaintInv'
<1>1. InBody /\ Ins.op = "move" /\ SetTop(Advance(Move(Top, Ins))) /\ RunFrame
  BY DEF VisitAs
<1>2. /\ Top \in FrameRecs /\ Top.at \in Nat \ {0} /\ NParams[Top.fn] \in Nat
      /\ Ins = code[Top.fn][Top.at]
  BY <1>1, InsFacts, TopFacts DEF TaintInv
<1>3. PICK X : X = Move(Top, Ins)
  OBVIOUS
<1>4. CASE ReadsIn(Top.fn, Top.tainted, Top.at)
  <2>1. PICK new : new = {Defined(Top.fn, Top.at)}
    OBVIOUS
  <2>2. new \in SUBSET Nat
    BY <1>2, <2>1 DEF Defined
  <2>3. X = Taint(Top, new)
    BY <1>2, <1>3, <1>4, <2>1 DEF Move, ReadsIn
  <2>4. /\ X \in FrameRecs /\ X.tainted = Top.tainted \union new
        /\ ~X.changed => ~Top.changed /\ new \subseteq Top.tainted
        /\ X.fn = Top.fn /\ X.given = Top.given /\ X.at = Top.at /\ X.done = Top.done
        /\ X.returns = Top.returns /\ X.out = Top.out /\ X.sinks = Top.sinks
        /\ X.leaves = Top.leaves /\ X.noModel = Top.noModel /\ X.calling = Top.calling
        /\ X.wrote = Top.wrote
    BY <1>2, <2>2, <2>3, TaintFacts
  <2>5. ~X.changed => Heeds(Certified, Top.fn, Top.tainted, X.returns, Top.at)
    BY <1>1, <1>2, <2>1, <2>4 DEF Heeds
  <2>6. Clean(X) => Clean(Top)
    BY <2>4 DEF Clean
  <2> QED BY <1>1, <1>3, <2>4, <2>5, <2>6, VisitStep
<1>5. CASE ~ReadsIn(Top.fn, Top.tainted, Top.at)
  <2>1. X = Top
    BY <1>2, <1>3, <1>5 DEF Move, ReadsIn
  <2>2. Heeds(Certified, Top.fn, Top.tainted, X.returns, Top.at)
    BY <1>1, <1>2, <1>5 DEF Heeds
  <2> QED BY <1>1, <1>2, <1>3, <2>1, <2>2, VisitStep
<1> QED BY <1>4, <1>5

LEMMA StoreStep ==
    ASSUME ForwardConstants, TaintInv, VisitAs("store", Store)
    PROVE  TaintInv'
<1>1. InBody /\ Ins.op = "store" /\ SetTop(Advance(Store(Top, Ins))) /\ RunFrame
  BY DEF VisitAs
<1>2. /\ Top \in FrameRecs /\ Ins = code[Top.fn][Top.at] /\ Ins.into \in Nat
      /\ Tainted(Ins.uses[1]) <=> CarriesIn(Top.fn, Top.tainted, Ins.uses[1])
  BY <1>1, InsFacts, TopFacts DEF TaintInv
<1>3. PICK X, reads, carries : /\ X = Store(Top, Ins) /\ reads = Reads(Ins.uses[1], Top.tainted)
                               /\ carries = Tainted(Ins.uses[1])
  OBVIOUS
<1>4. reads => CarriesIn(Top.fn, Top.tainted, Ins.uses[1])
  BY <1>3 DEF CarriesIn, Carries
<1>5. CASE reads /\ Ins.into = 0
  <2>0. {0} \in SUBSET Nat
    OBVIOUS
  <2>1. X = Taint(Top, {0})
    BY <1>3, <1>5 DEF Store
  <2>2. /\ X \in FrameRecs /\ X.tainted = Top.tainted \union {0}
        /\ ~X.changed => ~Top.changed /\ {0} \subseteq Top.tainted
        /\ X.fn = Top.fn /\ X.given = Top.given /\ X.at = Top.at /\ X.done = Top.done
        /\ X.returns = Top.returns /\ X.out = Top.out /\ X.sinks = Top.sinks
        /\ X.leaves = Top.leaves /\ X.noModel = Top.noModel /\ X.calling = Top.calling
        /\ X.wrote = Top.wrote
    BY <1>2, <2>0, <2>1, TaintFacts
  <2>3. ~X.changed => Heeds(Certified, Top.fn, Top.tainted, X.returns, Top.at)
    BY <1>1, <1>2, <1>3, <1>5, <2>2 DEF Heeds, ReadsIn
  <2>4. Clean(X) => Clean(Top)
    BY <2>2 DEF Clean
  <2> QED BY <1>1, <1>3, <2>2, <2>3, <2>4, VisitStep
<1>6. CASE reads /\ Ins.into # 0
  <2>0. PICK leaf \in Leaves : leaf = "coarse_store"
    BY DEF Leaves
  <2>1. PICK Y : Y = Disclose(Top, leaf)
    OBVIOUS
  <2>2. Y \in FrameRecs /\ Y.fn = Top.fn /\ Y.given = Top.given /\ ~Clean(Y)
    BY <1>2, <2>1, DiscloseFacts
  <2>3. X = BubbleOut(Y, {Ins.into}) /\ {Ins.into} \in SUBSET Nat
    BY <1>2, <1>3, <1>6, <2>0, <2>1 DEF Store
  <2>4. /\ X \in FrameRecs /\ X.fn = Y.fn /\ X.given = Y.given /\ X.sinks = Y.sinks
        /\ X.leaves = Y.leaves /\ X.noModel = Y.noModel
    BY <2>2, <2>3, BubbleOutFacts
  <2>5. X \in FrameRecs /\ X.fn = Top.fn /\ X.given = Top.given /\ ~Clean(X)
    BY <2>2, <2>4 DEF Clean
  <2> QED BY <1>1, <1>3, <2>5, VisitStep
<1>7. CASE ~reads /\ carries
  <2>0. PICK leaf \in Leaves : leaf = "pointer_escape"
    BY DEF Leaves
  <2>1. X = Disclose(Top, leaf)
    BY <1>3, <1>7, <2>0 DEF Store
  <2>2. X \in FrameRecs /\ X.fn = Top.fn /\ X.given = Top.given /\ ~Clean(X)
    BY <1>2, <2>1, DiscloseFacts
  <2> QED BY <1>1, <1>3, <2>2, VisitStep
<1>8. CASE ~reads /\ ~carries
  <2>1. X = Top
    BY <1>3, <1>8 DEF Store
  <2>2. Heeds(Certified, Top.fn, Top.tainted, X.returns, Top.at)
    BY <1>1, <1>2, <1>3, <1>8 DEF Heeds
  <2> QED BY <1>1, <1>2, <1>3, <2>1, <2>2, VisitStep
<1> QED BY <1>5, <1>6, <1>7, <1>8

LEMMA SinkStep ==
    ASSUME ForwardConstants, TaintInv, VisitAs("sink", Sink)
    PROVE  TaintInv'
<1>1. InBody /\ Ins.op = "sink" /\ SetTop(Advance(Sink(Top, Ins))) /\ RunFrame
  BY DEF VisitAs
<1>2. /\ Top \in FrameRecs /\ Ins = code[Top.fn][Top.at] /\ Top.fn \in Functions /\ Top.at \in Nat
      /\ Tainted(Ins.uses[1]) <=> CarriesIn(Top.fn, Top.tainted, Ins.uses[1])
  BY <1>1, InsFacts, TopFacts DEF TaintInv
<1>3. PICK X : X = Sink(Top, Ins)
  OBVIOUS
<1>4. CASE Tainted(Ins.uses[1])
  <2>0. PICK site \in Functions \X Nat : site = <<Top.fn, Top.at>>
    BY <1>2
  <2>1. PICK sinks : sinks = Top.sinks \union {site}
    OBVIOUS
  <2>2. sinks \in SUBSET (Functions \X Nat) /\ sinks # {}
    BY <1>2, <2>1 DEF FrameRecs
  <2>3. X = [Top EXCEPT !.sinks = sinks]
    BY <1>3, <1>4, <2>0, <2>1 DEF Sink
  <2>4. X \in FrameRecs /\ X.fn = Top.fn /\ X.given = Top.given /\ ~Clean(X)
    BY <1>2, <2>2, <2>3 DEF FrameRecs, Clean
  <2> QED BY <1>1, <1>3, <2>4, VisitStep
<1>5. CASE ~Tainted(Ins.uses[1])
  <2>1. X = Top
    BY <1>3, <1>5 DEF Sink
  <2>2. Heeds(Certified, Top.fn, Top.tainted, X.returns, Top.at)
    BY <1>1, <1>2, <1>5 DEF Heeds
  <2> QED BY <1>1, <1>2, <1>3, <2>1, <2>2, VisitStep
<1> QED BY <1>4, <1>5

LEMMA ReturnStep ==
    ASSUME ForwardConstants, TaintInv, VisitAs("return", Return)
    PROVE  TaintInv'
<1>1. InBody /\ Ins.op = "return" /\ SetTop(Advance(Return(Top, Ins))) /\ RunFrame
  BY DEF VisitAs
<1>2. /\ Top \in FrameRecs /\ Ins = code[Top.fn][Top.at]
      /\ Tainted(Ins.uses[1]) <=> CarriesIn(Top.fn, Top.tainted, Ins.uses[1])
  BY <1>1, InsFacts, TopFacts DEF TaintInv
<1>3. PICK X : X = Return(Top, Ins)
  OBVIOUS
<1>4. PICK returns : returns = (Top.returns \/ Tainted(Ins.uses[1]))
  OBVIOUS
<1>5. returns \in BOOLEAN /\ (Top.returns => returns) /\ (Tainted(Ins.uses[1]) => returns)
  BY <1>4
<1>6. X = [Top EXCEPT !.returns = returns]
  BY <1>3, <1>4 DEF Return
<1>7. /\ X \in FrameRecs /\ X.tainted = Top.tainted /\ X.changed = Top.changed
      /\ X.fn = Top.fn /\ X.given = Top.given /\ X.at = Top.at /\ X.done = Top.done
      /\ X.returns = returns /\ X.out = Top.out /\ X.sinks = Top.sinks
      /\ X.leaves = Top.leaves /\ X.noModel = Top.noModel /\ X.calling = Top.calling
      /\ X.wrote = Top.wrote
  BY <1>2, <1>5, <1>6 DEF FrameRecs
<1>8. Heeds(Certified, Top.fn, Top.tainted, X.returns, Top.at)
  BY <1>1, <1>2, <1>5, <1>7 DEF Heeds
<1>9. Clean(X) => Clean(Top)
  BY <1>7 DEF Clean
<1> QED BY <1>1, <1>3, <1>5, <1>7, <1>8, <1>9, VisitStep

LEMMA UnliftedStep ==
    ASSUME ForwardConstants, TaintInv, VisitAs("unlifted", Unlifted)
    PROVE  TaintInv'
<1>1. InBody /\ Ins.op = "unlifted" /\ SetTop(Advance(Unlifted(Top, Ins))) /\ RunFrame
  BY DEF VisitAs
<1>2. Top \in FrameRecs /\ Ins = code[Top.fn][Top.at]
  BY <1>1, InsFacts, TopFacts DEF TaintInv
<1>3. PICK X : X = Unlifted(Top, Ins)
  OBVIOUS
<1>4. CASE Reads(Ins.uses[1], Top.tainted)
  <2>0. PICK leaf \in Leaves : leaf = "unlifted"
    BY DEF Leaves
  <2>1. X = Disclose(Top, leaf)
    BY <1>3, <1>4, <2>0 DEF Unlifted
  <2>2. X \in FrameRecs /\ X.fn = Top.fn /\ X.given = Top.given /\ ~Clean(X)
    BY <1>2, <2>1, DiscloseFacts
  <2> QED BY <1>1, <1>3, <2>2, VisitStep
<1>5. CASE ~Reads(Ins.uses[1], Top.tainted)
  <2>1. X = Top
    BY <1>3, <1>5 DEF Unlifted
  <2>2. Heeds(Certified, Top.fn, Top.tainted, X.returns, Top.at)
    BY <1>1, <1>2, <1>5 DEF Heeds, ReadsIn
  <2> QED BY <1>1, <1>2, <1>3, <2>1, <2>2, VisitStep
<1> QED BY <1>4, <1>5

LEMMA SourceStep ==
    ASSUME ForwardConstants, TaintInv, VisitAs("source", Unchanged)
    PROVE  TaintInv'
<1>1. InBody /\ Ins.op = "source" /\ SetTop(Advance(Unchanged(Top, Ins))) /\ RunFrame
  BY DEF VisitAs
<1>2. Top \in FrameRecs /\ Ins = code[Top.fn][Top.at]
  BY <1>1, InsFacts, TopFacts DEF TaintInv
<1>3. PICK X : X = Unchanged(Top, Ins)
  OBVIOUS
<1>4. X = Top
  BY <1>3 DEF Unchanged
<1>5. Heeds(Certified, Top.fn, Top.tainted, X.returns, Top.at)
  BY <1>1, <1>2 DEF Heeds
<1> QED BY <1>1, <1>2, <1>3, <1>4, <1>5, VisitStep

LEMMA SkipStep ==
    ASSUME ForwardConstants, TaintInv, SkipCall
    PROVE  TaintInv'
<1>1. /\ InBody /\ Ins.op = "call" /\ ~Top.calling /\ RunFrame
      /\ TaintedArgs = {} \/ CallKey \in Top.done
  BY DEF SkipCall, AtCall
<1>2. PICK X : X = Top
  OBVIOUS
<1>3. SetTop(Advance(X))
  BY <1>2 DEF SkipCall
<1>4. /\ stack # << >> /\ Top \in FrameRecs /\ Ins = code[Top.fn][Top.at] /\ Top.at \in Nat
      /\ TaintedArgs = HandedAt(Top.fn, Top.tainted, Top.at) /\ TaintedArgs \in SUBSET Nat
  BY <1>1, InsFacts, TopFacts DEF TaintInv
<1>5. ASSUME Sound PROVE Heeds(Certified, Top.fn, Top.tainted, X.returns, Top.at)
  <2>1. Tracked(Top)
    BY <1>4, <1>5, SoundTop DEF TaintInv
  <2>2. TaintedArgs # {} => Passed(Certified, Top.fn, Top.tainted, Top.at, TaintedArgs)
    BY <1>1, <1>4, <2>1 DEF Tracked, CallKey
  <2> QED BY <1>1, <1>4, <2>2 DEF Heeds
<1> QED BY <1>1, <1>2, <1>3, <1>4, <1>5, VisitStep

LEMMA UnresolvedStep ==
    ASSUME ForwardConstants, TaintInv, UnresolvedCall
    PROVE  TaintInv'
<1>1. /\ InBody /\ Ins.op = "call" /\ ~Top.calling /\ RunFrame
      /\ SetTop(Advance([Top EXCEPT !.done = @ \union {CallKey},
                                    !.leaves = @ \union {"indirect_unresolved"}]))
  BY DEF UnresolvedCall, AtCall
<1>2. Top \in FrameRecs /\ Top.at \in Nat /\ TaintedArgs \in SUBSET Nat
  BY <1>1, InsFacts, TopFacts DEF TaintInv
<1>3. PICK key \in Nat \X SUBSET Nat : key = CallKey
  BY <1>2 DEF CallKey
<1>4. PICK leaf \in Leaves : leaf = "indirect_unresolved"
  BY DEF Leaves
<1>5. PICK done, leaves : done = Top.done \union {key} /\ leaves = Top.leaves \union {leaf}
  OBVIOUS
<1>6. done \in SUBSET (Nat \X SUBSET Nat) /\ leaves \in SUBSET Leaves /\ leaves # {}
  BY <1>2, <1>5 DEF FrameRecs
<1>7. PICK X : X = [Top EXCEPT !.done = done, !.leaves = leaves]
  OBVIOUS
<1>8. X \in FrameRecs /\ X.fn = Top.fn /\ X.given = Top.given /\ ~Clean(X)
  BY <1>2, <1>6, <1>7 DEF FrameRecs, Clean
<1>9. SetTop(Advance(X))
  BY <1>1, <1>3, <1>4, <1>5, <1>7
<1> QED BY <1>1, <1>8, <1>9, VisitStep

LEMMA BeginStep ==
    ASSUME ForwardConstants, TaintInv, BeginCall
    PROVE  TaintInv'
<1>1. /\ InBody /\ Ins.op = "call" /\ ~Top.calling /\ RunFrame /\ TaintedArgs # {} /\ Ins.targets # {}
      /\ SetTop([Top EXCEPT !.done = @ \union {CallKey}, !.calling = TRUE,
                            !.targets = Ins.targets, !.handed = TaintedArgs])
  BY DEF BeginCall, AtCall
<1>2. /\ stack # << >> /\ Top \in FrameRecs /\ Top.at \in 1..Length[Top.fn]
      /\ Ins = code[Top.fn][Top.at] /\ Ins.targets \subseteq Functions \union {"external"}
      /\ TaintedArgs = HandedAt(Top.fn, Top.tainted, Top.at) /\ TaintedArgs \in SUBSET Nat
      /\ Top.at \in Nat
  BY <1>1, InsFacts, TopFacts DEF TaintInv
<1>3. PICK key \in Nat \X SUBSET Nat : key = CallKey
  BY <1>2 DEF CallKey
<1>4. PICK done, targets, handed : /\ done = Top.done \union {key} /\ targets = Ins.targets
                                   /\ handed = TaintedArgs
  OBVIOUS
<1>5. /\ done \in SUBSET (Nat \X SUBSET Nat) /\ handed \in SUBSET Nat
      /\ targets \in SUBSET (Functions \union {"external"})
  BY <1>2, <1>4 DEF FrameRecs
<1>6. PICK X : X = [Top EXCEPT !.done = done, !.calling = TRUE, !.targets = targets, !.handed = handed]
  OBVIOUS
<1>7. /\ X \in FrameRecs /\ X.fn = Top.fn /\ X.given = Top.given /\ X.at = Top.at
      /\ X.changed = Top.changed /\ X.tainted = Top.tainted /\ X.returns = Top.returns
      /\ X.out = Top.out /\ X.wrote = Top.wrote /\ X.sinks = Top.sinks /\ X.leaves = Top.leaves
      /\ X.noModel = Top.noModel
      /\ X.done = done /\ X.calling /\ X.targets = targets /\ X.handed = handed
  BY <1>2, <1>5, <1>6 DEF FrameRecs
<1>8. SetTop(X)
  BY <1>1, <1>3, <1>4, <1>6
<1>9. ASSUME Sound PROVE Tracked(X)
  <2>1. Tracked(Top)
    BY <1>2, <1>9, SoundTop DEF TaintInv
  <2>2. X.given \subseteq X.tainted /\ X.out = {} /\ X.wrote = {}
    BY <1>7, <2>1 DEF Tracked
  <2>3. ~X.changed => \A k \in 1..Length[X.fn] : k < X.at =>
           Heeds(Certified, X.fn, X.tainted, X.returns, k)
    BY <1>7, <2>1 DEF Tracked
  <2>4. ASSUME NEW k \in Nat, NEW args \in SUBSET Nat, <<k, args>> \in X.done
        PROVE  (X.calling /\ k = X.at /\ args = X.handed) \/ Passed(Certified, X.fn, X.tainted, k, args)
    <3>1. CASE <<k, args>> = CallKey
      BY <1>4, <1>7, <3>1 DEF CallKey
    <3>2. CASE <<k, args>> # CallKey
      <4>1. <<k, args>> \in Top.done
        BY <1>3, <1>4, <1>7, <2>4, <3>2
      <4>2. Passed(Certified, Top.fn, Top.tainted, k, args)
        BY <1>1, <2>1, <4>1 DEF Tracked
      <4> QED BY <1>7, <4>2
    <3> QED BY <3>1, <3>2
  <2>5. InFlight(X)
    BY <1>1, <1>2, <1>4, <1>7 DEF InFlight
  <2> QED BY <2>2, <2>3, <2>4, <2>5 DEF Tracked
<1>10. Clean(X) => Clean(Top)
  BY <1>7 DEF Clean
<1>11. UNCHANGED <<code, setting, sources, pending, summaries, result, causes, incomplete>>
  BY <1>1 DEF RunFrame, forwardProgram
<1> QED BY <1>2, <1>7, <1>8, <1>9, <1>10, <1>11, TopStep

-----------------------------------------------------------------------------
(***************************************************************************)
(* The targets of a call.                                                  *)
(***************************************************************************)

LEMMA MergedFacts ==
    ASSUME NEW F \in FrameRecs, NEW target, NEW sub \in SummaryRecs, NEW fr, fr = Merged(F, target, sub)
    PROVE  /\ fr \in FrameRecs /\ fr.targets = F.targets \ {target}
           /\ fr.fn = F.fn /\ fr.given = F.given /\ fr.pass = F.pass /\ fr.at = F.at
           /\ fr.changed = F.changed /\ fr.tainted = F.tainted /\ fr.done = F.done
           /\ fr.returns = F.returns /\ fr.out = F.out /\ fr.calling = F.calling
           /\ fr.handed = F.handed
           /\ Clean(fr) => Clean(F) /\ Clean(sub)
           /\ fr.wrote = F.wrote \union sub.out
           /\ F.retTainted \/ sub.returns => fr.retTainted
<1>1. PICK targets, sinks, leaves, wrote :
          /\ targets = F.targets \ {target} /\ sinks = F.sinks \union sub.sinks
          /\ leaves = F.leaves \union sub.leaves /\ wrote = F.wrote \union sub.out
  OBVIOUS
<1>2. PICK noModel, retTainted :
          noModel = (F.noModel \/ sub.noModel) /\ retTainted = (F.retTainted \/ sub.returns)
  OBVIOUS
<1>3. /\ targets \in SUBSET (Functions \union {"external"}) /\ sinks \in SUBSET (Functions \X Nat)
      /\ leaves \in SUBSET Leaves /\ wrote \in SUBSET Nat
      /\ (sinks = {} => F.sinks = {} /\ sub.sinks = {})
      /\ (leaves = {} => F.leaves = {} /\ sub.leaves = {})
  BY <1>1 DEF FrameRecs, SummaryRecs
<1>4. noModel \in BOOLEAN /\ retTainted \in BOOLEAN
  BY <1>2
<1>5. PICK G : G = [F EXCEPT !.targets = targets, !.sinks = sinks, !.leaves = leaves]
  OBVIOUS
<1>6. /\ G \in FrameRecs /\ G.targets = targets /\ G.sinks = sinks /\ G.leaves = leaves
      /\ G.fn = F.fn /\ G.given = F.given /\ G.pass = F.pass /\ G.at = F.at
      /\ G.changed = F.changed /\ G.tainted = F.tainted /\ G.done = F.done
      /\ G.returns = F.returns /\ G.out = F.out /\ G.calling = F.calling
      /\ G.handed = F.handed /\ G.noModel = F.noModel /\ G.retTainted = F.retTainted
      /\ G.wrote = F.wrote
  BY <1>3, <1>5 DEF FrameRecs
<1>7. PICK H : H = [G EXCEPT !.noModel = noModel, !.wrote = wrote]
  OBVIOUS
<1>71. /\ H \in FrameRecs /\ H.targets = targets /\ H.sinks = sinks /\ H.leaves = leaves
      /\ H.fn = F.fn /\ H.given = F.given /\ H.pass = F.pass /\ H.at = F.at
      /\ H.changed = F.changed /\ H.tainted = F.tainted /\ H.done = F.done
      /\ H.returns = F.returns /\ H.out = F.out /\ H.calling = F.calling
      /\ H.handed = F.handed /\ H.noModel = noModel /\ H.retTainted = F.retTainted
      /\ H.wrote = wrote
  BY <1>3, <1>4, <1>6, <1>7 DEF FrameRecs
<1>72. fr = [H EXCEPT !.retTainted = retTainted]
  BY <1>1, <1>2, <1>5, <1>6, <1>7 DEF Merged
<1>8. /\ fr \in FrameRecs /\ fr.targets = targets /\ fr.sinks = sinks /\ fr.leaves = leaves
      /\ fr.fn = F.fn /\ fr.given = F.given /\ fr.pass = F.pass /\ fr.at = F.at
      /\ fr.changed = F.changed /\ fr.tainted = F.tainted /\ fr.done = F.done
      /\ fr.returns = F.returns /\ fr.out = F.out /\ fr.calling = F.calling
      /\ fr.handed = F.handed /\ fr.noModel = noModel /\ fr.retTainted = retTainted
      /\ fr.wrote = wrote
  BY <1>4, <1>71, <1>72 DEF FrameRecs
<1>9. Clean(fr) => Clean(F) /\ Clean(sub)
  BY <1>2, <1>3, <1>8 DEF Clean
<1>10. F.retTainted \/ sub.returns => fr.retTainted
  BY <1>2, <1>8
<1>11. fr.targets = F.targets \ {target} /\ fr.wrote = F.wrote \union sub.out
  BY <1>1, <1>8
<1> QED BY <1>8, <1>9, <1>10, <1>11

\* A frame with a target that was followed to a summary that is confirmed.
LEMMA TargetStays ==
    ASSUME NEW F \in FrameRecs, NEW target, NEW sub \in SummaryRecs, NEW fr, fr = Merged(F, target, sub),
           Tracked(F), F.calling = TRUE, sub.out \subseteq {},
           Confirmed(target, Taken(target, F.handed), sub.returns)
    PROVE  Tracked(fr)
<1>1. /\ fr \in FrameRecs /\ fr.targets = F.targets \ {target}
      /\ fr.fn = F.fn /\ fr.given = F.given /\ fr.at = F.at
      /\ fr.changed = F.changed /\ fr.tainted = F.tainted /\ fr.done = F.done
      /\ fr.returns = F.returns /\ fr.out = F.out /\ fr.calling = F.calling
      /\ fr.handed = F.handed /\ fr.wrote = F.wrote \union sub.out
  BY MergedFacts
<1>0. F.retTainted \/ sub.returns => fr.retTainted
  BY MergedFacts
<1>2. InFlight(F)
  BY DEF Tracked
<1>3. \A g : Confirmed(g, Taken(g, F.handed), F.retTainted)
                 => Confirmed(g, Taken(g, fr.handed), fr.retTainted)
  BY <1>0, <1>1 DEF Confirmed
<1>4. Confirmed(target, Taken(target, fr.handed), fr.retTainted)
  BY <1>0, <1>1 DEF Confirmed
<1>5. InFlight(fr)
  BY <1>1, <1>2, <1>3, <1>4 DEF InFlight
<1> QED BY <1>1, <1>5 DEF Tracked

LEMMA OpaqueStep ==
    ASSUME ForwardConstants, TaintInv, InBody, NEW target, OpaqueTarget(target)
    PROVE  TaintInv'
<1>1. stack # << >> /\ Top \in FrameRecs
  BY TopFacts DEF TaintInv, InBody
<1>2. PICK sub : sub = IF setting.unknown = "stop" THEN Summary(FALSE, {}, {}, {"unmodeled"}, FALSE)
                                                   ELSE Summary(TRUE, {}, {}, {}, TRUE)
  OBVIOUS
<1>3. sub \in SummaryRecs /\ ~Clean(sub)
  BY <1>2 DEF SummaryRecs, Summary, Clean, Leaves
<1>4. PICK fr : fr = Merged(Top, target, sub)
  OBVIOUS
<1>5. /\ fr \in FrameRecs /\ fr.fn = Top.fn /\ fr.given = Top.given
      /\ Clean(fr) => Clean(Top) /\ Clean(sub)
  BY <1>1, <1>3, <1>4, MergedFacts
<1>6. SetTop(fr)
  BY <1>2, <1>4 DEF OpaqueTarget
<1>7. /\ UNCHANGED <<code, setting, sources, pending, summaries, result, causes>> /\ incomplete \subseteq incomplete'
  BY DEF OpaqueTarget, forwardProgram
<1> QED BY <1>1, <1>3, <1>5, <1>6, <1>7, TopStep

LEMMA NotFollowedStep ==
    ASSUME ForwardConstants, TaintInv, InBody, NEW target, NotFollowed(target),
           UNCHANGED <<code, setting, sources, pending, summaries, result, incomplete>>,
           causes \subseteq causes'
    PROVE  TaintInv'
<1>1. stack # << >> /\ Top \in FrameRecs
  BY TopFacts DEF TaintInv, InBody
<1>2. PICK sub : sub = Summary(TRUE, {}, {}, {"unmodeled"}, FALSE)
  OBVIOUS
<1>3. sub \in SummaryRecs /\ ~Clean(sub)
  BY <1>2 DEF SummaryRecs, Summary, Clean, Leaves
<1>4. PICK fr : fr = Merged(Top, target, sub)
  OBVIOUS
<1>5. /\ fr \in FrameRecs /\ fr.fn = Top.fn /\ fr.given = Top.given
      /\ Clean(fr) => Clean(Top) /\ Clean(sub)
  BY <1>1, <1>3, <1>4, MergedFacts
<1>6. SetTop(fr)
  BY <1>2, <1>4 DEF NotFollowed
<1> QED BY <1>1, <1>3, <1>5, <1>6, TopStep

LEMMA CachedStep ==
    ASSUME ForwardConstants, TaintInv, InBody, Top.calling, NEW target, Cached(target)
    PROVE  TaintInv'
<1>1. stack # << >> /\ Top \in FrameRecs /\ ForwardTyped
  BY TopFacts DEF TaintInv, InBody
<1>2. PICK sub \in summaries[Key(target)] : SetTop(Merged(Top, target, sub))
  BY DEF Cached
<1>3. Key(target) \in DOMAIN summaries /\ RunFrame
  BY DEF Cached
<1>4. sub \in SummaryRecs
  BY <1>1, <1>2, <1>3 DEF ForwardTyped
<1>5. PICK fr : fr = Merged(Top, target, sub)
  OBVIOUS
<1>6. /\ fr \in FrameRecs /\ fr.fn = Top.fn /\ fr.given = Top.given /\ (Clean(fr) => Clean(Top))
  BY <1>1, <1>4, <1>5, MergedFacts
<1>7. ASSUME Sound PROVE Tracked(fr)
  <2>1. Tracked(Top)
    BY <1>1, <1>7, SoundTop
  <2>2. sub.out = {} /\ Confirmed(Key(target)[1], Key(target)[2], sub.returns)
    BY <1>2, <1>3, <1>7 DEF Sound
  <2>3. Confirmed(target, Taken(target, Top.handed), sub.returns)
    BY <2>2 DEF Key, Given
  <2>4. Top.calling = TRUE
    BY <1>1 DEF FrameRecs
  <2> QED BY <1>1, <1>4, <1>5, <2>1, <2>2, <2>3, <2>4, TargetStays
<1>8. UNCHANGED <<code, setting, sources, pending, summaries, result, causes, incomplete>>
  BY <1>3 DEF RunFrame, forwardProgram
<1>9. SetTop(fr)
  BY <1>2, <1>5
<1> QED BY <1>1, <1>6, <1>7, <1>8, <1>9, TopStep

LEMMA FrameFacts ==
    ASSUME ForwardConstants, NEW f \in Functions, NEW given \in SUBSET Nat, NEW G, G = Frame(f, given)
    PROVE  /\ G \in FrameRecs /\ G.fn = f /\ G.given = given /\ Clean(G)
           /\ Tracked(G) /\ Tracked(G)'
<1>1. G \in FrameRecs
  BY DEF Frame, FrameRecs
<1>2. /\ G.fn = f /\ G.given = given /\ G.leaves = {} /\ G.sinks = {} /\ G.noModel = FALSE
      /\ G.tainted = given /\ G.out = {} /\ G.wrote = {} /\ G.at = 1 /\ G.done = {}
      /\ G.calling = FALSE
  BY DEF Frame
<1>3. ~ \E k \in 1..Length[f] : k < 1
  BY DEF ForwardConstants
<1> QED BY <1>1, <1>2, <1>3 DEF Clean, Tracked

LEMMA DescendStep ==
    ASSUME ForwardConstants, TaintInv, InBody, Top.calling, NEW target \in Top.targets, Descend(target)
    PROVE  TaintInv'
<1>1. stack # << >> /\ Top \in FrameRecs /\ ForwardTyped /\ Len(stack) \in Nat \ {0}
      /\ Top = stack[Len(stack)] /\ target \in Functions
  BY TopFacts DEF TaintInv, InBody, Descend, MayDescend
<1>2. PICK handed \in SUBSET Nat : handed = Given(target) /\ handed = Taken(target, Top.handed)
  <2>1. Top.handed \in SUBSET Nat
    BY <1>1 DEF FrameRecs
  <2> QED BY <2>1 DEF Given, Taken
<1>3. PICK G : G = Frame(target, handed)
  OBVIOUS
<1>4. /\ G \in FrameRecs /\ G.fn = target /\ G.given = handed /\ Clean(G) /\ Tracked(G)'
  BY <1>1, <1>3, FrameFacts
<1>5. stack' = Append(stack, G) /\ stack \in Seq(FrameRecs)
  BY <1>1, <1>2, <1>3 DEF Descend, ForwardTyped
<1>6. /\ stack' \in Seq(FrameRecs) /\ Len(stack') = Len(stack) + 1 /\ stack' # << >>
      /\ stack'[Len(stack) + 1] = G
      /\ \A i \in 1..Len(stack) : stack'[i] = stack[i]
  BY <1>1, <1>4, <1>5, AppendProperties
<1>7. PICK key : key = <<target, handed>>
  OBVIOUS
<1>8. summaries' = [k \in DOMAIN summaries \union {key} |-> IF k = key THEN {} ELSE summaries[k]]
  BY <1>2, <1>7 DEF Descend, SetSummary, Key
<1>9. UNCHANGED <<setting, sources, pending, causes, incomplete, result>>
  BY DEF Descend
<1>10. /\ CodeTyped' /\ code' \in [Functions -> UNION {Bodies(f) \union {<< >>} : f \in Functions}]
       /\ code'[target] # << >>
       /\ \A f \in Functions : code[f] # << >> => code'[f] = code[f]
  <2>1. /\ CodeTyped /\ code \in [Functions -> UNION {Bodies(f) \union {<< >>} : f \in Functions}]
    BY <1>1 DEF ForwardTyped
  <2>2. CASE code[target] = << >>
    <3>1. PICK body \in Bodies(target) : code' = [code EXCEPT ![target] = body]
      BY <2>2 DEF Descend
    <3>2. body # << >>
      <4>1. DOMAIN body = 1..Length[target] /\ Length[target] \in Nat \ {0}
        BY <1>1 DEF Bodies, ForwardConstants
      <4>2. 1 \in DOMAIN body
        BY <4>1
      <4> QED BY <4>2
    <3>3. code'[target] = body /\ \A f \in Functions : f # target => code'[f] = code[f]
      BY <1>1, <2>1, <3>1
    <3>4. CodeTyped'
      BY <2>1, <3>3 DEF CodeTyped, Bodies
    <3>5. code' \in [Functions -> UNION {Bodies(f) \union {<< >>} : f \in Functions}]
      BY <1>1, <2>1, <3>1
    <3> QED BY <2>2, <3>2, <3>3, <3>4, <3>5
  <2>3. CASE code[target] # << >>
    <3>1. code' = code
      BY <2>3 DEF Descend
    <3> QED BY <2>1, <2>3, <3>1 DEF CodeTyped, Bodies
  <2> QED BY <2>2, <2>3
<1>11. ASSUME NEW i \in 1..Len(stack') PROVE i \in 1..Len(stack) \/ i = Len(stack) + 1
  BY <1>1, <1>6
<1>12. ForwardTyped'
  <2>1. \A i \in 1..Len(stack) : code[stack[i].fn] # << >> /\ stack[i].fn \in Functions
    <3>1. \A i \in 1..Len(stack) : stack[i] \in FrameRecs
      BY <1>5
    <3>2. \A F \in FrameRecs : F.fn \in Functions
      BY DEF FrameRecs
    <3> QED BY <1>1, <3>1, <3>2 DEF ForwardTyped
  <2>2. \A i \in 1..Len(stack') : code'[stack'[i].fn] # << >>
    BY <1>4, <1>6, <1>10, <1>11, <2>1
  <2>3. \A k \in DOMAIN summaries' : summaries'[k] \subseteq SummaryRecs
    BY <1>1, <1>8 DEF ForwardTyped
  <2>4. code'["main"] # << >>
    BY <1>1, <1>10 DEF ForwardTyped, ForwardConstants
  <2> QED BY <1>1, <1>6, <1>9, <1>10, <2>2, <2>3, <2>4 DEF ForwardTyped, Bodies
<1>13. Spoiled => Spoiled'
  <2>1. ASSUME NEW i \in 1..Len(stack), ~Clean(stack[i]) PROVE Spoiled'
    <3>1. i \in 1..Len(stack') /\ stack'[i] = stack[i]
      BY <1>1, <1>6
    <3> QED BY <2>1, <3>1 DEF Spoiled
  <2>2. ASSUME causes # {} \/ incomplete # {} \/ ~Clean(result) PROVE Spoiled'
    BY <1>9, <2>2 DEF Spoiled
  <2> QED BY <2>1, <2>2 DEF Spoiled
<1>14. ASSUME Sound PROVE Sound'
  <2>1. ASSUME NEW i \in 1..Len(stack), NEW F, F = stack[i] PROVE Tracked(F)'
    <3>1. F \in FrameRecs /\ code[F.fn] # << >> /\ Tracked(F)
      BY <1>1, <1>5, <1>14, <2>1 DEF ForwardTyped, Sound
    <3> QED BY <1>9, <1>10, <3>1, TrackedStays
  <2>2. ASSUME NEW i \in 1..Len(stack') PROVE Tracked(stack[i])'
    <3>1. PICK F : F = stack'[i]
      OBVIOUS
    <3>2. Tracked(F)'
      BY <1>4, <1>6, <1>11, <2>1, <3>1
    <3> QED BY <3>1, <3>2 DEF Tracked, InFlight
  <2>3. ASSUME NEW i \in 1..Len(stack'), i < Len(stack')
        PROVE  /\ stack'[i].calling /\ stack'[i + 1].fn \in stack'[i].targets
               /\ stack'[i + 1].given = Taken(stack'[i + 1].fn, stack'[i].handed)
    <3>1. i \in 1..Len(stack) /\ stack'[i] = stack[i]
      BY <1>1, <1>6, <2>3
    <3>2. CASE i = Len(stack)
      BY <1>1, <1>2, <1>4, <1>6, <3>1, <3>2
    <3>3. CASE i # Len(stack)
      <4>1. i < Len(stack) /\ i + 1 \in 1..Len(stack)
        BY <1>1, <3>1, <3>3
      <4>2. stack'[i + 1] = stack[i + 1]
        BY <1>6, <4>1
      <4> QED BY <1>14, <3>1, <4>1, <4>2 DEF Sound
    <3> QED BY <3>2, <3>3
  <2>4. ASSUME NEW k \in DOMAIN summaries', NEW sub \in summaries'[k]
        PROVE  Clean(sub) /\ sub.out = {} /\ Confirmed(k[1], k[2], sub.returns)'
    <3>1. k \in DOMAIN summaries /\ sub \in summaries[k]
      BY <1>8, <2>4
    <3>2. Clean(sub) /\ sub.out = {} /\ Confirmed(k[1], k[2], sub.returns)
      BY <1>14, <3>1 DEF Sound
    <3> QED BY <1>9, <1>10, <3>2, ShownStays
  <2>5. stack'[1] = stack[1]
    BY <1>1, <1>6
  <2>6. ASSUME NEW v \in sources'
        PROVE  \/ v \in pending' \/ (stack' # << >> /\ v \in stack'[1].given)
               \/ Shown(v)'
    <3>1. \/ v \in pending \/ (stack # << >> /\ v \in stack[1].given) \/ Shown(v)
      BY <1>9, <1>14 DEF Sound
    <3>2. Shown(v) => Shown(v)'
      BY <1>9, <1>10, ShownStays
    <3> QED BY <1>6, <1>9, <2>5, <3>1, <3>2
  <2>7. stack'[1].fn = "main"
    BY <1>1, <1>14, <2>5 DEF Sound
  <2> QED BY <1>6, <2>2, <2>3, <2>4, <2>6, <2>7 DEF Sound, Clean
<1> QED BY <1>12, <1>13, <1>14 DEF TaintInv

LEMMA CallTargetStep ==
    ASSUME ForwardConstants, TaintInv, CallTarget
    PROVE  TaintInv'
<1>1. InBody /\ Top.calling
  BY DEF CallTarget
<1>2. PICK target \in Top.targets :
          \/ OpaqueTarget(target) \/ Unmapped(target) \/ TooDeep(target)
          \/ Cycle(target) \/ Cached(target) \/ Descend(target)
  BY DEF CallTarget
<1>3. CASE TooDeep(target)
  <2>1. /\ NotFollowed(target) /\ causes \subseteq causes'
        /\ UNCHANGED <<code, setting, sources, pending, summaries, result, incomplete>>
    BY <1>3 DEF TooDeep, forwardProgram
  <2> QED BY <1>1, <2>1, NotFollowedStep
<1>5. CASE Unmapped(target)
  <2>1. /\ NotFollowed(target) /\ causes \subseteq causes'
        /\ UNCHANGED <<code, setting, sources, pending, summaries, result, incomplete>>
    BY <1>5 DEF Unmapped, RunFrame, forwardProgram
  <2> QED BY <1>1, <2>1, NotFollowedStep
<1>4. CASE Cycle(target)
  <2>1. /\ NotFollowed(target) /\ causes \subseteq causes'
        /\ UNCHANGED <<code, setting, sources, pending, summaries, result, incomplete>>
    BY <1>4 DEF Cycle, RunFrame, forwardProgram
  <2> QED BY <1>1, <2>1, NotFollowedStep
<1> QED BY <1>1, <1>2, <1>3, <1>4, <1>5, OpaqueStep, CachedStep, DescendStep

\* What the call wrote and returned reaches the frame: nothing was written.
LEMMA EndCallStep ==
    ASSUME ForwardConstants, TaintInv, EndCall
    PROVE  TaintInv'
<1>1. PICK roots, returned :
          /\ roots = UNION {Root(Top.fn, Body, Ins.uses[i], setting.hops) : i \in Top.wrote}
          /\ returned = {v \in {Defined(Top.fn, Top.at)} : Top.retTainted}
  OBVIOUS
<1>2. PICK told \in DropLeaves :
      /\ InBody /\ Top.calling /\ Top.targets = {} /\ RunFrame
      /\ SetTop([Advance(BubbleOut(Taint(Top, returned \union (roots \intersect {0})),
                                   roots \intersect Params(Top.fn)))
                    EXCEPT !.calling = FALSE, !.handed = {}, !.retTainted = FALSE, !.wrote = {},
                           !.leaves = @ \union told])
  BY <1>1 DEF EndCall
<1>3. /\ stack # << >> /\ Top \in FrameRecs /\ ForwardTyped /\ NParams[Top.fn] \in Nat
      /\ Length[Top.fn] \in Nat /\ Top.at \in Nat /\ Ins = code[Top.fn][Top.at]
      /\ Top.at \in 1..Length[Top.fn]
  BY <1>2, InsFacts, TopFacts DEF TaintInv, InBody
<1>4. PICK new, out : new = returned \union (roots \intersect {0}) /\ out = roots \intersect Params(Top.fn)
  OBVIOUS
<1>5. returned \in SUBSET Nat /\ new \in SUBSET Nat /\ out \in SUBSET Nat
  BY <1>1, <1>3, <1>4 DEF Defined, Params
<1>6. PICK A : A = Taint(Top, new)
  OBVIOUS
<1>71. PICK F \in FrameRecs : F = Top
  BY <1>3
<1>72. /\ A \in FrameRecs /\ A.tainted = F.tainted \union new
       /\ A.fn = F.fn /\ A.given = F.given /\ A.at = F.at
       /\ A.done = F.done /\ A.returns = F.returns /\ A.out = F.out
       /\ A.sinks = F.sinks /\ A.leaves = F.leaves /\ A.noModel = F.noModel
  BY <1>5, <1>6, <1>71, TaintFacts
<1>73. ~A.changed => ~F.changed /\ new \subseteq F.tainted
  BY <1>5, <1>6, <1>71, TaintFacts
<1>7. /\ A \in FrameRecs /\ A.tainted = Top.tainted \union new
      /\ ~A.changed => ~Top.changed /\ new \subseteq Top.tainted
      /\ A.fn = Top.fn /\ A.given = Top.given /\ A.at = Top.at
      /\ A.done = Top.done /\ A.returns = Top.returns /\ A.out = Top.out
      /\ A.sinks = Top.sinks /\ A.leaves = Top.leaves /\ A.noModel = Top.noModel
  BY <1>71, <1>72, <1>73
<1>8. PICK B : B = BubbleOut(A, out)
  OBVIOUS
<1>9. /\ B \in FrameRecs /\ B.out = A.out \union out
      /\ ~B.changed => ~A.changed
      /\ B.fn = A.fn /\ B.given = A.given /\ B.at = A.at
      /\ B.tainted = A.tainted /\ B.done = A.done /\ B.returns = A.returns
      /\ B.sinks = A.sinks /\ B.leaves = A.leaves /\ B.noModel = A.noModel
  BY <1>5, <1>7, <1>8, BubbleOutFacts
<1>10. PICK C : C = Advance(B)
  OBVIOUS
<1>11. /\ C \in FrameRecs /\ C.at = B.at + 1
       /\ C.fn = B.fn /\ C.given = B.given /\ C.changed = B.changed
       /\ C.tainted = B.tainted /\ C.done = B.done /\ C.returns = B.returns
       /\ C.out = B.out /\ C.sinks = B.sinks /\ C.leaves = B.leaves /\ C.noModel = B.noModel
  BY <1>9, <1>10, AdvanceFacts
<1>115. PICK leaves : leaves = C.leaves \union told
  OBVIOUS
<1>116. leaves \in SUBSET Leaves
  BY <1>11, <1>115 DEF FrameRecs, DropLeaves, Leaves
<1>12. PICK fr : fr = [C EXCEPT !.calling = FALSE, !.handed = {}, !.retTainted = FALSE, !.wrote = {},
                                !.leaves = leaves]
  OBVIOUS
<1>13. /\ fr \in FrameRecs /\ fr.calling = FALSE /\ fr.wrote = {}
       /\ fr.fn = C.fn /\ fr.given = C.given /\ fr.at = C.at /\ fr.changed = C.changed
       /\ fr.tainted = C.tainted /\ fr.done = C.done /\ fr.returns = C.returns
       /\ fr.out = C.out /\ fr.sinks = C.sinks /\ fr.leaves = leaves /\ fr.noModel = C.noModel
  BY <1>11, <1>116, <1>12 DEF FrameRecs
<1>14. SetTop(fr)
  BY <1>2, <1>4, <1>6, <1>8, <1>10, <1>115, <1>12
<1>15. /\ fr.fn = Top.fn /\ fr.given = Top.given /\ fr.at = Top.at + 1 /\ fr.done = Top.done
       /\ fr.tainted = Top.tainted \union new /\ fr.out = Top.out \union out
       /\ fr.sinks = Top.sinks /\ Top.leaves \subseteq fr.leaves /\ fr.noModel = Top.noModel
  BY <1>7, <1>9, <1>11, <1>115, <1>13
<1>16. fr.returns = Top.returns
  BY <1>7, <1>9, <1>11, <1>13
<1>17. ~fr.changed => ~Top.changed /\ new \subseteq Top.tainted
  BY <1>7, <1>9, <1>11, <1>13
<1>18. ASSUME Sound PROVE Tracked(fr)
  <2>1. /\ Tracked(Top) /\ Top.out = {} /\ Top.wrote = {} /\ Ins.op = "call"
    BY <1>2, <1>3, <1>18, SoundTop
  <2>2. InFlight(Top)
    BY <1>2, <2>1 DEF Tracked
  <2>3. out = {}
    BY <1>1, <1>4, <2>1
  <2>4. Top.handed = HandedAt(Top.fn, Top.tainted, Top.at) /\ Ins.targets # {}
    BY <1>3, <2>2 DEF InFlight
  <2>5. Passed(Certified, fr.fn, fr.tainted, Top.at, Top.handed)
    <3>1. \A g \in Ins.targets : Confirmed(g, Taken(g, Top.handed), Top.retTainted)
      BY <1>2, <1>3, <2>2 DEF InFlight
    <3>2. Top.retTainted => Defined(Top.fn, Top.at) \in fr.tainted
      BY <1>1, <1>4, <1>15
    <3> QED BY <1>3, <1>15, <2>4, <3>1, <3>2 DEF Passed, Confirmed
  <2>6. ASSUME NEW k \in Nat, NEW args \in SUBSET Nat, <<k, args>> \in fr.done
        PROVE  \/ Passed(Certified, Top.fn, Top.tainted, k, args)
               \/ Passed(Certified, fr.fn, fr.tainted, k, args)
    BY <1>15, <2>1, <2>5, <2>6 DEF Tracked
  <2>7. ~fr.changed => /\ ~Top.changed /\ fr.tainted = Top.tainted
                       /\ Heeds(Certified, fr.fn, fr.tainted, fr.returns, Top.at)
    <3> SUFFICES ASSUME ~fr.changed
                 PROVE  /\ ~Top.changed /\ fr.tainted = Top.tainted
                        /\ Heeds(Certified, fr.fn, fr.tainted, fr.returns, Top.at)
      OBVIOUS
    <3>1. ~Top.changed /\ fr.tainted = Top.tainted
      BY <1>15, <1>17
    <3> QED BY <1>3, <1>15, <2>1, <2>4, <2>5, <3>1 DEF Heeds
  <2>8. ~fr.calling /\ fr.out = {} /\ fr.wrote = {} /\ Top.tainted \subseteq fr.tainted
    BY <1>13, <1>15, <2>1, <2>3
  <2> QED BY <1>3, <1>13, <1>15, <1>16, <2>1, <2>6, <2>7, <2>8, AfterInstruction
<1>19. Clean(fr) => Clean(Top)
  BY <1>15 DEF Clean
<1>20. UNCHANGED <<code, setting, sources, pending, summaries, result, causes, incomplete>>
  BY <1>2 DEF RunFrame, forwardProgram
<1> QED BY <1>3, <1>13, <1>14, <1>15, <1>18, <1>19, <1>20, TopStep

-----------------------------------------------------------------------------
(***************************************************************************)
(* The end of a sweep.                                                     *)
(***************************************************************************)

LEMMA SweepStep ==
    ASSUME ForwardConstants, TaintInv, SweepAgain
    PROVE  TaintInv'
<1>1. /\ stack # << >> /\ Top.at > Length[Top.fn] /\ RunFrame
      /\ SetTop([Top EXCEPT !.at = 1, !.pass = @ + 1, !.changed = FALSE])
  BY DEF SweepAgain, SweptAll
<1>2. /\ Top \in FrameRecs /\ ForwardTyped /\ Length[Top.fn] \in Nat /\ Top.at \in Nat
  BY <1>1, TopFacts DEF TaintInv
<1>3. PICK pass \in Nat : pass = Top.pass + 1
  BY <1>2 DEF FrameRecs
<1>40. PICK one \in Nat \ {0} : one = 1
  OBVIOUS
<1>4. PICK H, fr : H = [Top EXCEPT !.at = one, !.pass = pass] /\ fr = [H EXCEPT !.changed = FALSE]
  OBVIOUS
<1>41. /\ H \in FrameRecs /\ H.fn = Top.fn /\ H.given = Top.given /\ H.at = one
       /\ H.tainted = Top.tainted /\ H.done = Top.done
       /\ H.returns = Top.returns /\ H.out = Top.out /\ H.sinks = Top.sinks
       /\ H.leaves = Top.leaves /\ H.noModel = Top.noModel /\ H.wrote = Top.wrote
       /\ H.calling = Top.calling /\ H.handed = Top.handed
  BY <1>2, <1>4 DEF FrameRecs
<1>50. /\ fr \in FrameRecs /\ fr.fn = H.fn /\ fr.given = H.given /\ fr.at = H.at
       /\ fr.changed = FALSE /\ fr.tainted = H.tainted /\ fr.done = H.done
       /\ fr.returns = H.returns /\ fr.out = H.out /\ fr.sinks = H.sinks
       /\ fr.leaves = H.leaves /\ fr.noModel = H.noModel /\ fr.wrote = H.wrote
       /\ fr.calling = H.calling /\ fr.handed = H.handed
  BY <1>4, <1>41 DEF FrameRecs
<1>5. /\ fr \in FrameRecs /\ fr.fn = Top.fn /\ fr.given = Top.given /\ fr.at = 1
      /\ fr.changed = FALSE /\ fr.tainted = Top.tainted /\ fr.done = Top.done
      /\ fr.returns = Top.returns /\ fr.out = Top.out /\ fr.sinks = Top.sinks
      /\ fr.leaves = Top.leaves /\ fr.noModel = Top.noModel /\ fr.wrote = Top.wrote
      /\ fr.calling = Top.calling /\ fr.handed = Top.handed
  BY <1>40, <1>41, <1>50
<1>6. SetTop(fr)
  BY <1>1, <1>3, <1>4, <1>40
<1>7. ASSUME Sound PROVE Tracked(fr)
  <2>1. Tracked(Top)
    BY <1>1, <1>2, <1>7, SoundTop
  <2>2. ~Top.calling
    BY <1>1, <1>2, <2>1 DEF Tracked, InFlight
  <2>3. ~ \E k \in 1..Length[fr.fn] : k < fr.at
    BY <1>2, <1>5
  <2>4. ~fr.calling /\ fr.given \subseteq fr.tainted /\ fr.out = {} /\ fr.wrote = {}
    BY <1>5, <2>1, <2>2 DEF Tracked
  <2>5. \A k \in Nat : \A args \in SUBSET Nat : <<k, args>> \in fr.done =>
            Passed(Certified, fr.fn, fr.tainted, k, args)
    BY <1>5, <2>1, <2>2 DEF Tracked
  <2> QED BY <2>3, <2>4, <2>5 DEF Tracked
<1>8. Clean(fr) => Clean(Top)
  BY <1>5 DEF Clean
<1>9. UNCHANGED <<code, setting, sources, pending, summaries, result, causes, incomplete>>
  BY <1>1 DEF RunFrame, forwardProgram
<1> QED BY <1>1, <1>5, <1>6, <1>7, <1>8, <1>9, TopStep

\* A clean activation whose last sweep found nothing new is a certificate.
LEMMA SweptIsCertified ==
    ASSUME ForwardConstants, ForwardTyped, stack # << >>, Sound, Finished, ~Top.changed
    PROVE  Confirmed(Top.fn, Top.given, Top.returns)
<1>1. Tracked(Top) /\ Top \in FrameRecs /\ code[Top.fn] # << >> /\ Top.at \in Nat
      /\ Length[Top.fn] \in Nat /\ Top.at > Length[Top.fn]
  BY SoundTop, TopFacts DEF Finished, SweptAll
<1>2. PICK d : d = [fn |-> Top.fn, given |-> Top.given, values |-> Top.tainted, returns |-> Top.returns]
  OBVIOUS
<1>3. d \in Certs /\ d.fn = Top.fn /\ d.given = Top.given /\ d.values = Top.tainted
  BY <1>1, <1>2 DEF Certs, FrameRecs
<1>4. d.returns = Top.returns
  BY <1>2
<1>5. ASSUME NEW k \in 1..Length[d.fn] PROVE Heeds(Certified, d.fn, d.values, d.returns, k)
  <2>1. k \in 1..Length[Top.fn] /\ k < Top.at
    BY <1>1, <1>3
  <2>2. Heeds(Certified, Top.fn, Top.tainted, Top.returns, k)
    BY <1>1, <2>1 DEF Tracked
  <2> QED BY <1>3, <1>4, <2>2
<1>6. Holds(Certified, d)
  BY <1>1, <1>3, <1>5 DEF Holds, Tracked
<1>7. d \in Certified
  BY <1>3, <1>6, Certify
<1> QED BY <1>3, <1>4, <1>7 DEF Confirmed

LEMMA FoundFacts ==
    ASSUME NEW sub, sub = Found, Top \in FrameRecs
    PROVE  /\ sub \in SummaryRecs /\ sub.out = Top.out /\ sub.returns = Top.returns
           /\ Clean(sub) <=> Clean(Top)
<1>1. /\ sub.out = Top.out /\ sub.sinks = Top.sinks /\ sub.leaves = Top.leaves
      /\ sub.noModel = Top.noModel /\ sub.returns = Top.returns
  BY DEF Found, Summary
<1>2. sub \in SummaryRecs
  BY DEF Found, Summary, SummaryRecs, FrameRecs
<1> QED BY <1>1, <1>2 DEF Clean

LEMMA ReturnSummaryStep ==
    ASSUME ForwardConstants, TaintInv, ReturnSummary
    PROVE  TaintInv'
<1>1. /\ Finished /\ Len(stack) > 1 /\ stack # << >> /\ ForwardTyped
      /\ UNCHANGED <<code, setting, sources, pending, incomplete, result>>
      /\ causes' = causes \union Exhausted
  BY DEF ReturnSummary, Finished, SweptAll, forwardProgram, TaintInv
<1>2. /\ Top \in FrameRecs /\ Len(stack) \in Nat /\ Top = stack[Len(stack)]
      /\ stack \in Seq(FrameRecs)
  BY <1>1, TopFacts DEF ForwardTyped
<1>3. PICK L \in Nat : L = Len(stack) - 1 /\ L >= 1 /\ L + 1 = Len(stack)
  BY <1>1, <1>2
<1>4. PICK Q : Q = SubSeq(stack, 1, L)
  OBVIOUS
<1>5. Q \in Seq(FrameRecs) /\ Len(Q) = L /\ \A i \in 1..L : Q[i] = stack[i]
  BY <1>2, <1>3, <1>4, SubSeqProperties
<1>6. PICK sub, P : sub = Found /\ P = stack[L]
  OBVIOUS
<1>7. /\ sub \in SummaryRecs /\ sub.out = Top.out /\ sub.returns = Top.returns
      /\ Clean(sub) <=> Clean(Top)
  BY <1>2, <1>6, FoundFacts
<1>8. P \in FrameRecs /\ P = Q[L]
  BY <1>2, <1>3, <1>5, <1>6
<1>9. PICK fr : fr = Merged(P, Top.fn, sub)
  OBVIOUS
<1>10. /\ fr \in FrameRecs /\ fr.fn = P.fn /\ fr.given = P.given
       /\ Clean(fr) => Clean(P) /\ Clean(sub)
  BY <1>7, <1>8, <1>9, MergedFacts
<1>11. stack' = [Q EXCEPT ![L] = fr]
  BY <1>3, <1>4, <1>6, <1>8, <1>9 DEF ReturnSummary
<1>12. /\ stack' \in Seq(FrameRecs) /\ Len(stack') = L /\ stack' # << >> /\ stack'[L] = fr
       /\ \A i \in 1..L : i # L => stack'[i] = stack[i]
  BY <1>3, <1>5, <1>10, <1>11
<1>13. PICK key : key = <<Top.fn, Top.given>>
  OBVIOUS
<1>14. summaries' = [k \in DOMAIN summaries \union {key} |-> IF k = key THEN {sub} ELSE summaries[k]]
  BY <1>6, <1>13 DEF ReturnSummary, SetSummary
<1>15. \A f \in Functions : code[f] # << >> => code'[f] = code[f]
  BY <1>1
<1>16. \A i \in 1..L : stack'[i].fn = stack[i].fn /\ stack'[i].given = stack[i].given
                       /\ i \in 1..Len(stack) /\ stack[i] \in FrameRecs
  <2> SUFFICES ASSUME NEW i \in 1..L
               PROVE  /\ stack'[i].fn = stack[i].fn /\ stack'[i].given = stack[i].given
                      /\ i \in 1..Len(stack) /\ stack[i] \in FrameRecs
    OBVIOUS
  <2>1. i \in 1..Len(stack) /\ stack[i] \in FrameRecs
    BY <1>2, <1>3
  <2>2. CASE i = L
    BY <1>6, <1>10, <1>12, <2>1, <2>2
  <2>3. CASE i # L
    BY <1>12, <2>1, <2>3
  <2> QED BY <2>1, <2>2, <2>3
<1>17. ForwardTyped'
  <2>1. \A i \in 1..Len(stack') : code'[stack'[i].fn] # << >>
    BY <1>1, <1>12, <1>16 DEF ForwardTyped
  <2>2. \A k \in DOMAIN summaries' : summaries'[k] \subseteq SummaryRecs
    BY <1>1, <1>7, <1>14 DEF ForwardTyped
  <2> QED BY <1>1, <1>12, <2>1, <2>2 DEF ForwardTyped, CodeTyped
<1>18. Spoiled => Spoiled'
  <2>1. ASSUME NEW i \in 1..Len(stack), ~Clean(stack[i]) PROVE Spoiled'
    <3>1. CASE i = L \/ i = L + 1
      <4>1. ~Clean(fr)
        BY <1>2, <1>3, <1>6, <1>7, <1>10, <2>1, <3>1
      <4>2. L \in 1..Len(stack') /\ ~Clean(stack'[L])
        BY <1>3, <1>12, <4>1
      <4> QED BY <4>2 DEF Spoiled
    <3>2. CASE i # L /\ i # L + 1
      <4>1. i \in 1..Len(stack') /\ stack'[i] = stack[i]
        BY <1>3, <1>12, <3>2
      <4> QED BY <2>1, <4>1 DEF Spoiled
    <3> QED BY <3>1, <3>2
  <2>2. ASSUME causes # {} \/ incomplete # {} \/ ~Clean(result) PROVE Spoiled'
    BY <1>1, <2>2 DEF Spoiled
  <2> QED BY <2>1, <2>2 DEF Spoiled
<1>19. ASSUME ~Spoiled' PROVE Sound'
  <2>1. Sound /\ ~Top.changed
    BY <1>1, <1>18, <1>19 DEF TaintInv, Spoiled, Exhausted
  <2>2. Confirmed(Top.fn, Top.given, Top.returns)
    BY <1>1, <2>1, SweptIsCertified
  <2>3. /\ Clean(sub) /\ Top.out = {}
    <3>1. Clean(fr)
      BY <1>3, <1>12, <1>19 DEF Spoiled
    <3> QED BY <1>1, <1>10, <2>1, <3>1, SoundTop
  <2>4. /\ Tracked(P) /\ P.calling /\ Top.given = Taken(Top.fn, P.handed)
    <3>1. L \in 1..Len(stack) /\ L < Len(stack)
      BY <1>3
    <3> QED BY <1>2, <1>3, <1>6, <2>1, <3>1 DEF Sound
  <2>5. Tracked(fr)
    <3>1. P.calling = TRUE
      BY <1>8, <2>4 DEF FrameRecs
    <3>2. Confirmed(Top.fn, Taken(Top.fn, P.handed), sub.returns)
      BY <1>7, <2>2, <2>4
    <3>3. sub.out \subseteq {}
      BY <1>7, <2>3
    <3> QED BY <1>7, <1>8, <1>9, <2>4, <3>1, <3>2, <3>3, TargetStays
  <2>6. ASSUME NEW i \in 1..Len(stack') PROVE Tracked(stack[i])'
    <3>1. PICK F : F = stack'[i]
      OBVIOUS
    <3>2. F \in FrameRecs /\ Tracked(F) /\ code[F.fn] # << >>
      <4>1. code[stack[i].fn] # << >>
        BY <1>1, <1>12, <1>16 DEF ForwardTyped
      <4>2. F.fn = stack[i].fn
        BY <1>12, <1>16, <3>1
      <4>3. CASE i = L
        BY <1>10, <1>12, <2>5, <3>1, <4>1, <4>2, <4>3
      <4>4. CASE i # L
        <5>1. F = stack[i] /\ i \in 1..Len(stack) /\ F \in FrameRecs
          BY <1>12, <1>16, <3>1, <4>4
        <5> QED BY <2>1, <4>1, <5>1 DEF Sound
      <4> QED BY <4>3, <4>4
    <3>3. Tracked(F)'
      BY <1>1, <1>15, <3>2, TrackedStays
    <3> QED BY <3>1, <3>3 DEF Tracked, InFlight
  <2>7. ASSUME NEW i \in 1..Len(stack'), i < Len(stack')
        PROVE  /\ stack'[i].calling /\ stack'[i + 1].fn \in stack'[i].targets
               /\ stack'[i + 1].given = Taken(stack'[i + 1].fn, stack'[i].handed)
    <3>1. stack'[i] = stack[i] /\ i \in 1..Len(stack) /\ i < Len(stack) /\ i + 1 \in 1..L
      BY <1>3, <1>12, <2>7
    <3>2. stack'[i + 1].fn = stack[i + 1].fn /\ stack'[i + 1].given = stack[i + 1].given
      BY <1>16, <3>1
    <3> QED BY <3>1, <3>2, <2>1 DEF Sound
  <2>8. ASSUME NEW k \in DOMAIN summaries', NEW s \in summaries'[k]
        PROVE  Clean(s) /\ s.out = {} /\ Confirmed(k[1], k[2], s.returns)'
    <3>1. Clean(s) /\ s.out = {} /\ Confirmed(k[1], k[2], s.returns)
      <4>1. CASE k = key
        <5>1. s = sub /\ k[1] = Top.fn /\ k[2] = Top.given
          BY <1>13, <1>14, <2>8, <4>1
        <5> QED BY <1>7, <2>2, <2>3, <5>1
      <4>2. CASE k # key
        <5>1. k \in DOMAIN summaries /\ s \in summaries[k]
          BY <1>14, <2>8, <4>2
        <5> QED BY <2>1, <5>1 DEF Sound
      <4> QED BY <4>1, <4>2
    <3> QED BY <1>1, <1>15, <3>1, ShownStays
  <2>9. stack'[1].fn = stack[1].fn /\ stack'[1].given = stack[1].given
    BY <1>3, <1>16
  <2>10. ASSUME NEW v \in sources'
         PROVE  \/ v \in pending' \/ (stack' # << >> /\ v \in stack'[1].given)
                \/ Shown(v)'
    <3>1. \/ v \in pending \/ (stack # << >> /\ v \in stack[1].given) \/ Shown(v)
      BY <1>1, <2>1 DEF Sound
    <3>2. Shown(v) => Shown(v)'
      BY <1>1, <1>15, ShownStays
    <3> QED BY <1>1, <1>12, <2>9, <3>1, <3>2
  <2>11. stack'[1].fn = "main"
    BY <1>1, <2>1, <2>9 DEF Sound
  <2> QED BY <1>12, <2>6, <2>7, <2>8, <2>10, <2>11 DEF Sound, Clean
<1> QED BY <1>17, <1>19 DEF TaintInv

LEMMA LeastIsFirst ==
    ASSUME NEW S \in SUBSET Nat, S # {}
    PROVE  First(S) \in S
<1>1. PICK R : R = {pair \in Nat \X Nat : pair[1] < pair[2]}
  OBVIOUS
<1>2. IsWellFoundedOn(R, Nat)
  BY <1>1, NatLessThanWellFounded DEF OpToRel
<1>3. PICK x \in S : \A y \in S : ~ (<<y, x>> \in R)
  BY <1>2, WFMin
<1>4. \A y \in S : x <= y
  <2> SUFFICES ASSUME NEW y \in S PROVE x <= y
    OBVIOUS
  <2>1. ~ (y < x)
    <3>1. y < x => <<y, x>> \in R
      BY <1>1
    <3> QED BY <1>3, <3>1
  <2> QED BY <2>1
<1> QED BY <1>4 DEF First

LEMMA FinishStep ==
    ASSUME ForwardConstants, TaintInv, FinishRun
    PROVE  TaintInv'
<1>1. /\ Finished /\ Len(stack) = 1 /\ stack # << >> /\ ForwardTyped
      /\ UNCHANGED <<code, setting, sources, incomplete>>
      /\ causes' = causes \union Exhausted /\ summaries' = << >>
  BY DEF FinishRun, Finished, SweptAll, forwardProgram, TaintInv
<1>2. Top \in FrameRecs /\ Top = stack[1]
  BY <1>1, TopFacts
<1>3. PICK sub : sub = Found
  OBVIOUS
<1>4. sub \in SummaryRecs
  BY <1>2, <1>3, FoundFacts
<1>41. Clean(sub) <=> Clean(Top)
  BY <1>2, <1>3, FoundFacts
<1>5. result' \in SummaryRecs /\ (Clean(result') => Clean(result) /\ Clean(sub))
  <2>1. result' = Union(result, sub)
    BY <1>3 DEF FinishRun
  <2>2. result \in SummaryRecs
    BY <1>1 DEF ForwardTyped
  <2>3. PICK returns, noModel : /\ returns = (result.returns \/ sub.returns)
                                /\ noModel = (result.noModel \/ sub.noModel)
    OBVIOUS
  <2>4. returns \in BOOLEAN /\ noModel \in BOOLEAN
    BY <2>3
  <2>5. PICK out, sinks, leaves :
            /\ out = result.out \union sub.out /\ sinks = result.sinks \union sub.sinks
            /\ leaves = result.leaves \union sub.leaves
    OBVIOUS
  <2>60. /\ sub.out \in SUBSET Nat /\ sub.sinks \in SUBSET (Functions \X Nat)
         /\ sub.leaves \in SUBSET Leaves
         /\ result.out \in SUBSET Nat /\ result.sinks \in SUBSET (Functions \X Nat)
         /\ result.leaves \in SUBSET Leaves
    BY <1>4, <2>2 DEF SummaryRecs
  <2>6. /\ out \in SUBSET Nat /\ sinks \in SUBSET (Functions \X Nat) /\ leaves \in SUBSET Leaves
    BY <2>5, <2>60
  <2>7. result' = [returns |-> returns, out |-> out, sinks |-> sinks, leaves |-> leaves,
                   noModel |-> noModel]
    BY <2>1, <2>3, <2>5 DEF Union, Summary
  <2>8. result' \in SummaryRecs
    BY <2>4, <2>6, <2>7 DEF SummaryRecs
  <2>9. result'.sinks = sinks /\ result'.leaves = leaves /\ result'.noModel = noModel
    BY <2>7
  <2> QED BY <2>3, <2>5, <2>8, <2>9 DEF Clean
<1>6. Spoiled => Spoiled'
  <2>1. ASSUME NEW i \in 1..Len(stack), ~Clean(stack[i]) PROVE ~Clean(sub)
    <3>1. i = 1
      BY <1>1
    <3>2. stack[i] = Top
      BY <1>2, <3>1
    <3>3. ~Clean(Top)
      BY <2>1, <3>2
    <3> QED BY <1>41, <3>3
  <2>2. ~Clean(sub) \/ ~Clean(result) => Spoiled'
    BY <1>5 DEF Spoiled
  <2>3. causes # {} \/ incomplete # {} => Spoiled'
    BY <1>1 DEF Spoiled
  <2> QED BY <2>1, <2>2, <2>3 DEF Spoiled
<1>7. /\ stack' \in Seq(FrameRecs) /\ Len(stack') <= 1 /\ Len(stack') \in Nat
      /\ \A i \in 1..Len(stack') : i = 1 /\ stack'[i].fn = "main" /\ Tracked(stack'[i])
                                   /\ Tracked(stack[i])'
      /\ pending' \subseteq pending
      /\ stack' = << >> => pending' = {}
      /\ \A v \in pending : v \in pending' \/ (stack' # << >> /\ v \in stack'[1].given)
  <2>1. CASE pending = {}
    <3>1. stack' = << >> /\ pending' = pending
      BY <2>1 DEF FinishRun
    <3> QED BY <2>1, <3>1
  <2>2. CASE pending # {}
    <3>1. PICK v : v = First(pending)
      OBVIOUS
    <3>2. v \in pending /\ pending \subseteq Nat
      BY <1>1, <2>2, <3>1, LeastIsFirst DEF ForwardTyped
    <3>3. PICK given \in SUBSET Nat : given = {v}
      BY <3>2
    <3>4. PICK G : G = Frame("main", given)
      OBVIOUS
    <3>5. "main" \in Functions
      BY DEF ForwardConstants
    <3>6. /\ G \in FrameRecs /\ G.fn = "main" /\ G.given = given /\ Tracked(G) /\ Tracked(G)'
      BY <3>4, <3>5, FrameFacts
    <3>7. stack' = <<G>> /\ pending' = pending \ {v}
      BY <2>2, <3>1, <3>3, <3>4 DEF FinishRun
    <3>8. stack' \in Seq(FrameRecs) /\ Len(stack') = 1 /\ stack'[1] = G /\ stack' # << >>
      BY <3>6, <3>7
    <3>9. ASSUME NEW i \in 1..Len(stack')
          PROVE  i = 1 /\ stack'[i].fn = "main" /\ Tracked(stack'[i]) /\ Tracked(stack[i])'
      <4>1. i = 1 /\ stack'[i] = G
        BY <3>8
      <4> QED BY <3>6, <4>1 DEF Tracked, InFlight
    <3> QED BY <3>3, <3>6, <3>7, <3>8, <3>9
  <2> QED BY <2>1, <2>2
<1>8. ForwardTyped'
  <2>1. \A i \in 1..Len(stack') : code'[stack'[i].fn] # << >>
    BY <1>1, <1>7 DEF ForwardTyped
  <2>2. \A k \in DOMAIN summaries' : summaries'[k] \subseteq SummaryRecs
    BY <1>1
  <2>3. pending' \subseteq Nat
    BY <1>1, <1>7 DEF ForwardTyped
  <2> QED BY <1>1, <1>5, <1>7, <2>1, <2>2, <2>3 DEF ForwardTyped, CodeTyped
<1>9. ASSUME ~Spoiled' PROVE Sound'
  <2>1. Sound /\ ~Top.changed
    BY <1>1, <1>6, <1>9 DEF TaintInv, Spoiled, Exhausted
  <2>2. Confirmed(Top.fn, Top.given, Top.returns) /\ Top.fn = "main"
    BY <1>1, <1>2, <2>1, SweptIsCertified DEF Sound
  <2>3. \A v \in Top.given : Shown(v)
    <3>1. Confirmed("main", Top.given, TRUE)
      BY <2>2 DEF Confirmed
    <3>2. Top.given \in SUBSET Nat
      BY <1>2 DEF FrameRecs
    <3> QED BY <3>1, <3>2 DEF Shown
  <2>4. ASSUME NEW v \in sources'
        PROVE  \/ v \in pending' \/ (stack' # << >> /\ v \in stack'[1].given)
               \/ Shown(v)'
    <3>1. v \in pending \/ Shown(v)
      BY <1>1, <1>2, <2>1, <2>3 DEF Sound
    <3>2. Shown(v) => Shown(v)'
      BY <1>1, ShownStays
    <3> QED BY <1>7, <3>1, <3>2
  <2>5. \A k \in DOMAIN summaries' : FALSE
    BY <1>1
  <2>6. stack' # << >> => stack'[1].fn = "main"
    BY <1>7
  <2>7. ~ \E i \in 1..Len(stack') : i < Len(stack')
    BY <1>7
  <2> QED BY <1>7, <2>4, <2>5, <2>6, <2>7 DEF Sound
<1> QED BY <1>8, <1>9 DEF TaintInv

LEMMA ForwardStep ==
    ASSUME ForwardConstants, TaintInv, ForwardNext
    PROVE  TaintInv'
<1>1. Visit => TaintInv'
  BY MoveStep, StoreStep, SinkStep, ReturnStep, UnliftedStep, SourceStep DEF Visit
<1> QED BY <1>1, SkipStep, UnresolvedStep, BeginStep, CallTargetStep, EndCallStep, SweepStep,
           ReturnSummaryStep, FinishStep DEF ForwardNext

LEMMA ForwardUnchanged ==
    ASSUME TaintInv, UNCHANGED forwardVars
    PROVE  TaintInv'
<1>1. UNCHANGED <<code, setting, sources, pending, stack, summaries, causes, incomplete, result>>
  BY DEF forwardVars, forwardProgram
<1>2. Certified' = Certified
  BY <1>1 DEF Certified, Closed, Holds, Heeds, Passed, HandedAt, CarriesIn, ReadsIn, Hops
<1>3. ForwardTyped' <=> ForwardTyped
  BY <1>1 DEF ForwardTyped, CodeTyped
<1>4. Spoiled' <=> Spoiled
  BY <1>1 DEF Spoiled
<1>5. \A F : Tracked(F)' <=> Tracked(F)
  BY <1>1, <1>2 DEF Tracked, InFlight, Confirmed, Heeds, Passed, HandedAt, CarriesIn, ReadsIn, Hops
<1>6. \A f, given, returns : Confirmed(f, given, returns)' <=> Confirmed(f, given, returns)
  BY <1>2 DEF Confirmed
<1>61. \A v : Shown(v)' <=> Shown(v)
  BY <1>6 DEF Shown
<1>7. Sound => Sound'
  BY <1>1, <1>5, <1>6, <1>61 DEF Sound
<1> QED BY <1>3, <1>4, <1>7 DEF TaintInv

LEMMA ForwardStarts ==
    ASSUME ForwardConstants, Disregarded, ForwardInit
    PROVE  TaintInv
<1>1. PICK body \in Bodies("main") : code = [f \in Functions |-> IF f = "main" THEN body ELSE << >>]
  BY DEF ForwardInit
<1>2. "main" \in Functions /\ Length["main"] \in Nat \ {0} /\ NParams["main"] \in Nat
  BY DEF ForwardConstants
<1>3. code["main"] = body /\ body # << >>
  <2>1. DOMAIN body = 1..Length["main"]
    BY DEF Bodies
  <2>2. 1 \in DOMAIN body
    BY <1>2, <2>1
  <2> QED BY <1>1, <1>2, <2>2
<1>4. CodeTyped /\ code \in [Functions -> UNION {Bodies(f) \union {<< >>} : f \in Functions}]
  <2>1. CodeTyped
    BY <1>1 DEF CodeTyped
  <2> QED BY <1>1, <2>1 DEF CodeTyped
<1>5. sources \subseteq Nat /\ sources # {}
  <2>1. Params("main") \subseteq Nat
    BY DEF Params
  <2>2. Results \subseteq Nat
    BY <1>2 DEF Results, Defined
  <2>3. PICK named \in SUBSET Params("main"), results \in {{}, Results} :
            sources = named \union results /\ sources # {}
    BY DEF ForwardInit
  <2> QED BY <2>1, <2>2, <2>3
<1>6. First(sources) \in sources
  BY <1>5, LeastIsFirst
<1>7. PICK given \in SUBSET Nat : given = FirstRun
  BY <1>5, <1>6 DEF FirstRun
<1>8. PICK G : G = Frame("main", given)
  OBVIOUS
<1>9. /\ G \in FrameRecs /\ G.fn = "main" /\ G.given = given /\ Clean(G) /\ Tracked(G)
  BY <1>2, <1>8, FrameFacts
<1>10. stack = <<G>> /\ pending = sources \ given /\ summaries = << >> /\ result = Nothing
  BY <1>7, <1>8 DEF ForwardInit
<1>11. stack \in Seq(FrameRecs) /\ Len(stack) = 1 /\ stack[1] = G /\ stack # << >>
  BY <1>9, <1>10
<1>12. result \in SummaryRecs
  BY <1>10 DEF Nothing, Summary, SummaryRecs
<1>13. ASSUME NEW i \in 1..Len(stack) PROVE i = 1 /\ stack[i] = G
  BY <1>11
<1>14. ForwardTyped
  <2>1. \A i \in 1..Len(stack) : code[stack[i].fn] # << >>
    BY <1>3, <1>9, <1>13
  <2>2. \A k \in DOMAIN summaries : summaries[k] \subseteq SummaryRecs
    BY <1>10
  <2> QED BY <1>3, <1>4, <1>5, <1>10, <1>11, <1>12, <2>1, <2>2 DEF ForwardTyped
<1>15. Sound
  <2>1. \A i \in 1..Len(stack) : Tracked(stack[i])
    BY <1>9, <1>13
  <2>2. ~ \E i \in 1..Len(stack) : i < Len(stack)
    BY <1>11
  <2>3. \A k \in DOMAIN summaries : FALSE
    BY <1>10
  <2>4. \A w \in sources : w \in pending \/ (stack # << >> /\ w \in stack[1].given)
    BY <1>9, <1>10, <1>11
  <2> QED BY <1>9, <1>11, <2>1, <2>2, <2>3, <2>4 DEF Sound
<1> QED BY <1>14, <1>15 DEF TaintInv

LEMMA TaintInvGivesAllClear ==
    ASSUME ForwardConstants, TaintInv
    PROVE  AllClearIsTrue
<1> SUFFICES ASSUME AllClear PROVE Truth.sinks = {} /\ ~Truth.unknown
  BY DEF AllClearIsTrue
<1>1. ForwardTyped /\ CodeTyped /\ Disregarded
  BY DEF TaintInv, ForwardTyped
<1>2. stack = << >> /\ result.sinks = {} /\ result.leaves = {} /\ ~result.noModel
      /\ incomplete = {} /\ causes = {}
  BY DEF AllClear, Done, NothingWithheld
<1>3. ~Spoiled
  <2>1. ~ \E i \in 1..Len(stack) : TRUE
    BY <1>2
  <2> QED BY <1>2, <2>1 DEF Spoiled, Clean
<1>4. Sound /\ pending = {}
  BY <1>2, <1>3 DEF TaintInv, Sound
<1>5. ASSUME NEW v \in sources PROVE Vouchers("main", v) # {}
  <2>1. Shown(v)
    BY <1>2, <1>4 DEF Sound
  <2> QED BY <2>1 DEF Shown, Confirmed, Vouchers
<1>6. Vouched("main", sources)
  BY <1>5 DEF Vouched
<1> QED BY <1>1, <1>6, VouchedSourcesAreHarmless

LEMMA ForwardParkedStays ==
    ASSUME ForwardParked, UNCHANGED forwardVars
    PROVE  ForwardParked'
BY DEF ForwardParked, forwardVars, forwardProgram, Nothing, Summary

LEMMA TaintInvHolds ==
    ASSUME Disregarded
    PROVE  Spec => [](ForwardParked \/ TaintInv)
<1>1. ForwardConstants
  BY TaintAssumption
<1>2. Init => ForwardParked \/ TaintInv
  BY <1>1, ForwardStarts DEF Init
<1>3. ASSUME ForwardParked \/ TaintInv, [Next]_<<forwardVars, sliceVars>>
      PROVE  (ForwardParked \/ TaintInv)'
  <2>1. CASE UNCHANGED forwardVars
    BY <1>3, <2>1, ForwardParkedStays, ForwardUnchanged
  <2>2. CASE IsForward /\ ForwardNext
    <3>1. TaintInv
      BY <1>3, <2>2 DEF IsForward, ForwardParked
    <3> QED BY <1>1, <2>2, <3>1, ForwardStep
  <2> QED BY <1>3, <2>1, <2>2 DEF Next
<1> QED BY <1>2, <1>3, PTL DEF Spec

(* _run_forward and _derive_all_clear: for any program, budgets and settings, a run   *)
(* that gives the all-clear hides no flow.  However often the flow equations are      *)
(* applied, no tainted value reaches a sink, nor code that the run could not look     *)
(* into, but for what the code leaves untold: a pointer to a tainted buffer that an   *)
(* unlifted instruction reads, or that was copied more often than the run follows,    *)
(* and an argument beyond the parameters that Binary Ninja recovered of the callee.   *)
THEOREM AllClearsAreTrue ==
    ASSUME Oversights \subseteq Overlooked
    PROVE  Spec => []AllClearIsTrue
<1>1. ForwardConstants
  BY TaintAssumption
<1>2. ForwardParked => AllClearIsTrue
  BY DEF ForwardParked, AllClearIsTrue, AllClear, NothingWithheld
<1>3. TaintInv => AllClearIsTrue
  BY <1>1, TaintInvGivesAllClear
<1>4. ForwardParked \/ TaintInv => AllClearIsTrue
  BY <1>2, <1>3
<1>5. Disregarded
  BY DEF Disregarded
<1> QED BY <1>4, <1>5, TaintInvHolds, PTL

=============================================================================
