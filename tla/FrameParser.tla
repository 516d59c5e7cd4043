---------------------------- MODULE FrameParser ----------------------------
(***************************************************************************)
(* The parser of the JSON Lines frames as functions on its state.  A       *)
(* stream is a sequence of units; a unit is a piece of a message or the    *)
(* newline that ends a frame.                                              *)
(***************************************************************************)
EXTENDS Integers, SequencesExt

CONSTANTS
  MaxFrame,   \* maxFrameBytes_
  Newline

ASSUME FrameAssumption == MaxFrame \in Nat \ {0}

EmptyParser == [current |-> << >>, completed |-> << >>, overflowed |-> FALSE]

\* reset() at the overflow: the complete frames go as well
Overflow(p) == [EmptyParser EXCEPT !.overflowed = TRUE]

\* plausible slip: the limit is looked at after the unit was taken
Take_Later(p, unit) ==
  IF p.overflowed THEN p
  ELSE IF unit = Newline
       THEN [p EXCEPT !.completed = Append(@, p.current), !.current = << >>]
       ELSE IF Len(p.current) > MaxFrame THEN Overflow(p)
            ELSE [p EXCEPT !.current = Append(@, unit)]

\* one round of the loop in append()
Take(p, unit) ==
  IF p.overflowed THEN p
  ELSE IF unit = Newline
       THEN [p EXCEPT !.completed = Append(@, p.current), !.current = << >>]
       ELSE IF Len(p.current) >= MaxFrame THEN Overflow(p)
            ELSE [p EXCEPT !.current = Append(@, unit)]

\* append()
Appended(p, units) == FoldLeft(Take, p, units)

\* popFrame() until it has no more
Popped(p) == [p EXCEPT !.completed = << >>]

=============================================================================
