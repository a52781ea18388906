-------------------------------- MODULE Lfsr --------------------------------
(***************************************************************************)
(* The shift register random generator of the support library (lfsr.c,     *)
(* lfsr.h). A register is the set of the positions of its ones.            *)
(***************************************************************************)
EXTENDS Integers, FiniteSets, Sequences

CONSTANTS
    Widths,         \* the widths the programs ask for
    Starts,         \* the start values they pass, not masked to the width
    MaxSteps        \* bound: numbers drawn from one generator

ASSUME WidthsAssumption == Widths \subseteq 4 .. 64
ASSUME StartsAssumption == \A s \in Starts : s \subseteq 0 .. 63

VARIABLES
    lfWidth,    \* nbits, 0 before lfsr_fibonacci_init
    lfMask, lfState, lfXnor, lfTaps,    \* the fields of the structure
    lfStart,    \* history: the start value
    lfDrawn     \* history: how many numbers were drawn

lfVars == <<lfWidth, lfMask, lfState, lfXnor, lfTaps, lfStart, lfDrawn>>

\* lfsr_feedbacks, from 4 bits on.
LfFeedbacks ==
    <<{0,3}, {1,4}, {0,5}, {0,6}, {1,2,3,7}, {3,8}, {2,9}, {1,10}, {0,3,5,11}, {0,2,3,12},
      {0,2,4,13}, {0,14}, {1,2,4,15}, {2,16}, {0,1,4,17}, {0,1,4,18}, {2,19}, {1,20},
      {0,21}, {4,22}, {0,2,3,23}, {2,24}, {0,1,5,25}, {0,1,4,26}, {2,27}, {1,28},
      {0,3,5,29}, {2,30}, {0,1,2,4,6,31}, {0,3,5,32}, {0,1,4,5,6,33}, {1,34},
      {0,1,3,4,5,35}, {0,1,2,3,4,36}, {0,4,5,37}, {3,38}, {2,3,4,39}, {2,40},
      {0,1,2,3,4,41}, {2,3,5,42}, {1,4,5,43}, {0,2,3,44}, {0,1,2,4,7,45}, {4,46},
      {0,1,3,4,6,47}, {3,4,5,48}, {1,2,3,49}, {0,2,5,50}, {2,51}, {0,1,5,52},
      {1,2,3,4,5,53}, {0,1,5,54}, {1,3,6,55}, {1,2,4,56}, {0,4,5,57}, {0,2,3,4,5,58},
      {0,59}, {0,1,4,60}, {2,4,5,61}, {0,62}, {0,2,3,63}>>

\* lfsr_xor_reduce of the state under the feedback.
Parity(bits) == Cardinality(bits) % 2

\* (1 << nbits) - 1. Shifting a word of 64 bits by 64 is undefined: the mask
\* may also become 0.
Masks(width) == IF width = 64 THEN {0 .. 63, {}} ELSE {0 .. width - 1}

\* The assertions of lfsr_fibonacci_init2. The one for XNOR, state + 1 >= 0,
\* is true for every unsigned state.
Accepted(width, start, xnor) ==
    /\ width \in 4 .. 64
    /\ ~xnor => start # {}
    /\ xnor => Parity(LfFeedbacks[width - 3]) = 0

\* The notes in lfsr.h about the state, inside the mask.
Proper(bits, mask, xnor) == IF xnor THEN bits \cap mask # mask ELSE bits \cap mask # {}

\* Mutant: the parity is never inverted.
NextXor(bits, mask, xnor, taps) ==
    ({i + 1 : i \in bits} \cup (IF Parity(bits \cap taps) = 1 THEN {0} ELSE {})) \cap mask

\* One shift, with the (inverted) parity of the taps entering at the bottom.
NextBits(bits, mask, xnor, taps) ==
    ({i + 1 : i \in bits} \cup (IF (Parity(bits \cap taps) = 1) # xnor THEN {0} ELSE {}))
        \cap mask

LfInit ==
    /\ lfWidth = 0 /\ lfMask = {} /\ lfState = {} /\ lfXnor = FALSE /\ lfTaps = {}
    /\ lfStart = {} /\ lfDrawn = 0

\* lfsr_fibonacci_init and lfsr_fibonacci_init2.
LfSetup(width, start, xnor) ==
    /\ lfWidth = 0
    /\ Accepted(width, start, xnor)
    /\ lfWidth' = width
    /\ lfMask' \in Masks(width)
    /\ lfState' = start /\ lfStart' = start
    /\ lfXnor' = xnor
    /\ lfTaps' = LfFeedbacks[width - 3]
    /\ UNCHANGED lfDrawn

\* lfsr_fibonacci_next.
LfDraw ==
    /\ lfWidth # 0 /\ lfDrawn < MaxSteps
    /\ lfDrawn > 0 => lfState # lfStart
    /\ lfState' = NextBits(lfState, lfMask, lfXnor, lfTaps)
    /\ lfDrawn' = lfDrawn + 1
    /\ UNCHANGED <<lfWidth, lfMask, lfXnor, lfTaps, lfStart>>

LfNext ==
    \/ \E width \in Widths, start \in Starts, xnor \in BOOLEAN : LfSetup(width, start, xnor)
    \/ LfDraw

LfSpec == LfInit /\ [][LfNext]_lfVars

-----------------------------------------------------------------------------
(* Correctness.                                                            *)

LfTypeOK ==
    /\ lfWidth \in Widths \cup {0}
    /\ lfMask \subseteq 0 .. 63 /\ lfState \subseteq 0 .. 63 /\ lfTaps \subseteq 0 .. 63
    /\ lfXnor \in BOOLEAN /\ lfStart \in Starts \cup {{}} /\ lfDrawn \in 0 .. MaxSteps

\* The programs obey the notes: a width whose mask is defined, a start value
\* inside it that is not the one the generator cannot leave.
WellSetUp == lfWidth \in 4 .. 63 /\ lfStart \subseteq lfMask /\ Proper(lfStart, lfMask, lfXnor)

\* The generator never reaches the state it cannot leave (0, or all ones with
\* XNOR), so that it never stops producing numbers.
NeverFrozen == WellSetUp => Proper(lfState, lfMask, lfXnor)

\* It comes back to its start value only after all other values: the feedbacks
\* of the table have the full period.
FullPeriod ==
    WellSetUp /\ lfDrawn > 0 /\ lfState = lfStart => lfDrawn = 2 ^ lfWidth - 1

\* lfsr.h: what the initialisation accepts has a state that can be left.
AcceptedIsProper == lfWidth # 0 => Proper(lfStart, lfMask, lfXnor)
=============================================================================
