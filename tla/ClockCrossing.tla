---------------------------- MODULE ClockCrossing ----------------------------
(***************************************************************************)
(* A pulse carried from one clock to another (synchroFlop.v), with the     *)
(* baud generator (baudGenerator.v) as its source: the generator runs on   *)
(* the reference clock, the UART that takes the ticks on the system clock. *)
(***************************************************************************)
EXTENDS Integers

CONSTANTS
    Divisors,       \* what programs write into the divisor; 27 at 115200 baud
    ClockRatio      \* bound: reference edges between two edges of the system clock

\* baudDivisor, and the counter it is loaded into, have sixteen bits.
BaudValues == 0 .. 65535

ASSUME DivisorsAssumption == Divisors \subseteq BaudValues
ASSUME ClockRatioAssumption == ClockRatio \in Nat \ {0}

VARIABLES
    xcDivisor,      \* baudDivisor
    xcCounter,      \* s_counterReg
    xcEighth,       \* s_baudDivReg
    xcCells,        \* s_states of the cells for the ticks of 16 and of 2 per bit
    xcEdges,        \* reference edges since the last edge of the system clock
    xcOwed          \* history: ticks of each kind produced and not yet delivered

xcVars == <<xcDivisor, xcCounter, xcEighth, xcCells, xcEdges, xcOwed>>

XcKinds == {16, 2}

XcTypeOK ==
    /\ xcDivisor \in Divisors /\ xcCounter \in BaudValues /\ xcEighth \in 0 .. 7
    /\ xcCells \in [XcKinds -> [0 .. 2 -> BOOLEAN]]
    /\ xcEdges \in 0 .. ClockRatio /\ xcOwed \in [XcKinds -> Int]

XcInit ==
    /\ xcDivisor \in Divisors
    /\ xcCounter = xcDivisor /\ xcEighth = 7
    /\ xcCells = [k \in XcKinds |-> [i \in 0 .. 2 |-> FALSE]]
    /\ xcEdges = 0 /\ xcOwed = [k \in XcKinds |-> 0]

\* s_counterLoad.
XcLoad == xcCounter \in {0, 1}

\* D of the two cells.
XcTick(k) == XcLoad /\ (k = 2 => xcEighth = 0)

\* An edge of the reference clock. The first flip-flop keeps a pulse until the
\* second has it, which holds the first in reset.
XcReferenceEdge ==
    /\ xcEdges < ClockRatio /\ xcEdges' = xcEdges + 1
    /\ xcCounter' = IF XcLoad THEN xcDivisor ELSE xcCounter - 1
    /\ xcEighth' = IF XcLoad THEN (xcEighth - 1) % 8 ELSE xcEighth
    /\ xcCells' = [k \in XcKinds |->
                    [xcCells[k] EXCEPT ![0] = ~xcCells[k][1] /\ (@ \/ XcTick(k))]]
    /\ xcOwed' = [k \in XcKinds |-> IF XcTick(k) /\ xcOwed[k] < 3 THEN xcOwed[k] + 1 ELSE xcOwed[k]]
    /\ UNCHANGED xcDivisor

\* Mutant: the second flip-flop does not reset the first.
XcShiftedHolds(cell) == [cell EXCEPT ![1] = cell[0], ![2] = cell[1]]

XcShifted(cell) == [i \in 0 .. 2 |-> IF i = 0 THEN FALSE ELSE cell[i - 1]]

\* An edge of the system clock; Q is high for one period.
XcSystemEdge ==
    /\ xcEdges' = 0
    /\ xcCells' = [k \in XcKinds |-> XcShifted(xcCells[k])]
    /\ xcOwed' = [k \in XcKinds |-> IF xcCells[k][1] THEN xcOwed[k] - 1 ELSE xcOwed[k]]
    /\ UNCHANGED <<xcDivisor, xcCounter, xcEighth>>

XcNext == XcReferenceEdge \/ XcSystemEdge
XcSpec == XcInit /\ [][XcNext]_xcVars

-----------------------------------------------------------------------------
(* Correctness.                                                            *)

\* Ticks far enough apart for two edges of the system clock between them all
\* arrive, each once; closer ones merge, as those of an unset divisor do.
TicksArriveOnce ==
    xcDivisor > 2 * ClockRatio =>
        \A k \in XcKinds :
            xcOwed[k] = IF xcCells[k][0] \/ xcCells[k][1] THEN 1 ELSE 0
=============================================================================
