--------------------------- MODULE LoadStorePort ---------------------------
(***************************************************************************)
(* What the pipeline may expect of the load/store unit: one operation at a *)
(* time, each performed exactly once on the bus between the clock that     *)
(* accepts it and the clock that lets the pipeline go on, and a failure    *)
(* is reported for the operation that failed.                              *)
(***************************************************************************)
CONSTANTS Operations, None

VARIABLES
    pending,    \* the accepted operation, or None
    performed,  \* it has been put on the bus
    failed      \* the bus reported an error for it

portVars == <<pending, performed, failed>>

PortInit == pending = None /\ performed = FALSE /\ failed = FALSE

Accept ==
    /\ pending = None
    /\ pending' \in Operations \ {None}
    /\ performed' = FALSE /\ failed' = FALSE

Perform ==
    /\ pending # None /\ ~performed
    /\ performed' = TRUE
    /\ UNCHANGED <<pending, failed>>

Fail ==
    /\ performed /\ ~failed
    /\ failed' = TRUE
    /\ UNCHANGED <<pending, performed>>

\* The pipeline goes on; what it is told is kept until it moves.
Release ==
    /\ pending # None /\ performed
    /\ pending' = None /\ performed' = FALSE
    /\ UNCHANGED failed

\* The pipeline has taken note of the result.
Forget == pending = None /\ failed' = FALSE /\ UNCHANGED <<pending, performed>>

PortNext == Accept \/ Perform \/ Fail \/ Release \/ Forget

PortSpec == PortInit /\ [][PortNext]_portVars
=============================================================================
