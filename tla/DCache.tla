------------------------------- MODULE DCache -------------------------------
(***************************************************************************)
(* The load/store unit of the processor (modules/or1420/verilog/dCache.v), *)
(* one step per clock edge.  It caches nothing: a load or store outside of *)
(* the scratch-pad memory becomes one transaction on the system bus while  *)
(* the pipeline is stalled.  The wires of the bus and the stall of the     *)
(* fetch stage and the custom instructions are inputs.                     *)
(***************************************************************************)

CONSTANTS
    Targets,   \* what a bus address can select
    Data       \* the words a slave can put on the bus

Spm == "spm"   \* addresses in the scratch-pad memory, answered without the bus

NoOp == [kind |-> "none", target |-> Spm]
Ops  == {NoOp} \cup [kind : {"load", "store"}, target : Targets \cup {Spm}]

VARIABLES
    exeOp,          \* loadMode, storeMode, memoryAddress: from the execution stage
    dcStall,        \* s_stallReg
    dcOp,           \* s_loadModeReg, s_memoryAddressReg, s_dataFromCpuReg
    dcCacheError,   \* s_cacheErrorReg
    dcState,        \* s_stateReg
    dcBus,          \* s_busStateReg
    dcBusError,     \* s_busErrorReg
    dcFetched       \* s_fetchedDataReg

dcVars == <<exeOp, dcStall, dcOp, dcCacheError, dcState, dcBus, dcBusError, dcFetched>>

DcStates    == {"IDLE", "REQUEST_ACTION", "WAIT_FOR_ACTION", "SIGNAL_DONE"}
DcBusStates == {"NOOP", "REQUEST_BUS", "INIT_TRANSACTION", "WAIT_READ",
                "BUS_ERROR", "SIG_DONE", "DO_WRITE", "END_WRITE"}

-----------------------------------------------------------------------------
(* Outputs. *)

DcRequest       == dcBus = "REQUEST_BUS"
DcBegin         == dcBus = "INIT_TRANSACTION"
DcEnd           == dcBus \in {"BUS_ERROR", "END_WRITE"}
DcDataValid     == dcBus = "DO_WRITE"
DcReadNotWrite  == DcBegin /\ dcOp.kind = "load"

\* weRegister: the loaded word goes to the register file in this clock.
WriteRegister(iCacheStall) ==
    dcOp.kind = "load" /\ ~dcCacheError /\ ~dcStall /\ ~iCacheStall

BusActionDone == dcBus = "SIG_DONE"

-----------------------------------------------------------------------------
(* A clock edge. *)

\* The operation in the execution stage needs the bus.
NeedsBus == exeOp.kind # "none" /\ exeOp.target # Spm

\* Mutant: the error is a pulse, not held while the fetch stage stalls.
StallRegistersErrorPulse(iCacheStall, nextOp) ==
    LET stalled == iCacheStall \/ dcStall IN
    /\ dcStall' = (dcState # "SIGNAL_DONE" /\ (dcStall \/ (NeedsBus /\ ~iCacheStall)))
    /\ IF stalled THEN UNCHANGED <<exeOp, dcOp>>
                  ELSE exeOp' = nextOp /\ dcOp' = exeOp
    /\ dcCacheError' = (BusActionDone /\ dcBusError)

\* s_stallReg, and the registers that hold while the unit is stalled.  The
\* execution stage delivers its next operation only when nothing stalls.
StallRegisters(iCacheStall, nextOp) ==
    LET stalled == iCacheStall \/ dcStall IN
    /\ dcStall' = (dcState # "SIGNAL_DONE" /\ (dcStall \/ (NeedsBus /\ ~iCacheStall)))
    /\ IF stalled THEN UNCHANGED <<exeOp, dcOp>>
                  ELSE exeOp' = nextOp /\ dcOp' = exeOp
    /\ dcCacheError' = (stalled /\ IF BusActionDone THEN dcBusError ELSE dcCacheError)

\* Mutant: the machine is free before the stall is.
StateMachineRestarts ==
    dcState' = CASE dcState = "IDLE"            -> IF dcStall THEN "REQUEST_ACTION" ELSE "IDLE"
                 [] dcState = "REQUEST_ACTION"  -> "WAIT_FOR_ACTION"
                 [] dcState = "WAIT_FOR_ACTION" -> IF BusActionDone THEN "IDLE" ELSE "WAIT_FOR_ACTION"
                 [] dcState = "SIGNAL_DONE"     -> "IDLE"

StateMachine ==
    dcState' = CASE dcState = "IDLE"            -> IF dcStall THEN "REQUEST_ACTION" ELSE "IDLE"
                 [] dcState = "REQUEST_ACTION"  -> "WAIT_FOR_ACTION"
                 [] dcState = "WAIT_FOR_ACTION" -> IF BusActionDone THEN "SIGNAL_DONE"
                                                   ELSE "WAIT_FOR_ACTION"
                 [] dcState = "SIGNAL_DONE"     -> "IDLE"

Noop ==
    /\ dcBus = "NOOP"
    /\ dcBus' = IF dcState = "REQUEST_ACTION" THEN "REQUEST_BUS" ELSE "NOOP"
    /\ UNCHANGED <<dcBusError, dcFetched>>

RequestBus(granted) ==
    /\ dcBus = "REQUEST_BUS"
    /\ dcBus' = IF granted THEN "INIT_TRANSACTION" ELSE "REQUEST_BUS"
    /\ dcBusError' = FALSE
    /\ UNCHANGED dcFetched

InitTransaction ==
    /\ dcBus = "INIT_TRANSACTION"
    /\ dcBus' = IF dcOp.kind = "load" THEN "WAIT_READ" ELSE "DO_WRITE"
    /\ UNCHANGED <<dcBusError, dcFetched>>

WaitRead(busErrorIn, endIn, dataValidIn, dataIn) ==
    /\ dcBus = "WAIT_READ"
    /\ dcBus' = IF busErrorIn THEN "BUS_ERROR"
                ELSE IF endIn THEN "SIG_DONE" ELSE "WAIT_READ"
    /\ dcFetched' = IF dataValidIn THEN dataIn ELSE dcFetched
    /\ UNCHANGED dcBusError

DoWrite(busErrorIn, busyIn) ==
    /\ dcBus = "DO_WRITE"
    /\ dcBus' = IF busErrorIn THEN "BUS_ERROR"
                ELSE IF busyIn THEN "DO_WRITE" ELSE "END_WRITE"
    /\ UNCHANGED <<dcBusError, dcFetched>>

EndTransfer ==
    /\ dcBus \in {"END_WRITE", "BUS_ERROR"}
    /\ dcBus' = "SIG_DONE"
    /\ dcBusError' = (dcBusError \/ dcBus = "BUS_ERROR")
    /\ UNCHANGED dcFetched

SigDone ==
    /\ dcBus = "SIG_DONE"
    /\ dcBus' = "NOOP"
    /\ UNCHANGED <<dcBusError, dcFetched>>

BusMachine(granted, busErrorIn, busyIn, endIn, dataValidIn, dataIn) ==
    \/ Noop
    \/ RequestBus(granted)
    \/ InitTransaction
    \/ WaitRead(busErrorIn, endIn, dataValidIn, dataIn)
    \/ DoWrite(busErrorIn, busyIn)
    \/ EndTransfer
    \/ SigDone

DcClock(iCacheStall, nextOp, granted, busErrorIn, busyIn, endIn, dataValidIn, dataIn) ==
    /\ StallRegisters(iCacheStall, nextOp)
    /\ StateMachine
    /\ BusMachine(granted, busErrorIn, busyIn, endIn, dataValidIn, dataIn)

\* After reset; the two registers that reset leaves alone hold anything.
DcInit ==
    /\ exeOp = NoOp /\ dcOp = NoOp
    /\ dcStall = FALSE /\ dcCacheError = FALSE
    /\ dcState = "IDLE" /\ dcBus = "NOOP"
    /\ dcBusError \in BOOLEAN
    /\ dcFetched \in Data

DcNext ==
    \E iCacheStall, granted, busErrorIn, busyIn, endIn, dataValidIn \in BOOLEAN,
       nextOp \in Ops, dataIn \in Data :
        DcClock(iCacheStall, nextOp, granted, busErrorIn, busyIn, endIn, dataValidIn, dataIn)

DcSpec == DcInit /\ [][DcNext]_dcVars
=============================================================================
