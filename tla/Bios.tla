-------------------------------- MODULE Bios --------------------------------
(***************************************************************************)
(* The boot ROM on the system bus (modules/bios/verilog/bios.v).  The       *)
(* begin, end, ... wires of the bus are parameters; `latched' is what the  *)
(* registers of a slave keep of the last begin of a transaction.           *)
(***************************************************************************)
EXTENDS Integers

VARIABLES
    bsState,       \* s_stateMachineReg
    bsActive,      \* s_transactionActiveReg
    bsEndSeen,     \* s_endTransactionReg
    bsCount,       \* s_burstCountReg, as a signed number
    bsAddress,     \* s_RomAddressReg
    bsError,       \* busErrorOut
    bsEnd,         \* endTransactionOut
    bsData         \* addressDataOut, or bsNoWord when dataValidOut is low

bsVars == <<bsState, bsActive, bsEndSeen, bsCount, bsAddress, bsError, bsEnd, bsData>>

bsNoWord == -1

BsStates == {"IDLE", "INTERPRET", "BURST", "ENDTRANSACTION", "BUSERROR"}

BsMyBurst(latched) == bsActive /\ latched.slave = "bios"

BsOutputs(end) ==
    /\ bsError' = (bsState = "BUSERROR" /\ ~end)
    /\ bsEnd' = (bsState = "ENDTRANSACTION")
    /\ bsData' = IF bsState = "BURST" /\ ~end THEN bsAddress ELSE bsNoWord

\* The count is one less than the burst size on the bus, and that is one
\* less than the number of words.
BsCounters(begin, end, latched) ==
    /\ bsEndSeen' = end
    /\ bsActive' = (~bsEndSeen /\ (begin \/ bsActive))
    /\ CASE bsState = "INTERPRET" /\ BsMyBurst(latched) ->
                bsCount' = latched.words - 2 /\ bsAddress' = latched.from
         [] bsState = "BURST" -> bsCount' = bsCount - 1 /\ bsAddress' = bsAddress + 1
         [] bsState = "IDLE" -> bsCount' = -1 /\ UNCHANGED bsAddress
         [] OTHER -> UNCHANGED <<bsCount, bsAddress>>

BsIdle(begin) ==
    /\ bsState = "IDLE"
    /\ bsState' = IF begin THEN "INTERPRET" ELSE "IDLE"

\* A burst from an address that is not aligned is refused as well; no master
\* asks for one.
BsInterpret(latched) ==
    /\ bsState = "INTERPRET"
    /\ bsState' = IF ~BsMyBurst(latched) THEN "IDLE"
                  ELSE IF latched.read THEN "BURST" ELSE "BUSERROR"

BsBurst(end) ==
    /\ bsState = "BURST"
    /\ bsState' = IF end THEN "IDLE" ELSE IF bsCount < 0 THEN "ENDTRANSACTION" ELSE "BURST"

BsBusError(end) ==
    /\ bsState = "BUSERROR"
    /\ bsState' = IF end THEN "IDLE" ELSE "BUSERROR"

BsEndTransaction ==
    /\ bsState = "ENDTRANSACTION"
    /\ bsState' = "IDLE"

BsClock(begin, end, latched) ==
    /\ BsIdle(begin) \/ BsInterpret(latched) \/ BsBurst(end) \/ BsBusError(end) \/ BsEndTransaction
    /\ BsCounters(begin, end, latched)
    /\ BsOutputs(end)

\* After reset; the address register that reset leaves alone is not read
\* before it is loaded.
BsInit ==
    /\ bsState = "IDLE" /\ bsActive = FALSE /\ bsEndSeen = FALSE
    /\ bsCount = -1 /\ bsAddress = 0
    /\ bsError = FALSE /\ bsEnd = FALSE /\ bsData = bsNoWord
=============================================================================
