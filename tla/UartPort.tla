------------------------------ MODULE UartPort ------------------------------
(***************************************************************************)
(* The bus side of the UART (modules/uart/verilog/uartBus.v, lines 30-86): *)
(* single words only, and a store must enable exactly the byte lane of its *)
(* address.  A read answers with one word and its own end.                 *)
(***************************************************************************)
EXTENDS Integers

VARIABLES
    urState,     \* s_readStateReg
    urStart,     \* s_startTransactionReg
    urActive,    \* s_transactionActiveReg
    urWrite,     \* s_dataInValidReg: a register is written in this clock
    urData,      \* s_dataOutReg, or urNoWord when s_dataOutValidReg is low
    urEnd,       \* endTransactionOut
    urError      \* busErrorOut

urVars == <<urState, urStart, urActive, urWrite, urData, urEnd, urError>>

urNoWord == -1

UrStates == {"IDLE", "WAIT", "END"}

UrMyTransaction(latched) == urActive /\ latched.slave = "uart"

UrIsBusError(latched) ==
    /\ UrMyTransaction(latched)
    /\ latched.words # 1 \/ (~latched.read /\ latched.whole)

\* s_writeDataOutValue: the register is read in this clock.
UrRead(latched) ==
    urState = "IDLE" /\ urStart /\ UrMyTransaction(latched) /\ latched.read

UrReadMachine(busy, latched) ==
    urState' = CASE urState = "IDLE" -> IF UrRead(latched) THEN "WAIT" ELSE "IDLE"
                 [] urState = "WAIT" -> IF busy THEN "WAIT" ELSE "END"
                 [] urState = "END"  -> "IDLE"

\* Mutant: a refused store writes the register all the same.
UrRegistersWriteAll(begin, end, dataValid, busy, latched) ==
    /\ urStart' = begin
    /\ urActive' = (~end /\ (begin \/ urActive))
    /\ urWrite' = (dataValid /\ UrMyTransaction(latched) /\ ~latched.read)
    /\ urData' = IF urState = "WAIT" /\ ~busy THEN urNoWord
                 ELSE IF UrRead(latched) THEN latched.from ELSE urData
    /\ urEnd' = (urState = "END")
    /\ urError' = (~end /\ UrIsBusError(latched))

UrRegisters(begin, end, dataValid, busy, latched) ==
    /\ urStart' = begin
    /\ urActive' = (~end /\ (begin \/ urActive))
    /\ urWrite' = (dataValid /\ UrMyTransaction(latched)
                             /\ ~UrIsBusError(latched) /\ ~latched.read)
    /\ urData' = IF urState = "WAIT" /\ ~busy THEN urNoWord
                 ELSE IF UrRead(latched) THEN latched.from ELSE urData
    /\ urEnd' = (urState = "END")
    /\ urError' = (~end /\ UrIsBusError(latched))

UrClock(begin, end, dataValid, busy, latched) ==
    /\ UrReadMachine(busy, latched)
    /\ UrRegisters(begin, end, dataValid, busy, latched)

UrInit ==
    /\ urState = "IDLE" /\ urStart = FALSE /\ urActive = FALSE /\ urWrite = FALSE
    /\ urData = urNoWord /\ urEnd = FALSE /\ urError = FALSE
=============================================================================
