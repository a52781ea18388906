----------------------------- MODULE FrameMemory -----------------------------
(***************************************************************************)
(* The memory as the masters of the bus see it (the bus side of            *)
(* modules/sdram/verilog/sdram.v): it answers a read with its words in     *)
(* order and then ends the transaction, and keeps a writer busy until the  *)
(* word on the bus is stored.  How long each word takes is open.           *)
(***************************************************************************)
EXTENDS Integers

CONSTANTS MaxPause  \* clocks that a word may take

VARIABLES
    fmActive,   \* s_transactionActiveReg
    fmOp,       \* s_busAddressReg, s_readNotWriteReg, s_burstSizeReg
    fmLeft,     \* words that are still to be read
    fmNext,     \* the address of the next word
    fmValid,    \* dataValidOut
    fmWord,     \* addressDataOut
    fmEnd,      \* endTransactionOut
    fmDone,     \* s_writeDoneReg
    fmPause     \* clocks since the last progress

fmVars == <<fmActive, fmOp, fmLeft, fmNext, fmValid, fmWord, fmEnd, fmDone, fmPause>>

NoAccess == [mine |-> FALSE, read |-> TRUE, address |-> 0, words |-> 1]

FmMine == fmActive /\ fmOp.mine

FmBusy(valid) == FmMine /\ ~fmOp.read /\ ~fmDone /\ valid

FmTransaction(begin, end, op) ==
    /\ fmActive' = (~end /\ (begin \/ fmActive))
    /\ fmOp' = IF begin THEN op ELSE IF end THEN NoAccess ELSE fmOp
    /\ fmLeft' = IF begin /\ op.mine /\ op.read THEN op.words
                 ELSE IF begin \/ end THEN 0
                 ELSE IF fmValid' THEN fmLeft - 1 ELSE fmLeft
    /\ fmNext' = IF begin THEN op.address ELSE IF end THEN 0
                 ELSE IF fmValid' \/ fmDone' THEN fmNext + 1 ELSE fmNext

\* Mutant: a word may take for ever.
FmPausesForEver ==
    /\ fmValid' = FALSE /\ fmWord' = -1 /\ fmEnd' = FALSE /\ fmDone' = FALSE
    /\ fmPause' = (fmPause + 1) % (MaxPause + 1)

\* Nothing happens in this clock, but not for ever.
FmPauses ==
    /\ fmPause < MaxPause
    /\ fmValid' = FALSE /\ fmWord' = -1 /\ fmEnd' = FALSE /\ fmDone' = FALSE
    /\ fmPause' = fmPause + 1

FmReads(error) ==
    /\ FmMine /\ fmOp.read /\ ~error /\ ~fmEnd
    /\ fmDone' = FALSE
    /\ \/ /\ fmLeft > 0
          /\ fmValid' = TRUE /\ fmWord' = fmNext
          /\ fmEnd' \in IF fmLeft = 1 THEN BOOLEAN ELSE {FALSE}
          /\ fmPause' = 0
       \/ /\ fmLeft = 0
          /\ fmValid' = FALSE /\ fmWord' = -1 /\ fmEnd' = TRUE
          /\ fmPause' = 0
       \/ FmPauses

\* A word is stored while it is kept on the bus.
FmWrites(valid, error) ==
    /\ FmMine /\ ~fmOp.read /\ ~error /\ ~fmEnd
    /\ fmValid' = FALSE /\ fmWord' = -1 /\ fmEnd' = FALSE
    /\ \/ FmBusy(valid) /\ fmDone' = TRUE /\ fmPause' = 0
       \/ FmBusy(valid) /\ FmPauses
       \/ ~FmBusy(valid) /\ fmDone' = FALSE /\ fmPause' = 0

\* A transaction that fails is ended by the memory, the end of a
\* transaction of its own was just given, or it has none.
FmRests(error) ==
    /\ ~FmMine \/ error \/ fmEnd
    /\ fmValid' = FALSE /\ fmWord' = -1 /\ fmDone' = FALSE /\ fmPause' = 0
    /\ fmEnd' = (FmMine /\ error)

FmClock(begin, end, valid, error, op) ==
    /\ FmReads(error) \/ FmWrites(valid, error) \/ FmRests(error)
    /\ FmTransaction(begin, end, op)

FmInit ==
    /\ fmActive = FALSE /\ fmOp = NoAccess /\ fmLeft = 0 /\ fmNext = 0
    /\ fmValid = FALSE /\ fmWord = -1 /\ fmEnd = FALSE /\ fmDone = FALSE /\ fmPause = 0
=============================================================================
