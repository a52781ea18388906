------------------------------ MODULE MultiCpu ------------------------------
(***************************************************************************)
(* The other processors of the OR1300 platform and their exceptions: the   *)
(* first processor gives them a stack and starts them (cpu2.h, cpu3.h), they *)
(* install their handlers (init_cpu2, init_cpu3), and an exception saves   *)
(* the registers on the stack of the program, calls the handler on it and  *)
(* restores them (exception_handler2, exception_handler3, and crt0.s for   *)
(* the first).                                                             *)
(***************************************************************************)
EXTENDS Integers, Sequences

CONSTANTS
    LastRegister,   \* 31 in the code; the last two hold the handler's address
    StackTop,       \* word address of the top of every memory
    Offsets,        \* the distances the programs ask for, in words
    ProgramWords,   \* the most a program has on its stack
    HandlerWords,   \* what a handler, with puts and printf, puts on it
    Raised          \* the exceptions that happen, by their number in SPR 0x12

Numbers == 1 .. 3
Helpers == {2, 3}

\* The order of the exceptions in exception.h, which is their number in SPR 0x12.
ExceptionName ==
    <<"reset", "bus_error", "data_page_fault", "instruction_page_fault", "tick_timer",
      "allignment_exception", "illegal_instruction", "external_interrupt", "dtlb_miss",
      "itlb_miss", "range_exception", "system_call", "break_point", "trap">>
TrapNumber == 13

ASSUME StackAssumption ==
    /\ LastRegister \in Nat \ {0, 1} /\ StackTop \in Nat /\ Offsets \subseteq Nat
    /\ ProgramWords \in Nat /\ HandlerWords \in Nat
ASSUME RaisedAssumption == Raised \subseteq 1 .. Len(ExceptionName) - 1

\* _vectors, and vectors2 and vectors3, which begin with the bus error.
Vectors1 == ExceptionName
Vectors2 ==
    <<"bus_error", "data_page_fault", "instruction_page_fault", "tick_timer",
      "allignment_exception", "illegal_instruction", "external_interrupt", "dtlb_miss",
      "itlb_miss", "range_exception", "system_call", "break_point", "trap">>
Vectors3 == Vectors2
TableOf(c) == <<Vectors1, Vectors2, Vectors3>>[c]

\* Each table is indexed with SPR 0x12; behind its end is anything.
Beyond == "beyond the table"
HandlerFor(c, number) ==
    IF number < Len(TableOf(c)) THEN TableOf(c)[number + 1] ELSE Beyond

VARIABLES
    exStack,    \* SPRs 0x5020..0x5022: the stack each processor starts with
    exStarted,  \* the start bits of SPR 0x5004
    exAt,       \* "bios", "main", "frame", "handler", "beyond" or "corrupt"
    exHandler,  \* the word fetched from the table of handlers
    exBase,     \* history: the stack pointer with which the program began
    exSp,       \* its stack pointer, r1
    exMem,      \* the SDRAM and the scratchpads: whose word it is, and which
    exAsked     \* history: the stack asked for the second, and whether one for the third

exVars == <<exStack, exStarted, exAt, exHandler, exBase, exSp, exMem, exAsked>>

\* A memory is the SDRAM, 0, or the scratchpad of a processor; a place is a
\* word of one.
SdramPlace(word) == [memory |-> 0, word |-> word]
SpmTop(c) == [memory |-> c, word |-> StackTop]
Down(place, words) == [place EXCEPT !.word = @ - words]
Up(place, words) == [place EXCEPT !.word = @ + words]
Places == [memory : {0} \cup Numbers, word : 0 .. StackTop]
NoPlace == [memory |-> 0, word |-> -1]

Saved == 2 .. LastRegister
FrameWords == LastRegister      \* 124 bytes

\* The words on a stack: register k in a frame, a word of the program, a word of
\* a handler, and what is neither.
RegisterWord(c, k) == <<c, k>>
ProgramWord(c) == <<c, 0>>
HandlerWord(c) == <<c, 1>>
Rubbish == <<0, 0>>

Astray == {"beyond", "corrupt"}

ExTypeOK ==
    /\ exStack \in [Numbers -> Places] /\ exStarted \in SUBSET Helpers
    /\ exAt \in [Numbers -> {"bios", "main", "frame", "handler"} \cup Astray]
    /\ exHandler \in [Numbers -> STRING] /\ exBase \in [Numbers -> Places]
    /\ exSp \in [Numbers -> Places] /\ DOMAIN exMem = Places
    /\ exAsked \in [second : Places \cup {NoPlace}, third : BOOLEAN]

\* The first processor runs its program with the stack the monitor gave it.
\* What the stack registers of the others hold until they are written is up to
\* hardware outside the repository: their scratchpad or the SDRAM.
ExInit ==
    /\ exStack \in [Numbers -> Places]
    /\ \A c \in Numbers : exStack[c] \in {SdramPlace(StackTop), SpmTop(c)}
    /\ exStarted = {}
    /\ exAt = [c \in Numbers |-> IF c = 1 THEN "main" ELSE "bios"]
    /\ exHandler = [c \in Numbers |-> ""]
    /\ exBase = [c \in Numbers |-> IF c = 1 THEN exStack[1] ELSE SpmTop(c)]
    /\ exSp = exBase
    /\ exMem = [p \in Places |-> Rubbish]
    /\ exAsked = [second |-> NoPlace, third |-> FALSE]

-----------------------------------------------------------------------------
(* Stacks and starts.                                                      *)

\* The distance counts from the stack of the first processor, when that is in
\* the SDRAM; otherwise the stack is a scratchpad.
NewStack(off) ==
    IF exStack[1].memory = 0 THEN Down(exStack[1], off) ELSE SpmTop(2)

\* set_stack_cpu2(off), whether or not the second processor runs already.
ExSetStack2(off) ==
    /\ exAt[1] = "main"
    /\ exStack[1].memory = 0 => off <= exStack[1].word
    /\ exStack' = [exStack EXCEPT ![2] = NewStack(off)]
    /\ exAsked' = IF exAt[2] = "bios" /\ ~exAsked.third
                  THEN [exAsked EXCEPT !.second = NewStack(off)] ELSE exAsked
    /\ UNCHANGED <<exStarted, exAt, exHandler, exBase, exSp, exMem>>

\* set_stack_cpu3(off) writes SPR 0x5021 too, which is the second processor's.
ExSetStack3(off) ==
    /\ exAt[1] = "main"
    /\ exStack[1].memory = 0 => off <= exStack[1].word
    /\ exStack' = [exStack EXCEPT ![2] = NewStack(off)]
    /\ exAsked' = IF exAt[2] = "bios" THEN [second |-> NoPlace, third |-> TRUE] ELSE exAsked
    /\ UNCHANGED <<exStarted, exAt, exHandler, exBase, exSp, exMem>>

\* START_CPU2 and START_CPU3: the start bits are or-ed into SPR 0x5004.
ExStart2 ==
    /\ exAt[1] = "main" /\ exStarted' = exStarted \cup {2}
    /\ UNCHANGED <<exStack, exAt, exHandler, exBase, exSp, exMem, exAsked>>
ExStart3 ==
    /\ exAt[1] = "main" /\ exStarted' = exStarted \cup {3}
    /\ UNCHANGED <<exStack, exAt, exHandler, exBase, exSp, exMem, exAsked>>

\* The monitor of a started processor jumps to init_cpuN, which loads its stack
\* pointer, installs its handler for all exceptions and calls the program.
ExLeaveBios(c) ==
    /\ exAt[c] = "bios" /\ c \in exStarted
    /\ exAt' = [exAt EXCEPT ![c] = "main"]
    /\ exBase' = [exBase EXCEPT ![c] = exStack[c]] /\ exSp' = [exSp EXCEPT ![c] = exStack[c]]
    /\ UNCHANGED <<exStack, exStarted, exHandler, exMem, exAsked>>

-----------------------------------------------------------------------------
(* Programs: compiled code that keeps words on its stack, with printf and   *)
(* an endless loop when main2 returns. No stack reaches the bottom of its   *)
(* memory.                                                                  *)

ExPush(c) ==
    /\ exAt[c] = "main" /\ exBase[c].word - exSp[c].word < ProgramWords /\ exSp[c].word > 0
    /\ exSp' = [exSp EXCEPT ![c] = Down(@, 1)]
    /\ exMem' = [exMem EXCEPT ![Down(exSp[c], 1)] = ProgramWord(c)]
    /\ UNCHANGED <<exStack, exStarted, exAt, exHandler, exBase, exAsked>>

\* Words below the stack pointer are dead: what of them is still the processor's
\* is forgotten.
Freed(c, words) ==
    [p \in Places |-> IF exMem[p][1] = c /\ p.memory = exSp[c].memory
                            /\ p.word - exSp[c].word \in 0 .. words - 1
                      THEN Rubbish ELSE exMem[p]]

\* A processor that goes on with a wrong word, or at a wrong address: its stack
\* has no meaning any more.
GoAstray(c, how) ==
    /\ exAt' = [exAt EXCEPT ![c] = how]
    /\ exSp' = [exSp EXCEPT ![c] = exBase[c]]
    /\ exMem' = [p \in Places |-> IF exMem[p][1] = c THEN Rubbish ELSE exMem[p]]

\* The program takes a word back.
ExPop(c) ==
    /\ exAt[c] = "main" /\ exSp[c] # exBase[c]
    /\ IF exMem[exSp[c]] = ProgramWord(c)
       THEN exSp' = [exSp EXCEPT ![c] = Up(@, 1)] /\ exMem' = Freed(c, 1) /\ UNCHANGED exAt
       ELSE GoAstray(c, "corrupt")
    /\ UNCHANGED <<exStack, exStarted, exHandler, exBase, exAsked>>

\* A processor that has gone astray may overwrite what it reaches.
ExOverwrite(c) ==
    /\ exAt[c] \in Astray
    /\ \E m \in {0, c} : exMem' = [p \in Places |-> IF p.memory = m THEN Rubbish ELSE exMem[p]]
    /\ UNCHANGED <<exStack, exStarted, exAt, exHandler, exBase, exSp, exAsked>>

-----------------------------------------------------------------------------
(* Exceptions.                                                             *)

\* Mutant: the last registers of the frame share a word.
SlotShort(sp, k) == [sp EXCEPT !.word = @ + (IF k > 2 THEN k - 3 ELSE k - 2)]

\* The frame: register k at 4*(k-2) above the new stack pointer.
Slot(sp, k) == [sp EXCEPT !.word = @ + k - 2]

\* exception_handlerN: it saves the registers below the stack pointer, and
\* fetches the handler.
SaveFrame(c, number) ==
    LET sp == Down(exSp[c], FrameWords) IN
    /\ exSp[c].word >= FrameWords
    /\ exMem' = [p \in Places |->
                    IF \E k \in Saved : Slot(sp, k) = p
                    THEN RegisterWord(c, CHOOSE k \in Saved : Slot(sp, k) = p) ELSE exMem[p]]
    /\ exSp' = [exSp EXCEPT ![c] = sp]
    /\ exHandler' = [exHandler EXCEPT ![c] = HandlerFor(c, number)]
    /\ exAt' = [exAt EXCEPT ![c] = "frame"]
    /\ UNCHANGED <<exStack, exStarted, exBase, exAsked>>

ExException(c, number) == exAt[c] = "main" /\ SaveFrame(c, number)

\* The handler, on the stack below the frame.
ExHandler(c) ==
    /\ exAt[c] = "frame" /\ exHandler[c] # Beyond /\ exSp[c].word >= HandlerWords
    /\ exSp' = [exSp EXCEPT ![c] = Down(@, HandlerWords)]
    /\ exMem' = [p \in Places |->
                    IF p.memory = exSp[c].memory /\ exSp[c].word - p.word \in 1 .. HandlerWords
                    THEN HandlerWord(c) ELSE exMem[p]]
    /\ exAt' = [exAt EXCEPT ![c] = "handler"]
    /\ UNCHANGED <<exStack, exStarted, exHandler, exBase, exAsked>>

\* l.jalr to what is behind the table.
ExJumpAnywhere(c) ==
    /\ exAt[c] = "frame" /\ exHandler[c] = Beyond
    /\ GoAstray(c, "beyond") /\ exHandler' = [exHandler EXCEPT ![c] = ""]
    /\ UNCHANGED <<exStack, exStarted, exBase, exAsked>>

\* The handler of the alignment raises a trap itself, on top of its frame.
ExTrap(c) ==
    /\ exAt[c] = "handler" /\ exHandler[c] = "allignment_exception"
    /\ SaveFrame(c, TrapNumber)

\* What the handler and the program find on the stack when they go on.
FrameIntact(c) ==
    /\ \A p \in Places :
        p.memory = exSp[c].memory /\ p.word - exSp[c].word \in 0 .. HandlerWords - 1
            => exMem[p] = HandlerWord(c)
    /\ \A k \in Saved : exMem[Slot(Up(exSp[c], HandlerWords), k)] = RegisterWord(c, k)

\* The handler returns, the registers are restored; l.rfe. The handler of a trap
\* never returns.
ExReturn(c) ==
    /\ exAt[c] = "handler" /\ exHandler[c] \notin {"trap", "allignment_exception"}
    /\ IF FrameIntact(c)
       THEN /\ exAt' = [exAt EXCEPT ![c] = "main"]
            /\ exSp' = [exSp EXCEPT ![c] = Up(@, FrameWords + HandlerWords)]
            /\ exMem' = Freed(c, FrameWords + HandlerWords)
       ELSE GoAstray(c, "corrupt")
    /\ exHandler' = [exHandler EXCEPT ![c] = ""]
    /\ UNCHANGED <<exStack, exStarted, exBase, exAsked>>

ExStep(c) ==
    \/ ExPush(c) \/ ExPop(c) \/ ExOverwrite(c)
    \/ \E number \in Raised : ExException(c, number)
    \/ ExHandler(c) \/ ExJumpAnywhere(c) \/ ExTrap(c) \/ ExReturn(c)

ExNext ==
    \/ \E off \in Offsets : ExSetStack2(off) \/ ExSetStack3(off)
    \/ ExStart2 \/ ExStart3
    \/ \E c \in Helpers : ExLeaveBios(c)
    \/ \E c \in Numbers : ExStep(c)

ExSpec == ExInit /\ [][ExNext]_exVars

-----------------------------------------------------------------------------
(* Correctness.                                                            *)

\* What a processor needs below the stack it starts with: its program, a frame
\* and a handler, and those of a trap in the handler.
Room == ProgramWords + 2 * FrameWords + 2 * HandlerWords

Running(c) == exAt[c] # "bios"

\* A processor with its stack in its own scratchpad, or in the SDRAM with room
\* to the stacks of all others there, none of which has gone astray.
Undisturbed(c) ==
    \/ exBase[c].memory = c
    \/ \A d \in Numbers \ {c} :
        /\ exAt[d] \notin Astray
        /\ Running(d) /\ exBase[d].memory = 0
            => exBase[c].word - exBase[d].word \notin 1 - Room .. Room - 1

\* A program never goes on with foreign registers or words after exceptions on
\* any processors, as long as its stack is undisturbed; a stack a frame apart is
\* not enough.
ProgramsKept == \A c \in Numbers : Running(c) /\ Undisturbed(c) => exAt[c] # "corrupt"

\* The second processor starts with the stack that was asked for it last, until
\* set_stack_cpu3 is called: that gives the second processor the stack meant for
\* the third, which has to start with what its register held.
StacksAsAsked ==
    Running(2) /\ exAsked.second # NoPlace => exBase[2] = exAsked.second

\* Exceptions of the processors at the same time do not touch each other's
\* programs, whose stacks are where they were asked for.
RegistersSurvive == ProgramsKept /\ StacksAsAsked
=============================================================================
