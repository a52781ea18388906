------------------------------ MODULE Registers ------------------------------
(***************************************************************************)
(* The special purpose registers that the support library controls: the    *)
(* caches (cache.h), the tick timer (tickTimer.h) and the counters of the  *)
(* profiling module (perf.c, perf.h), which count while the program runs.  *)
(***************************************************************************)
EXTENDS Integers

CONSTANTS
    Half,           \* a counter has two words below this number (2^32)
    MaxCount,       \* bound: how far the counter runs
    Identities,     \* the low byte of SPR 9: how many processors there are, and which this is
    Frequencies,    \* what a millisecond's measurement of the clock yields, in kHz
    Durations       \* the numbers of cycles that are converted to times

ASSUME RegistersAssumption ==
    /\ Half \in Nat \ {0} /\ Identities \subseteq 0 .. 255
    /\ Frequencies \subseteq Nat \ {0} /\ Durations \subseteq Nat

VARIABLES
    rgSupervisor,   \* the bits of SPR 17 that are set
    rgAsked,        \* history: what the program asked for, and that it switched the tick off
    rgInfo,         \* SPR 9: its low byte, and the clock above it, 0 until it is measured
    rgStarted,      \* the monitor has started the program
    cpu_freq,       \* the variable of perf.c
    rgTime,         \* history: perf_init returned, and the last conversion
    rgCounter,      \* the counter, and whether it runs
    rgRead          \* perf_read_counter: the low word, the result, the counter at each half

rgVars == <<rgSupervisor, rgAsked, rgInfo, rgStarted, cpu_freq, rgTime, rgCounter, rgRead>>

SupervisorBit == 0      \* of the OpenRISC supervision register
TickBit == 1            \* TICK_TIMER_EXCEPTION_BIT
DcacheBit == 3          \* CACHE_DCACHE_SHIFT
IcacheBit == 4          \* CACHE_ICACHE_SHIFT

NoTime == [ready |-> FALSE, cycles |-> 0, khz |-> 0, h |-> 0, m |-> 0, s |-> 0, ms |-> 0]
NotRead == [at |-> "none", low |-> 0, value |-> 0, first |-> 0, last |-> 0]

RgInit ==
    /\ rgSupervisor = {SupervisorBit}
    /\ rgAsked = [icache |-> FALSE, dcache |-> FALSE, tick |-> FALSE, off |-> FALSE]
    /\ \E low \in Identities : rgInfo = [low |-> low, khz |-> 0]
    /\ rgStarted = FALSE /\ cpu_freq = 0 /\ rgTime = NoTime
    /\ rgCounter = [value |-> 0, runs |-> FALSE] /\ rgRead = NotRead

Set(bits, bit, enable) == IF enable THEN bits \cup {bit} ELSE bits \ {bit}

-----------------------------------------------------------------------------
(* The caches and the tick timer.                                          *)

icache_enable(enable) ==
    /\ rgSupervisor' = Set(rgSupervisor, IcacheBit, enable)
    /\ rgAsked' = [rgAsked EXCEPT !.icache = enable]
dcache_enable(enable) ==
    /\ rgSupervisor' = Set(rgSupervisor, DcacheBit, enable)
    /\ rgAsked' = [rgAsked EXCEPT !.dcache = enable]

\* Mutant: the bit is shifted one place too far.
WithoutTickFar(bits) == bits \ {0, 1, 2, 3}

\* ~1<<1 is (~1)<<1: it clears bit 0 with bit 1.
WithoutTick(bits) == bits \ {0, TickBit}

enableTickTimerIrq(enable) ==
    /\ rgSupervisor' = IF enable THEN rgSupervisor \cup {TickBit} ELSE WithoutTick(rgSupervisor)
    /\ rgAsked' = [rgAsked EXCEPT !.tick = enable, !.off = @ \/ ~enable]

RgControl ==
    /\ rgStarted
    /\ \E enable \in BOOLEAN :
        icache_enable(enable) \/ dcache_enable(enable) \/ enableTickTimerIrq(enable)
    /\ UNCHANGED <<rgInfo, rgStarted, cpu_freq, rgTime, rgCounter, rgRead>>

-----------------------------------------------------------------------------
(* Times.                                                                  *)

\* s_procFreqIdReg, every millisecond.
RgMeasured ==
    /\ \E khz \in Frequencies : rgInfo' = [rgInfo EXCEPT !.khz = khz]
    /\ UNCHANGED <<rgSupervisor, rgAsked, rgStarted, cpu_freq, rgTime, rgCounter, rgRead>>

\* The monitor waits for the upper 24 bits before it starts a program.
RgProgramStarts ==
    /\ ~rgStarted /\ rgInfo.khz # 0 /\ rgStarted' = TRUE
    /\ UNCHANGED <<rgSupervisor, rgAsked, rgInfo, cpu_freq, rgTime, rgCounter, rgRead>>

\* What perf_cpu_freq waits for is in the lower 24 bits: the low byte and four
\* of the six digits.
LowerBits == rgInfo.low + 256 * (rgInfo.khz % 10000)

\* perf_init, with perf_cpu_freq.
perf_init ==
    /\ rgStarted /\ LowerBits # 0
    /\ cpu_freq' = rgInfo.khz
    /\ rgTime' = [rgTime EXCEPT !.ready = TRUE]
    /\ UNCHANGED <<rgSupervisor, rgAsked, rgInfo, rgStarted, rgCounter, rgRead>>

\* Sixty seconds, and sixty minutes, are not carried.
Split(s, m) ==
    [h |-> IF m > 60 THEN m \div 60 ELSE 0,
     m |-> IF m > 60 THEN m % 60 ELSE m, s |-> IF s > 60 THEN s % 60 ELSE s]

perf_cycles_to_time(cycles) ==
    LET runtime == cycles \div cpu_freq
        seconds == runtime \div 1000
        split   == Split(seconds, IF seconds > 60 THEN seconds \div 60 ELSE 0)
    IN  /\ cpu_freq # 0     \* die_if_not
        /\ rgTime' = [ready |-> rgTime.ready, cycles |-> cycles, khz |-> cpu_freq,
                      h |-> split.h, m |-> split.m, s |-> split.s, ms |-> runtime % 1000]
        /\ UNCHANGED <<rgSupervisor, rgAsked, rgInfo, rgStarted, cpu_freq, rgCounter, rgRead>>

-----------------------------------------------------------------------------
(* The counters.                                                           *)

perf_start == rgCounter' = [rgCounter EXCEPT !.runs = TRUE] /\ UNCHANGED rgRead
perf_stop == rgCounter' = [rgCounter EXCEPT !.runs = FALSE] /\ UNCHANGED rgRead

RgCount ==
    /\ rgCounter.runs /\ rgCounter.value < MaxCount
    /\ rgCounter' = [rgCounter EXCEPT !.value = @ + 1]
    /\ UNCHANGED rgRead

\* perf_read_counter: the low word, then the high word.
RgReadLow ==
    /\ rgRead.at # "high"
    /\ rgRead' = [at |-> "high", low |-> rgCounter.value % Half, value |-> 0,
                  first |-> rgCounter.value, last |-> rgCounter.value]
    /\ UNCHANGED rgCounter

High == rgCounter.value \div Half

RgReadHigh ==
    /\ rgRead.at = "high"
    /\ rgRead' = [rgRead EXCEPT !.at = "done", !.value = rgRead.low + High * Half,
                                !.last = rgCounter.value]
    /\ UNCHANGED rgCounter

RgCounters ==
    /\ rgStarted
    /\ perf_start \/ perf_stop \/ RgCount \/ RgReadLow \/ RgReadHigh
    /\ UNCHANGED <<rgSupervisor, rgAsked, rgInfo, rgStarted, cpu_freq, rgTime>>

RgNext ==
    \/ RgControl \/ RgMeasured \/ RgProgramStarts \/ perf_init
    \/ \E cycles \in Durations : perf_cycles_to_time(cycles)
    \/ RgCounters

RgSpec == RgInit /\ [][RgNext]_rgVars

-----------------------------------------------------------------------------
(* Correctness.                                                            *)

\* Caches and tick interrupt are on exactly when the program asked for it last,
\* in whatever order it called the functions for the others. Bit 0, which nobody
\* asked to change, is lost when the tick interrupt is switched off for the first
\* time, for ever; no other bit moves.
ControlAsAsked ==
    rgSupervisor = (IF rgAsked.off THEN {} ELSE {SupervisorBit})
                     \cup (IF rgAsked.icache THEN {IcacheBit} ELSE {})
                     \cup (IF rgAsked.dcache THEN {DcacheBit} ELSE {})
                     \cup (IF rgAsked.tick THEN {TickBit} ELSE {})

\* The parts of a time add up to the cycles at the clock it was converted with,
\* also where sixty is not carried, and no part is above its sixty.
TimeExact ==
    rgTime.cycles > 0 =>
        /\ ((rgTime.h * 60 + rgTime.m) * 60 + rgTime.s) * 1000 + rgTime.ms
            = rgTime.cycles \div rgTime.khz
        /\ rgTime.s <= 60 /\ rgTime.m <= 60 /\ rgTime.ms < 1000

\* After perf_init the clock is known: perf_init does not wait for it, as the low
\* byte of SPR 9 is not zero, but the monitor did.
ClockKnown == rgTime.ready => cpu_freq # 0

\* A read is exact when the upper word stood still between its halves. Otherwise
\* it is torn: too large, and it may be ahead of the counter, by less than one
\* lower word.
ReadBounded ==
    rgRead.at = "done" =>
        /\ rgRead.first <= rgRead.value /\ rgRead.value < rgRead.last + Half
        /\ rgRead.last \div Half = rgRead.first \div Half => rgRead.value = rgRead.first

\* The bits the program did not ask for, the clock it converts with, its times
\* and its counters are as said above: also bit 0 and the torn read, which the
\* program does not expect.
RegistersAsAsked == ControlAsAsked /\ TimeExact /\ ClockKnown /\ ReadBounded
=============================================================================
