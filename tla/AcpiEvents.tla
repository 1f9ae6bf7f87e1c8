----------------------------- MODULE AcpiEvents -----------------------------
(***************************************************************************)
(* The power button: ACPI::Setup(), up to its call of madt_setup(), and    *)
(* acpi_event() of base/other/acpi.cpp with what they call in LAI          *)
(* (lai_start_pm_timer(), lai_enable_acpi(), lai_busy_wait_pm_timer(),     *)
(* lai_enter_sleep()), the fixed event registers and the power management  *)
(* timer of the chipset, and the system control interrupt (SCI) through    *)
(* which both meet.                                                        *)
(*                                                                         *)
(* The event registers are a status and an enable register of one bit per  *)
(* event: the chipset sets status bits, a write clears the bits that it    *)
(* holds as ones.  In ACPI mode the SCI line is active as long as an       *)
(* enabled status bit is set.  Setup() runs with interrupts enabled, so    *)
(* acpi_event() comes between any two of its accesses to a register.  The  *)
(* chipset has one event block and the firmware hands over in legacy mode; *)
(* the evaluation of AML is a step that leaves the registers alone.        *)
(***************************************************************************)
EXTENDS Naturals, FiniteSets

CONSTANTS
    MaxPolls,   \* how often lai_enable_acpi() looks for ACPI mode
    Top,        \* the highest value of the timer: 2^24 - 1, or 2^32 - 1
    Ticks,      \* how many ticks of the timer laihost_sleep(10) waits: 35800
    Machines    \* what machines differ in, see Machine

ACPI_TIMER == "TMR"
ACPI_POWER_BUTTON == "PWRBTN"
ACPI_SLEEP_BUTTON == "SLPBTN"
ACPI_WAKE == "WAK"
Events == {ACPI_TIMER, ACPI_POWER_BUTTON, ACPI_SLEEP_BUTTON, ACPI_WAKE}

(***************************************************************************)
(* bit9: whether bit 9 of the number of the event port, fadt->             *)
(* PM1aEventBlock, is set (0x600 has it, 0x400 has not); timer: the width  *)
(* of the power management timer, if there is one; s5: whether the tables  *)
(* describe the state S5.                                                  *)
(***************************************************************************)
Machine == [bit9 : BOOLEAN, timer : {"none", "24", "32"}, s5 : BOOLEAN]

ASSUME MachinesAssumption == Machines \subseteq Machine
ASSUME MaxPollsAssumption == MaxPolls \in Nat \ {0}
ASSUME TimerAssumption == Top \in Nat /\ Ticks \in Nat

VARIABLES
    machine,    \* the machine
    pc,         \* where the kernel stands in Setup()
    a,          \* the status that lai_get_sci_event() has read
    polls,      \* how often the kernel has looked for ACPI mode
    stub,       \* whether acpi_event() is installed
    timer,      \* the power management timer, while the kernel reads it
    goal,       \* the value that the kernel waits for
    status, enable,     \* the event registers
    acpi_mode,  \* SCI_EN: events cause the SCI
    smi,        \* whether the firmware was asked for ACPI mode and has not answered
    late,       \* whether the CPU may still execute an instruction before the SCI
    pressed,    \* whether the power button was pressed: never, early or armed, see Pressed
    off         \* whether the machine is off

kernel == <<pc, a, polls, stub>>
chipset == <<status, enable, acpi_mode, smi>>
clock == <<timer, goal>>
vars == <<machine, kernel, chipset, clock, late, pressed, off>>

Labels == {"stub", "timer", "timer_read", "timer_clear", "timer_enable",
           "request", "sleep", "wait", "poll", "enable", "read", "clear", "done"}

Init ==
    /\ machine \in Machines
    /\ pc = "stub" /\ a = {} /\ polls = 0 /\ stub = FALSE
    /\ status \in SUBSET {ACPI_TIMER, ACPI_POWER_BUTTON}
    /\ enable = {} /\ acpi_mode = FALSE /\ smi = FALSE
    /\ late = FALSE /\ timer = 0 /\ goal = 0
    /\ pressed = IF ACPI_POWER_BUTTON \in status THEN "early" ELSE "never"
    /\ off = FALSE

Sci == acpi_mode /\ status \cap enable # {}

-----------------------------------------------------------------------------
(* The chipset and the firmware.                                           *)

\* The line that becomes active is seen by the CPU after the instruction it executes.
Line == late' = (Sci' /\ ~Sci)

\* Presses that cause an SCI, and those that come too early for it or coincide with one
\* that is still in the status register.
Pressed ==
    IF acpi_mode /\ ACPI_POWER_BUTTON \in enable \ status THEN "armed"
    ELSE IF pressed = "never" THEN "early" ELSE pressed

\* The timer wraps, someone presses a button.
Event(e) ==
    /\ ~off
    /\ e \in {ACPI_POWER_BUTTON, ACPI_SLEEP_BUTTON} \/ (e = ACPI_TIMER /\ machine.timer # "none")
    /\ status' = status \cup {e}
    /\ pressed' = IF e = ACPI_POWER_BUTTON THEN Pressed ELSE pressed
    /\ UNCHANGED <<machine, kernel, clock, enable, acpi_mode, smi, off>>
    /\ IF Sci THEN UNCHANGED late ELSE Line

\* The firmware hands the events over.
Firmware ==
    /\ ~off /\ smi
    /\ smi' = FALSE /\ acpi_mode' = TRUE
    /\ UNCHANGED <<machine, kernel, clock, status, enable, pressed, off>>
    /\ Line

\* The timer counts, and begins again behind Top.
Tick ==
    /\ ~off /\ pc = "wait"
    /\ timer' = IF timer = Top THEN 0 ELSE timer + 1
    /\ UNCHANGED <<machine, kernel, chipset, goal, late, pressed, off>>

-----------------------------------------------------------------------------
(***************************************************************************)
(* irq_handler() on the SCI: acpi_event(), and the end of the interrupt.   *)
(* It tests the number of the port and not its content, and powers the     *)
(* machine off, or returns without having touched the status: the line     *)
(* stays active and the CPU takes the next SCI at once.                    *)
(***************************************************************************)
lai_enter_sleep == machine.s5

acpi_event == off' = (machine.bit9 /\ lai_enter_sleep)

irq_handler ==
    /\ ~off /\ Sci
    /\ IF stub THEN acpi_event ELSE UNCHANGED off
    /\ late' = FALSE
    /\ UNCHANGED <<machine, kernel, chipset, clock, pressed>>

-----------------------------------------------------------------------------
(* ACPI::Setup(), at most one access to a register in a step.              *)

\* The CPU takes an SCI before the next instruction, but for the one it executes already.
Runs == ~off /\ (Sci => late)

Goto(l, m) == Runs /\ pc = l /\ pc' = m

SetStub ==
    /\ Goto("stub", "timer")
    /\ stub' = TRUE
    /\ UNCHANGED <<a, polls, chipset>>

lai_start_pm_timer ==
    /\ IF machine.timer # "none"
       THEN Goto("timer", "timer_read") ELSE Goto("timer", "request")
    /\ UNCHANGED <<a, polls, stub, chipset>>

\* lai_get_sci_event(): the status is read, and the same bits are written to clear them.
ReadEvents(l, m) ==
    /\ Goto(l, m)
    /\ a' = status
    /\ UNCHANGED <<polls, stub, chipset>>

\* Variant: all events are cleared.
ClearEvents_All(l, m) ==
    /\ Goto(l, m)
    /\ status' = {}
    /\ UNCHANGED <<a, polls, stub, enable, acpi_mode, smi>>
ClearEvents(l, m) ==
    /\ Goto(l, m)
    /\ status' = status \ a
    /\ UNCHANGED <<a, polls, stub, enable, acpi_mode, smi>>

lai_set_sci_event(l, m, value) ==
    /\ Goto(l, m)
    /\ enable' = value
    /\ UNCHANGED <<a, polls, stub, status, acpi_mode, smi>>

\* lai_enable_acpi(): after _INI and _PIC the firmware is asked for ACPI mode, and the
\* kernel sleeps, as it does after every look that was in vain.
RequestAcpi ==
    /\ Goto("request", "sleep")
    /\ smi' = TRUE
    /\ UNCHANGED <<a, polls, stub, status, enable, acpi_mode>>

\* Variant: one poll more.
Poll_OneMore ==
    /\ IF acpi_mode \/ polls = MaxPolls + 1
       THEN Goto("poll", "enable") /\ UNCHANGED polls
       ELSE Goto("poll", "sleep") /\ polls' = polls + 1
    /\ UNCHANGED <<a, stub, chipset>>
\* The kernel looks for ACPI mode a number of times, and goes on without it.
Poll ==
    /\ IF acpi_mode \/ polls = MaxPolls
       THEN Goto("poll", "enable") /\ UNCHANGED polls
       ELSE Goto("poll", "sleep") /\ polls' = polls + 1
    /\ UNCHANGED <<a, stub, chipset>>

(***************************************************************************)
(* laihost_sleep(10), which is lai_busy_wait_pm_timer(10): it returns at   *)
(* once without a timer, and where a timer of 24 bits would have to begin  *)
(* again.  The goal of a timer of 32 bits is taken modulo 2^32, so there   *)
(* the wait ends with the first read.  The timer may have any value when   *)
(* it is read first, and is followed from there.                           *)
(***************************************************************************)
Goal(t) == IF machine.timer = "32" /\ t + Ticks > Top THEN t + Ticks - Top - 1 ELSE t + Ticks

SleepNot ==
    /\ Goto("sleep", "poll")
    /\ machine.timer = "none" \/ \E t \in 0 .. Top : Goal(t) > Top
    /\ UNCHANGED <<a, polls, stub, chipset, clock>>

\* Variant: the end of a timer of 24 bits is not looked at.
Sleep_NoCheck ==
    /\ Goto("sleep", "wait")
    /\ machine.timer # "none"
    /\ \E t \in 0 .. Top : timer' = t /\ goal' = Goal(t)
    /\ UNCHANGED <<a, polls, stub, chipset>>
Sleep ==
    /\ Goto("sleep", "wait")
    /\ machine.timer # "none"
    /\ \E t \in 0 .. Top : Goal(t) <= Top /\ timer' = t /\ goal' = Goal(t)
    /\ UNCHANGED <<a, polls, stub, chipset>>

\* "while (lai_read_pm_timer_value() < goal)".
Wait ==
    /\ Goto("wait", "wait") /\ timer < goal
    /\ UNCHANGED <<a, polls, stub, chipset, clock>>

Awake ==
    /\ Goto("wait", "poll") /\ timer >= goal
    /\ timer' = 0 /\ goal' = 0
    /\ UNCHANGED <<a, polls, stub, chipset>>

\* lai_start_pm_timer() enables the events whose status it has read.
Registers ==
    \/ SetStub
    \/ lai_start_pm_timer
    \/ ReadEvents("timer_read", "timer_clear")
    \/ ClearEvents("timer_clear", "timer_enable")
    \/ lai_set_sci_event("timer_enable", "request", a \cup {ACPI_TIMER})
    \/ RequestAcpi
    \/ Poll
    \/ lai_set_sci_event("enable", "read", {ACPI_POWER_BUTTON, ACPI_SLEEP_BUTTON, ACPI_WAKE})
    \/ ReadEvents("read", "clear")
    \/ ClearEvents("clear", "done")

Setup ==
    /\ \/ Registers /\ UNCHANGED clock
       \/ SleepNot \/ Sleep \/ Wait \/ Awake
    /\ UNCHANGED <<machine, pressed, off>>
    /\ Line

-----------------------------------------------------------------------------
Next ==
    \/ \E e \in Events : Event(e)
    \/ Firmware
    \/ Tick
    \/ irq_handler
    \/ Setup

Spec == Init /\ [][Next]_vars

(***************************************************************************)
(* The CPU executes instructions and takes interrupts, and the timer       *)
(* counts.  Nothing is assumed of the firmware, which may never answer,    *)
(* nor of the events.  A wait whose goal is close to Top ends only if a    *)
(* read meets the few values from there on before the timer begins again:  *)
(* it does at some time, since reads and ticks are not in step.            *)
(***************************************************************************)
Fairness ==
    /\ WF_vars(Setup) /\ WF_vars(irq_handler) /\ WF_vars(Tick)
    /\ SF_vars(Setup /\ Awake)
FairSpec == Spec /\ Fairness

-----------------------------------------------------------------------------
(* Properties                                                              *)

TypeOK ==
    /\ machine \in Machines
    /\ pc \in Labels
    /\ a \subseteq Events /\ status \subseteq Events /\ enable \subseteq Events
    /\ polls \in 0 .. MaxPolls
    /\ timer \in 0 .. Top /\ goal \in 0 .. Top + Ticks
    /\ {stub, acpi_mode, smi, late, off} \subseteq BOOLEAN
    /\ pressed \in {"never", "early", "armed"}

\* On a machine on which acpi_event() can switch off, it does so for every press of the
\* power button that comes when the event is enabled, at whatever point of the start-up:
\* clearing old events at its end (lai_get_sci_event()) loses no new one.
PressSwitchesOff == machine.bit9 /\ machine.s5 /\ pressed = "armed" ~> off

\* On such a machine lai_enable_acpi() ends, whether the firmware answers or not, whatever
\* events occur and wherever the timer stands when the kernel begins to wait for it.  (On
\* the others the first event of any kind keeps the kernel in irq_handler() for good.)
SetupEnds == machine.bit9 /\ machine.s5 ~> pc = "done" \/ off

\* acpi_event() reports a pressed power button, and powers off, only if it was pressed.
OffOnlyWhenPressed == off => pressed # "never"
=============================================================================
