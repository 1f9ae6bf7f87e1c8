-------------------------- MODULE AcpiEventsProofs --------------------------
(***************************************************************************)
(* Proofs about AcpiEvents, for every set of machines, every number of     *)
(* polls and every timer: the safety that the promise of the power button rests on.  That  *)
(* the line of an armed press is finally served is left to TLC; here a     *)
(* press, once armed, cannot be lost before that.                          *)
(***************************************************************************)
EXTENDS AcpiEvents, TLAPS

\* Where the kernel stands when the firmware may have handed over.
Late == {"sleep", "wait", "poll", "enable", "read", "clear", "done"}

(***************************************************************************)
(* The start-up clears at its end only what it has read before, and a      *)
(* press between the two is armed only when it was not read: the CPU may   *)
(* execute one more instruction after the press, but no more than one.     *)
(***************************************************************************)
Order ==
    /\ pc # "stub" => stub = TRUE
    /\ smi = TRUE => pc \in Late /\ acpi_mode = FALSE
    /\ acpi_mode = TRUE => pc \in Late
    /\ pc = "clear" => a \subseteq status

ArmedHolds ==
    pressed = "armed" =>
      /\ acpi_mode = TRUE
      /\ ACPI_POWER_BUTTON \in enable /\ ACPI_POWER_BUTTON \in status
      /\ pc = "clear" /\ late = TRUE => ACPI_POWER_BUTTON \notin a

EventInv == TypeOK /\ Order /\ ArmedHolds

\* What the proofs use of the names.
LEMMA Names ==
    /\ ACPI_POWER_BUTTON \in Events /\ ACPI_TIMER \in Events
    /\ {ACPI_POWER_BUTTON, ACPI_SLEEP_BUTTON, ACPI_WAKE} \subseteq Events
    /\ ACPI_POWER_BUTTON \in {ACPI_POWER_BUTTON, ACPI_SLEEP_BUTTON, ACPI_WAKE}
  BY DEF Events

\* The active line and the truth of a comparison are truth values.
LEMMA LineType == Line => late' \in BOOLEAN /\ (late' = TRUE => ~Sci)
  BY Zenon DEF Line

-----------------------------------------------------------------------------
\* The machine is switched on; the button may be pressed already.
LEMMA InitInv == Init => EventInv
<1> SUFFICES ASSUME Init PROVE EventInv
  OBVIOUS
<1>1. TypeOK
  <2>1. status \subseteq Events /\ a \subseteq Events /\ enable \subseteq Events
    BY Names DEF Init
  <2>2. polls \in 0 .. MaxPolls /\ pc \in Labels
    BY MaxPollsAssumption DEF Init, Labels
  <2>3. {stub, acpi_mode, smi, late, off} \subseteq BOOLEAN
    BY Zenon DEF Init
  <2>5. timer \in 0 .. Top /\ goal \in 0 .. Top + Ticks
    BY TimerAssumption DEF Init
  <2>4. pressed \in {"never", "early", "armed"}
    BY DEF Init
  <2> QED
    BY <2>1, <2>2, <2>3, <2>4, <2>5 DEF Init, TypeOK
<1>2. Order
  BY DEF Init, Order
<1>3. ArmedHolds
  BY DEF Init, ArmedHolds
<1> QED
  BY <1>1, <1>2, <1>3 DEF EventInv

\* An event sets a status bit, and takes no press back.
LEMMA EventStep ==
  ASSUME EventInv, NEW e \in Events, Event(e)
  PROVE  EventInv'
<1>1. /\ TypeOK /\ Order /\ ArmedHolds
      /\ status' = status \cup {e}
      /\ UNCHANGED <<machine, pc, a, polls, stub, timer, goal, enable, acpi_mode, smi, off>>
  BY DEF EventInv, Event, kernel, clock
<1>2. late' \in BOOLEAN /\ (late' = TRUE => late = TRUE \/ ~Sci)
  BY <1>1, LineType, Zenon DEF Event, TypeOK
<1>3. /\ pressed' \in {"never", "early", "armed"}
      /\ pressed' = "armed" =>
           \/ pressed = "armed"
           \/ /\ e = ACPI_POWER_BUTTON /\ acpi_mode
              /\ ACPI_POWER_BUTTON \in enable \ status
  BY <1>1 DEF Event, Pressed, TypeOK
<1>4. TypeOK'
  BY <1>1, <1>2, <1>3 DEF TypeOK
<1>5. Order'
  BY <1>1 DEF Order
<1>6. ArmedHolds'
  <2> SUFFICES ASSUME pressed' = "armed" PROVE ArmedHolds'
    BY DEF ArmedHolds
  <2>1. CASE pressed = "armed"
    <3>1. Sci
      BY <1>1, <2>1 DEF ArmedHolds, Sci
    <3> QED
      BY <1>1, <1>2, <2>1, <3>1 DEF ArmedHolds
  <2>2. CASE /\ e = ACPI_POWER_BUTTON /\ acpi_mode
             /\ ACPI_POWER_BUTTON \in enable \ status
    <3>1. acpi_mode = TRUE
      BY <1>1, <2>2 DEF TypeOK
    <3> QED
      BY <1>1, <2>2, <3>1 DEF ArmedHolds, Order
  <2> QED
    BY <1>3, <2>1, <2>2
<1> QED
  BY <1>4, <1>5, <1>6 DEF EventInv

\* The firmware hands over once, before any press is armed.
LEMMA FirmwareStep == ASSUME EventInv, Firmware PROVE EventInv'
<1>1. /\ TypeOK /\ Order /\ ArmedHolds
      /\ UNCHANGED <<machine, pc, a, polls, stub, timer, goal, status, enable, pressed, off>>
      /\ smi' = FALSE /\ acpi_mode' = TRUE /\ late' \in BOOLEAN
  BY LineType DEF EventInv, Firmware, kernel, clock
<1>2. smi = TRUE
  BY <1>1 DEF Firmware, TypeOK
<1>3. pressed # "armed"
  BY <1>1, <1>2 DEF Order, ArmedHolds
<1> QED
  BY <1>1, <1>2, <1>3 DEF EventInv, TypeOK, Order, ArmedHolds

\* The handler touches no register of the chipset.
LEMMA HandlerStep == ASSUME EventInv, irq_handler PROVE EventInv'
<1>1. /\ TypeOK /\ Order /\ ArmedHolds
      /\ UNCHANGED <<machine, pc, a, polls, stub, timer, goal, status, enable, acpi_mode, smi, pressed>>
      /\ late' = FALSE
  BY DEF EventInv, irq_handler, kernel, chipset, clock
<1>2. off' \in BOOLEAN
  BY <1>1, Zenon DEF irq_handler, acpi_event, TypeOK
<1> QED
  BY <1>1, <1>2 DEF EventInv, TypeOK, Order, ArmedHolds

\* The timer counts beside the rest.
LEMMA TickStep == ASSUME EventInv, Tick PROVE EventInv'
<1>1. /\ TypeOK /\ Order /\ ArmedHolds
      /\ UNCHANGED <<machine, pc, a, polls, stub, goal, status, enable, acpi_mode, smi,
                     late, pressed, off>>
  BY DEF EventInv, Tick, kernel, chipset
<1>2. timer' \in 0 .. Top
  BY <1>1, TimerAssumption DEF Tick, TypeOK
<1> QED
  BY <1>1, <1>2 DEF EventInv, TypeOK, Order, ArmedHolds

\* Where the timer is read, and what the kernel waits for.
LEMMA GoalType == \A t \in 0 .. Top : Goal(t) \in 0 .. Top + Ticks
  BY TimerAssumption DEF Goal

\* No instruction of the start-up clears the press, or the bit that enables it.
LEMMA SetupStep == ASSUME EventInv, Setup PROVE EventInv'
<1>1. /\ TypeOK /\ Order /\ ArmedHolds
      /\ UNCHANGED <<machine, pressed, off>>
      /\ late' \in BOOLEAN /\ (late' = TRUE => ~Sci)
  BY LineType DEF EventInv, Setup
<1>2. Runs
  BY DEF Setup, Registers, Goto, SetStub, lai_start_pm_timer, ReadEvents, ClearEvents,
     lai_set_sci_event, RequestAcpi, Poll, SleepNot, Sleep, Wait, Awake
<1>3. pressed = "armed" => Sci /\ late = TRUE /\ late' = FALSE
  BY <1>1, <1>2 DEF ArmedHolds, Sci, Runs, TypeOK
<1>4. CASE (SetStub \/ lai_start_pm_timer) /\ UNCHANGED clock
  BY <1>1, <1>3, <1>4 DEF SetStub, lai_start_pm_timer, Goto, chipset,
     clock, EventInv, TypeOK, Order, ArmedHolds, Labels, Late
<1>5. CASE /\ \/ ReadEvents("timer_read", "timer_clear")
              \/ ReadEvents("read", "clear")
           /\ UNCHANGED clock
  BY <1>1, <1>3, <1>5 DEF ReadEvents, Goto, chipset,
     clock, EventInv, TypeOK, Order, ArmedHolds, Labels, Late
<1>6. CASE /\ \/ ClearEvents("timer_clear", "timer_enable")
              \/ ClearEvents("clear", "done")
           /\ UNCHANGED clock
  BY <1>1, <1>3, <1>6 DEF ClearEvents, Goto,
     clock, EventInv, TypeOK, Order, ArmedHolds, Labels, Late
<1>7. CASE /\ \/ lai_set_sci_event("timer_enable", "request", a \cup {ACPI_TIMER})
              \/ lai_set_sci_event("enable", "read",
                                   {ACPI_POWER_BUTTON, ACPI_SLEEP_BUTTON, ACPI_WAKE})
           /\ UNCHANGED clock
  BY <1>1, <1>3, <1>7, Names DEF lai_set_sci_event, Goto,
     clock, EventInv, TypeOK, Order, ArmedHolds, Labels, Late
<1>8. CASE RequestAcpi /\ UNCHANGED clock
  BY <1>1, <1>3, <1>8 DEF RequestAcpi, Goto,
     clock, EventInv, TypeOK, Order, ArmedHolds, Labels, Late
<1>9. CASE Poll /\ UNCHANGED clock
  BY <1>1, <1>3, <1>9, MaxPollsAssumption DEF Poll, Goto, chipset,
     clock, EventInv, TypeOK, Order, ArmedHolds, Labels, Late
<1>10. CASE SleepNot \/ Wait
  BY <1>1, <1>3, <1>10 DEF SleepNot, Wait, Goto, chipset,
     clock, EventInv, TypeOK, Order, ArmedHolds, Labels, Late
<1>11. CASE Sleep \/ Awake
  <2>1. timer' \in 0 .. Top /\ goal' \in 0 .. Top + Ticks
    BY <1>11, GoalType, TimerAssumption DEF Sleep, Awake
  <2>2. /\ UNCHANGED <<a, polls, stub, status, enable, acpi_mode, smi>>
        /\ \/ pc = "sleep" /\ pc' = "wait"
           \/ pc = "wait" /\ pc' = "poll"
    BY <1>11 DEF Sleep, Awake, Goto, chipset
  <2> QED
    BY <1>1, <1>3, <2>1, <2>2 DEF EventInv, TypeOK, Order, ArmedHolds, Labels, Late
<1> QED
  BY <1>4, <1>5, <1>6, <1>7, <1>8, <1>9, <1>10, <1>11 DEF Setup, Registers

\* The invariant holds in every reachable state.
LEMMA Invariance == Spec => []EventInv
<1>1. EventInv /\ [Next]_vars => EventInv'
  <2> SUFFICES ASSUME EventInv, [Next]_vars PROVE EventInv'
    OBVIOUS
  <2>1. CASE UNCHANGED vars
    BY <2>1 DEF vars, kernel, chipset, clock, EventInv, TypeOK, Order, ArmedHolds
  <2> QED
    BY <2>1, EventStep, FirmwareStep, TickStep, HandlerStep, SetupStep DEF Next
<1> QED
  BY InitInv, <1>1, PTL DEF Spec

(***************************************************************************)
(* The registers hold known events and the kernel stands at a known place, *)
(* with at most MaxPolls polls done, on every set of machines.             *)
(***************************************************************************)
THEOREM TypesKept == Spec => []TypeOK
<1>1. EventInv => TypeOK
  BY DEF EventInv
<1> QED
  BY Invariance, <1>1, PTL

(***************************************************************************)
(* The safety half of PressSwitchesOff: a press of the power button that   *)
(* comes when the event is enabled keeps the SCI active, with acpi_event() *)
(* installed, whatever Setup() reads, clears and enables afterwards, and   *)
(* whether or not the firmware answers.                                    *)
(***************************************************************************)
PressKept == pressed = "armed" => Sci /\ stub

THEOREM NoPressLost == Spec => []PressKept
<1>1. EventInv => PressKept
  BY DEF EventInv, Order, ArmedHolds, PressKept, Sci, Late
<1> QED
  BY Invariance, <1>1, PTL

(***************************************************************************)
(* On a machine on which acpi_event() can switch off, the first SCI that   *)
(* it takes after such a press does so: it never returns to the code that  *)
(* was interrupted.                                                        *)
(***************************************************************************)
ServedAtOnce ==
    [][irq_handler /\ pressed = "armed" /\ machine.bit9 /\ machine.s5 => off']_vars

THEOREM PressServed == Spec => ServedAtOnce
<1>1. EventInv /\ irq_handler /\ pressed = "armed" /\ machine.bit9 /\ machine.s5 => off'
  <2> SUFFICES ASSUME EventInv, irq_handler, pressed = "armed", machine.bit9, machine.s5
               PROVE  off'
    OBVIOUS
  <2>1. stub
    BY DEF EventInv, Order, ArmedHolds, Late
  <2> QED
    BY <2>1, Zenon DEF irq_handler, acpi_event, lai_enter_sleep
<1> QED
  BY Invariance, <1>1, PTL DEF ServedAtOnce, Spec

=============================================================================
