------------------------- MODULE ContextSwitchProofs -------------------------
(***************************************************************************)
(* Proofs about ContextSwitch, for any number of tasks and any size of the *)
(* stack: sharing one stack is harmless as long as at most one task, User, *)
(* uses it.                                                                *)
(*                                                                         *)
(* While User is suspended, its two top words are in its registers and     *)
(* the stack holds other tasks' copies in their place; the others never    *)
(* move the stack pointer, so sched() puts the words back where they were. *)
(***************************************************************************)
EXTENDS ContextSwitch, TLAPS

CONSTANT User

OneUser == User \in Tasks /\ Callers \cup Framers \subseteq {User}

\* Where User's frames are.
OnStack(from) == \A k \in 1 .. from : mem[Base + k] = Frame(User, k)

InRegs ==
  /\ depth[User] >= 1 => regs[User].useresp = Frame(User, depth[User])
  /\ depth[User] >= 2 => regs[User].ss = Frame(User, depth[User] - 1)

StackInv ==
  /\ TypeOK /\ ~wild
  /\ esp = Base + depth[User]
  /\ User \notin started => depth[User] = 0
  /\ current_task = User => OnStack(depth[User])
  /\ current_task # User => OnStack(depth[User] - 2) /\ InRegs

-----------------------------------------------------------------------------
\* The constants that the stack is built from.
LEMMA Constants ==
  /\ 1 \in Tasks /\ Boot \in Word /\ Base = 2 /\ MaxWords \in Nat /\ MaxWords >= 2
  /\ \A t \in Tasks : Successor(t) \in Tasks
  BY TaskAssumption DEF Tasks, Boot, Frame, Word, NoTask, Base, Successor

\* Nothing has been called when the first tick arrives.
LEMMA InitInv == ASSUME OneUser PROVE Init => StackInv
<1> SUFFICES ASSUME Init PROVE StackInv
  OBVIOUS
<1>1. wild \in BOOLEAN /\ ~wild
  BY Zenon DEF Init
<1>2. TypeOK
  BY <1>1, Constants DEF Init, TypeOK, Registers
<1> QED
  BY <1>1, <1>2, Constants DEF Init, StackInv, OnStack, InRegs, OneUser

\* A call or a frame of User goes on top of its others.
LEMMA PushInv ==
  ASSUME OneUser, StackInv, Running(User), Push(User)
  PROVE  StackInv'
<1>1. TypeOK /\ current_task = User /\ esp = Base + depth[User] /\ OnStack(depth[User])
  BY DEF StackInv, Running
<1>2. depth[User] \in Nat /\ Frame(User, depth[User] + 1) \in Word
  BY <1>1 DEF TypeOK, OneUser, Frame, Word
<1>3. TypeOK'
  BY <1>1, <1>2, Constants DEF TypeOK, Push, OneUser
<1>4. esp' = Base + depth'[User] /\ depth'[User] = depth[User] + 1
  BY <1>1, <1>2, Constants DEF Push, TypeOK, OneUser
<1>5. ASSUME NEW k \in 1 .. depth'[User] PROVE mem'[Base + k] = Frame(User, k)
  BY <1>1, <1>2, <1>4, <1>5, Constants DEF Push, TypeOK, OnStack
<1> QED
  BY <1>1, <1>3, <1>4, <1>5, Zenon DEF StackInv, Running, Push, OnStack

\* A return of User finds the frame that its last call left.
LEMMA RetInv ==
  ASSUME OneUser, StackInv, Ret(User)
  PROVE  StackInv'
<1>1. TypeOK /\ current_task = User /\ esp = Base + depth[User] /\ OnStack(depth[User])
  BY DEF StackInv, Ret, Running
<1>2. depth[User] \in Nat /\ depth[User] > 0
  BY <1>1 DEF TypeOK, OneUser, Ret
<1>3. mem[esp] = Frame(User, depth[User])
  BY <1>1, <1>2 DEF OnStack
<1>4. wild' = FALSE
  BY <1>3 DEF Ret
<1>5. TypeOK'
  BY <1>1, <1>2, <1>4, Constants DEF TypeOK, Ret, OneUser
<1>6. esp' = Base + depth'[User] /\ depth'[User] = depth[User] - 1
  BY <1>1, <1>2, Constants DEF Ret, TypeOK, OneUser
<1>7. OnStack(depth[User])'
  BY <1>1, <1>2, <1>6 DEF Ret, OnStack
<1> QED
  BY <1>1, <1>4, <1>5, <1>6, <1>7, Zenon DEF StackInv, Ret, Running

\* What is copied at a switch.
LEMMA SwitchFacts ==
  ASSUME StackInv, OneUser, regs' = Saved(current_task)
  PROVE  /\ regs' \in [Tasks -> Registers]
         /\ \A t \in Tasks : t # current_task => regs'[t] = regs[t]
         /\ regs'[current_task].useresp = mem[esp]
         /\ regs'[current_task].ss = mem[esp - 1]
<1>1. TypeOK
  BY DEF StackInv
<1>2. esp \in 1 .. MaxWords /\ esp - 1 \in 1 .. MaxWords
  BY <1>1, Constants DEF TypeOK
<1>3. [esp |-> esp, useresp |-> mem[esp], ss |-> mem[esp - 1]] \in Registers
  BY <1>1, <1>2, Constants DEF TypeOK, Registers
<1> QED
  BY <1>1, <1>3 DEF Saved, TypeOK

\* Whoever runs before and after the switch, User's frames stay together.
LEMMA SwitchInv ==
  ASSUME OneUser, StackInv, NEW t \in Tasks,
         regs' = Saved(current_task), current_task' = t,
         started' \in SUBSET Tasks, started \subseteq started',
         UNCHANGED <<esp, depth, wild>>,
         \/ mem' = mem /\ t \notin started
         \/ mem' = [mem EXCEPT ![esp] = regs'[t].useresp, ![esp - 1] = regs'[t].ss]
  PROVE  StackInv'
<1>1. TypeOK /\ ~wild /\ esp = Base + depth[User] /\ depth[User] \in Nat
  BY DEF StackInv, TypeOK, OneUser
<1>2. /\ regs' \in [Tasks -> Registers]
      /\ \A x \in Tasks : x # current_task => regs'[x] = regs[x]
      /\ regs'[current_task].useresp = mem[esp]
      /\ regs'[current_task].ss = mem[esp - 1]
  BY SwitchFacts
<1>3. regs'[t].useresp \in Word /\ regs'[t].ss \in Word
  BY <1>2 DEF Registers
<1>4. esp \in 2 .. MaxWords /\ esp - 1 \in 1 .. MaxWords /\ mem \in [1 .. MaxWords -> Word]
  BY <1>1, Constants DEF TypeOK
<1>5. mem' \in [1 .. MaxWords -> Word]
  BY <1>3, <1>4
<1>6. TypeOK'
  BY <1>1, <1>2, <1>5 DEF TypeOK
<1>7. OnStack(depth[User] - 2)
  BY <1>1 DEF StackInv, OnStack
<1>8. OnStack(depth[User] - 2)'
  <2>1. ASSUME NEW k \in 1 .. depth[User] - 2 PROVE mem'[Base + k] = mem[Base + k]
    <3>1. Base + k \in 1 .. MaxWords /\ Base + k # esp /\ Base + k # esp - 1
      BY <1>1, <1>4, Constants
    <3> QED
      BY <1>4, <3>1
  <2>2. \A k \in 1 .. depth[User] - 2 : mem'[Base + k] = Frame(User, k)
    BY <1>7, <2>1 DEF OnStack
  <2> QED
    BY <2>2 DEF OnStack
<1>9. InRegs'
  <2>1. CASE current_task = User
    <3>1. OnStack(depth[User])
      BY <2>1 DEF StackInv
    <3>2. /\ depth[User] >= 1 => mem[esp] = Frame(User, depth[User])
          /\ depth[User] >= 2 => mem[esp - 1] = Frame(User, depth[User] - 1)
      BY <1>1, <3>1, Constants DEF OnStack
    <3> QED
      BY <1>2, <2>1, <3>2 DEF InRegs
  <2>2. CASE current_task # User
    <3>1. InRegs /\ regs'[User] = regs[User]
      BY <1>2, <2>2 DEF StackInv, OneUser
    <3> QED
      BY <3>1 DEF InRegs
  <2> QED
    BY <2>1, <2>2
<1>10. ASSUME t = User PROVE OnStack(depth[User])'
  <2>1. CASE mem' = mem /\ t \notin started
    BY <1>1, <1>10, <2>1 DEF StackInv, OnStack
  <2>2. CASE mem' = [mem EXCEPT ![esp] = regs'[t].useresp, ![esp - 1] = regs'[t].ss]
    <3>1. mem'[esp] = regs'[User].useresp /\ mem'[esp - 1] = regs'[User].ss
      BY <1>4, <1>10, <2>2
    <3>2. ASSUME NEW k \in 1 .. depth[User] PROVE mem'[Base + k] = Frame(User, k)
      <4>1. CASE k = depth[User]
        BY <1>1, <1>9, <3>1, <4>1 DEF InRegs
      <4>2. CASE k = depth[User] - 1
        <5>1. Base + k = esp - 1 /\ depth[User] >= 2
          BY <1>1, <3>2, <4>2, Constants
        <5> QED
          BY <1>9, <3>1, <4>2, <5>1 DEF InRegs
      <4>3. CASE k < depth[User] - 1
        BY <1>1, <1>8, <4>3 DEF OnStack
      <4> QED
        BY <1>1, <4>1, <4>2, <4>3
    <3> QED
      BY <3>2 DEF OnStack
  <2> QED
    BY <2>1, <2>2
<1> QED
  BY <1>1, <1>6, <1>8, <1>9, <1>10 DEF StackInv

\* Every tick preserves the invariant.
LEMMA TickInv == ASSUME OneUser, StackInv, sched PROVE StackInv'
<1>1. /\ current_task \in Tasks /\ Successor(current_task) \in Tasks
      /\ started \in SUBSET Tasks /\ UNCHANGED <<esp, depth, wild>>
  BY Constants DEF StackInv, TypeOK, sched, ExceptionReturn
<1>2. CASE StartFirst
  BY <1>1, <1>2 DEF StartFirst, StackInv, TypeOK, OnStack, InRegs
<1>3. CASE StartNext(Successor(current_task))
  BY <1>1, <1>3, SwitchInv DEF StartNext
<1>4. CASE Resume(Successor(current_task))
  BY <1>1, <1>4, SwitchInv DEF Resume
<1> QED
  BY <1>2, <1>3, <1>4 DEF sched

\* The invariant holds in every reachable state.
LEMMA Invariance == ASSUME OneUser PROVE Spec => []StackInv
<1>1. StackInv /\ [Next]_vars => StackInv'
  <2> SUFFICES ASSUME StackInv, [Next]_vars PROVE StackInv'
    OBVIOUS
  <2>1. CASE sched
    BY <2>1, TickInv
  <2>2. ASSUME NEW t \in Tasks, Call(t) \/ TakeFrame(t) \/ Ret(t) PROVE StackInv'
    <3>1. t = User
      BY <2>2 DEF Call, TakeFrame, Ret, OneUser
    <3> QED
      BY <2>2, <3>1, PushInv, RetInv DEF Call, TakeFrame
  <2>3. CASE UNCHANGED vars
    BY <2>3 DEF vars, StackInv, TypeOK, OnStack, InRegs
  <2> QED
    BY <2>1, <2>2, <2>3 DEF Next
<1> QED
  BY InitInv, <1>1, PTL DEF Spec

(***************************************************************************)
(* If at most one task uses the stack while interrupts are enabled, every  *)
(* return of it goes to its caller, for any number of tasks, although      *)
(* exception_handler restores no stack pointer and sched() overwrites the  *)
(* two top words of the stack at every switch.                             *)
(***************************************************************************)
THEOREM OneStackUser == ASSUME OneUser PROVE Spec => []ReturnsToCaller
<1>1. StackInv => ReturnsToCaller
  BY DEF StackInv, ReturnsToCaller
<1> QED
  BY Invariance, <1>1, PTL

(***************************************************************************)
(* Under the same condition the stack pointer stays between the frames of  *)
(* the boot code and the end of the stack, although no register that       *)
(* sched() restores holds it, and what the registers and the stack hold    *)
(* has the type of a word.                                                 *)
(***************************************************************************)
THEOREM StackKept == ASSUME OneUser PROVE Spec => []TypeOK
<1>1. StackInv => TypeOK
  BY DEF StackInv
<1> QED
  BY Invariance, <1>1, PTL

==============================================================================
