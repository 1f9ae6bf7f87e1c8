---------------------------- MODULE LaiEvaluation ---------------------------
(***************************************************************************)
(* How the machine of LaiExec implements the evaluation of LaiEval.        *)
(***************************************************************************)
EXTENDS LaiExec

\* What the callers see: the memory between the calls.
LOCAL Eval ==
    INSTANCE LaiEval WITH
        mem    <- IF status \in {"start", "idle"} THEN [mem EXCEPT !.cur = 0] ELSE call.mem,
        phase  <- IF status = "run" THEN call.phase ELSE status,
        served <- IF status = "run" /\ call.phase = "idle" THEN calls - 1 ELSE calls

(***************************************************************************)
(* Every evaluation gives the value of its code, with the effects on the   *)
(* namespace, the objects and the hardware, although operands, blocks and  *)
(* contexts of nested operators, loops and methods share four stacks that  *)
(* move when they grow.                                                    *)
(***************************************************************************)
EvaluatesItsCode == Eval!Spec
=============================================================================
