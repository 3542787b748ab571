----------------------------- MODULE LwipError -----------------------------
(***************************************************************************)
(* check_ret_errno of src/lwip/lwip_error.py, through which almost every   *)
(* native lwIP call is made, as operators on the numbers it looks at.      *)
(*                                                                         *)
(* A native call is described by the errno of the calling thread before    *)
(* it, its return value and the errno after it.  cffi keeps errno per      *)
(* thread and restores it around a call, so a function that does not touch *)
(* errno leaves the value it found.                                        *)
(***************************************************************************)
EXTENDS Integers

CONSTANT WarningsAreErrors   \* the interpreter turns RuntimeWarning into an exception

ASSUME WarningsAssumption == WarningsAreErrors \in BOOLEAN

(***************************************************************************)
(* check_ret_errno, before the call: an errno left over by an earlier call *)
(* is warned about; when the warning is an exception the native function   *)
(* is not called and errno keeps its value.                                *)
(***************************************************************************)
RefusesCall(before) == before # 0 /\ WarningsAreErrors

(* Mutants of Outcome: errno alone decides; a failure without errno is returned. *)
OutcomeByErrno(ret, after) == IF after # 0 THEN "OSError" ELSE IF ret < 0 THEN "LwipError" ELSE "ok"
OutcomeByBoth(ret, after) == IF after # 0 /\ ret < 0 THEN "OSError" ELSE "ok"

(* check_ret_errno, after the call: what the caller gets. *)
Outcome(ret, after) ==
  IF after # 0 /\ ret < 0 THEN "OSError"
  ELSE IF after # 0 /\ WarningsAreErrors THEN "RuntimeWarning"
  ELSE IF ret < 0 THEN "LwipError" ELSE "ok"

(* The errno a checked call leaves behind, whatever it returned or raised. *)
ErrnoLeft(before) == IF RefusesCall(before) THEN before ELSE 0

=============================================================================
