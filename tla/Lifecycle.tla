------------------------------ MODULE Lifecycle ------------------------------
(***************************************************************************)
(* The statuses an item may have and the built-in lifecycle that orders    *)
(* them (Status.resetStatus and Status.setDefaultLifecycle), for a         *)
(* registry whose /system/lifecycle register is absent.                    *)
(***************************************************************************)

Statuses == {"submitted", "reserved", "invalid", "stable", "experimental",
             "superseded", "retired"}

\* Every built-in status may be followed by "invalid" (Status.reset).
Successors == [s \in Statuses |-> {"invalid"} \union
  (CASE s = "reserved"     -> {"submitted"}
     [] s = "submitted"    -> {"stable", "experimental"}
     [] s = "stable"       -> {"retired", "superseded"}
     [] s = "experimental" -> {"stable", "retired", "superseded"}
     [] OTHER              -> {})]

LegalNextState(s, next) == next = s \/ next \in Successors[s]
==============================================================================
