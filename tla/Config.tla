------------------------------- MODULE Config -------------------------------
(***************************************************************************)
(* internal/config: the limits a process takes from its environment.  A    *)
(* variable is Unset or the integer it spells; a text that spells none is  *)
(* refused like 0.  The other settings are addresses, names and secrets,   *)
(* and nothing in the models depends on them.                              *)
(***************************************************************************)
EXTENDS EvalCore

CONSTANT Unset

\* getenvPositiveInt: what it accepts, and what it then returns.
Accepted(value) == value = Unset \/ value > 0
PositiveOr(value, fallback) == IF value = Unset THEN fallback ELSE value

\* env : the values of BIN_EVAL_MAX_DIMENSIONS and so on, by the limit they set.
ConfiguredLimits(env) == [f \in DOMAIN Defaults |-> PositiveOr(env[f], Defaults[f])]

\* loadChecklistLimits returns without an error.
LimitsLoad(env) == /\ \A f \in DOMAIN Defaults : Accepted(env[f])
                   /\ ValidLimits(ConfiguredLimits(env))
=============================================================================
