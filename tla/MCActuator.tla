------------------------------ MODULE MCActuator ------------------------------
(***************************************************************************)
(* Three cards for Actuator: one of 16.5 W or 22 W that an operator limits *)
(* below, at and above the brake and the default, one too small for its    *)
(* bands to be told apart, and a MIG slice that nobody limits.             *)
(***************************************************************************)
EXTENDS Actuator

CONSTANTS big, small, mig

MCDefaults == [c \in Cards |-> CASE c = big -> {33, 44} [] c = small -> {16} [] c = mig -> {32}]

MCOperatorLimits ==
  [c \in Cards |-> CASE c = big -> {8, 17, 24, 48} [] c = small -> {8} [] c = mig -> {}]
===============================================================================
