------------------------------ MODULE MCDelivery ------------------------------
(***************************************************************************)
(* Sensors for Delivery.  One unit of time is the evaluation period: the   *)
(* two safety channels are stale at 2 units, the others at 3.              *)
(***************************************************************************)
EXTENDS Delivery, MCTelemetryCsv

Show(temp, power, clock, util) ==
  [s \in SignalIds |->
     CASE s = "gpu_temp_c" -> temp
       [] s = "power_w" -> power
       [] s = "gpu_clock_mhz" -> clock
       [] s = "mem_util_pct" -> util
       [] OTHER -> NoValue]

\* A failed sensor beside a power out of range and a clock beyond the span it is
\* normalized to; an idle card with a utilization that really is zero: young, too
\* old for the safety channels, too old for all, and from the future.
Idle == Show(Number(40), Number(70), Number(500), Number(0))
Odd == Show(NoValue, Number(2001), Number(2600), Number(100))

MCSensed ==
  {[sensors |-> Odd, lag |-> 1]} \cup [sensors : {Idle}, lag : {-1, 1, 2, 3}]

\* One process that can lose a frame to a full queue, two at its end; and one more.
MCFrames == <<3, 2>>
===============================================================================
