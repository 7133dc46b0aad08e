------------------------------ MODULE MCSampling ------------------------------
(***************************************************************************)
(* Settings, limits and readings for Sampling.  One unit of time is the    *)
(* evaluation period, so a sample of the fastest loop is stale at 2 units, *)
(* as is the oldest sample a policy may accept.                            *)
(***************************************************************************)
EXTENDS Sampling

Config(maxAge, powerWarn, powerCritical) ==
  [tempWarn |-> 75, tempCritical |-> 85, maxAge |-> maxAge, maxInterval |-> maxAge,
   powerWarn |-> powerWarn, powerCritical |-> powerCritical]

\* The defaults; a tighter age; limits of the operator's own, below and above
\* the device default; and settings that are refused.
MCConfigs ==
  {Config(2, NoTime, NoTime), Config(1, 60, 90), Config(2, 60, 110),
   Config(3, NoTime, NoTime), Config(2, 90, 60), Config(2, 60, NoTime)}

MCDefaults == {NoTime, 100}

Reading(t, p) == [temp |-> t, power |-> p]

\* Cool; warm; too hot; drawing too much for the default but not for every
\* operator limit; no temperature beside a power out of range.
MCReadings ==
  {Reading(Number(60), Number(40)), Reading(Number(75), Number(87)),
   Reading(Number(86), Number(40)), Reading(Number(60), Number(105)),
   Reading(NoValue, Number(2001))}
===============================================================================
