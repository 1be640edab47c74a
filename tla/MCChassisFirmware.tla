-------------------------- MODULE MCChassisFirmware --------------------------
(***************************************************************************)
(* ChassisFirmware for TLC: two wheels, a twist that drives both or none,  *)
(* and times scaled so that every timeout spans several main-loop turns.   *)
(***************************************************************************)
EXTENDS ChassisFirmware

MCTwists == {{}, Wheels}

\* No step depends on the absolute value of the clock, only on differences,
\* and a local of the main loop matters only between its write and its last
\* read; comm and resetCause are only reported.  States that agree on this view behave alike.
Relative ==
    LET ago(t) == Elapsed(tick, t) IN
    <<pc, IF pc = "top" THEN 0 ELSE ago(now), i,
      IF pc \in {"wheel", "write"} THEN active ELSE FALSE,
      IF pc = "write" THEN out ELSE FALSE,
      IF pc \in SendPcs THEN ago(txStart) ELSE 0,
      cpu, mode, setpoint, comm \in CommStates, ago(lastCmd), ago(lastHeartbeat), motor,
      ago(lastCtrl), ago(lastStatus), ago(lastReport), haveEnc,
      resetCause \in {"POR", "IWDG"},
      usbVars, ages, sweep>>
=============================================================================
