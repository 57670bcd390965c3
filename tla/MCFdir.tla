------------------------------- MODULE MCFdir -------------------------------
(* Small policies for the composed fault handling: one attempt per level,  *)
(* durations of one or two units.                                          *)
EXTENDS Fdir

MCAttempts == [a \in Actions |-> 1]
MCCooldown == [a \in Actions |-> 1]
MCPipelineCooldown == [a \in Actions |-> IF a = "restart_pipeline" THEN 2 ELSE 1]
MCTimeout == [a \in Actions |-> 1]
MCTtls == {RestartTtl("restart_pipeline"), RestartTtl("restart_janus")}
=============================================================================
