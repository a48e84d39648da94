---- MODULE GameRunnerProperties ----
(***************************************************************************)
(* What the driver loop of GameRunner owes to the game it runs.            *)
(***************************************************************************)
EXTENDS GameRunner

\* The driver asks of the kernel only what Kernel's next-state relation allows:
\* effects run before anybody passes again, steps are advanced only when nobody
\* can act, and so on, so what holds of Kernel holds of every run.
RunIsAKernelBehaviour == Init /\ [][Next]_vars

\* The kernel refuses the driver no pass, land, cast or resolution, though some
\* are asked for blind: every attacked player was asked for blocks before the
\* step was passed, triggers were placed before anybody was asked, a baseline
\* main phase still has priority, and no two resolutions owe choices at once.
DriverIsNeverRefused ==
  /\ result \notin {"PassRejected", "Overlap"}
  /\ policy = "Baseline" => result \notin {"LandRejected", "CastRejected", "PassedWithoutPriority"}

\* Every combat damage step of an unfinished game has its damage assigned
\* exactly once: the first-strike step, the regular one and the normal one.
DamageOnceEachStep ==
  [][/\ dealt' <= 1
     /\ step = "CombatDamage" /\ outcome = "InProgress"
        /\ <<step', combat'.damageStep>> # <<step, combat.damageStep>> => dealt = 1]_allVars

\* No turn's attack is forgotten: the declare-attackers step ends only after
\* its active player was asked for this turn's attack.
EveryTurnAttacks ==
  [][step = "DeclareAttackers" /\ step' # step => turn \in attackersDone]_allVars

\* The sequential loop always goes on while it can: every run returns, by the
\* end of the game, by the turn cap or with an error.
FairRunner == RunnerSpec /\ WF_allVars(RunnerNext)
RunReturns == <>(result # "Running")

----------------------------------------------------------------------------
(* What the driver or the kernel does not keep. *)

\* The blocks the driver asks for are those of players the kernel still sees
\* attacked: a refusal ends the run with an error.
BlocksAreNeverRejected == result # "BlocksRejected"

\* comprehensive-rules.txt:5485, rule 704.3: "Whenever a player would get
\* priority" state-based actions come first.  When the effects of what resolved
\* have been carried out and somebody may act, no creature has lethal damage
\* and nobody who has not lost is at zero life.
EffectsSettleBeforeActions ==
  [][at = "Effects" /\ at' = "Loop" /\ priority' # NoPlayer =>
       dying' = {} /\ doomed' \subseteq lost' /\ emptyDraw' \subseteq lost']_allVars
====
