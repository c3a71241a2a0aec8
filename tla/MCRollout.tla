----------------------------- MODULE MCRollout -----------------------------
(* Instances of Rollout for model checking.                                *)
EXTENDS Rollout

MCOutcome(event, gate, conclusion) == [event |-> event, gate |-> gate, conclusion |-> conclusion]

\* Pushes pass, perhaps after being pending; a schedule skips the gate or passes it.
MCOutcomes == {MCOutcome("push", "success", "success"),
               MCOutcome("push", "pending", "pending"),
               MCOutcome("schedule", "skipped", "success"),
               MCOutcome("schedule", "success", "success")}

MCSetting(installations, events, edits, maxEdits) ==
    [installations |-> installations, events |-> events, edits |-> edits, maxEdits |-> maxEdits]

\* guardianctl leads the rollout, and people change one thing by hand: with runs of both
\* events the configuration, with pushes only another one.
MCByCommand == MCSetting({"active"}, {"push", "schedule"}, {"config"}, 1)
MCMeddling  == MCSetting({"active"}, {"push"}, {"workflow", "rules", "offboard"}, 1)

\* The doctor lets nothing through, for the App is suspended: people write the baseline,
\* turn enforcement on and require the check themselves.
MCByPeople == MCSetting({"suspended"}, {"push"}, {"config", "baseline", "require"}, 3)

MCSettings  == {MCByCommand, MCMeddling, MCByPeople}
MCUnedited  == {MCSetting({"active"}, {"push"}, {}, 0)}
MCBreakages == {{}}
=============================================================================
