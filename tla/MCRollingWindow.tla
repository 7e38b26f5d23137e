-------------------------- MODULE MCRollingWindow ---------------------------
(***************************************************************************)
(* Two runs, from the daemon or the command line.  The window is two days  *)
(* of two ticks; a file is old after one tick, or two: as with three days  *)
(* and 48 hours, the last day of a window gets old while it airs.          *)
(***************************************************************************)
EXTENDS RollingWindow, TLC

CONSTANTS r1, r2, c1, c2

MCRuns == {r1, r2}
MCChannels == {c1, c2}
MCOneChannel == {c1}
MCNames == {[early |-> TRUE, tail |-> "midnight"],
            [early |-> FALSE, tail |-> "midnight"]}
MCOneName == {[early |-> TRUE, tail |-> "midnight"]}
Command(force, from, only) == [force |-> force, from |-> from, only |-> only]
MCCommands == {Command(FALSE, NoFrom, {c1}), Command(TRUE, NoFrom, {c1}),
               Command(TRUE, 0, {c1}), Command(FALSE, NoFrom, {})}
MCFromFirstDay == {Command(TRUE, 0, {c1})}
MCCatchUp == {Command(FALSE, NoFrom, {c1})}
MCSymmetry == Permutations(Runs)

=============================================================================
