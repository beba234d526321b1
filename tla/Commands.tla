------------------------------ MODULE Commands ------------------------------
(***************************************************************************)
(* What a press on the page turns into: the commands of                    *)
(* lib/gui/actions.py over the rows a reader ticked, and the part of their *)
(* effect on this machine that decides what the next press does.  A row is *)
(* Unknown (no card in the local table), Known (a card and no bytes) or    *)
(* Held (artifacts on disk), in the order in which it can get there.       *)
(***************************************************************************)
EXTENDS Integers, FiniteSets

CONSTANT Builds   \* the build ids a row can carry

ASSUME CommandsAssumption == IsFiniteSet(Builds) /\ Builds # {}

Unknown == 1
Known   == 2
Held    == 3
Stages  == Unknown..Held
Buttons == {"index", "index_pull", "pull", "smart"}
Ticked  == {"index_pull", "pull", "run"}   \* refused when nothing is ticked

-----------------------------------------------------------------------------
(* The smart button: the rows are asked what they need, the ones furthest  *)
(* behind decide the command, and nothing runs before every row has bytes. *)

Phase(stage, ticks) ==
    CHOOSE s \in {stage[b] : b \in ticks} : \A b \in ticks : s <= stage[b]

SmartStep(phase) == CASE phase = Unknown -> "index_pull"
                      [] phase = Known   -> "pull"
                      [] phase = Held    -> "run"

\* Mutant: only the rows that decided are acted on.
FurthestBehind(stage, ticks) == {b \in ticks : stage[b] = Phase(stage, ticks)}

SmartActed(stage, ticks) ==
    {b \in ticks : stage[b] <= (IF Phase(stage, ticks) = Held THEN Held ELSE Known)}

-----------------------------------------------------------------------------
(* Every button *)

CommandOf(button, stage, ticks) ==
    IF button = "smart" THEN SmartStep(Phase(stage, ticks)) ELSE button

ActedOn(button, stage, ticks) ==
    CASE button = "smart" -> SmartActed(stage, ticks)
      [] button = "index" -> Builds
      [] OTHER            -> ticks

\* A press without ticks is refused, but for the one that names a window.
Accepted(button, ticks) == ticks # {} \/ button \notin Ticked \cup {"smart"}

\* table.py: the builds a command succeeds for.  `pull` refuses a row without
\* a card; a row that has what the command gets it keeps it.
Gets(cmd, stage, b) ==
    CASE cmd = "index"      -> IF stage[b] = Unknown THEN Known ELSE stage[b]
      [] cmd = "index_pull" -> Held
      [] cmd = "pull"       -> IF stage[b] = Unknown THEN Unknown ELSE Held
      [] cmd = "run"        -> stage[b]

Effect(cmd, stage, good) ==
    [b \in Builds |-> IF b \in good THEN Gets(cmd, stage, b) ELSE stage[b]]
=============================================================================
