------------------------------ MODULE Progress ------------------------------
(***************************************************************************)
(* The one-line counter of src/cli/progress.rs.  Tasks that end at the     *)
(* same time step it concurrently: each takes a number, widens the longest *)
(* line, and only then draws, so that lines may be drawn out of order, on  *)
(* top of each other.                                                      *)
(***************************************************************************)
EXTENDS Integers, FiniteSetsExt

CONSTANTS
  Task,          \* the units counted
  Label,         \* the width of each one's line
  CompleteWidth  \* the width of the completion line, before its padding

ASSUME LabelAssumption == Label \in [Task -> Nat]
ASSUME CompleteAssumption == CompleteWidth \in Nat

VARIABLES
  shown,    \* whether there is anything to see
  done,     \* the counter
  maxLine,  \* max_line
  stepping, \* where each task is in step
  drawn,    \* history: the numbers drawn, with the task of each
  visible,  \* how much of the terminal's line is written on
  final     \* the width of the completion line, 0 before it

progressVars == <<shown, done, maxLine, stepping, drawn, visible, final>>

(* Only a sweep is counted, and only on a terminal nobody asked to quiet.  *)
ProgressInit ==
  /\ shown \in IF Cardinality(Task) > 1 THEN BOOLEAN ELSE {FALSE}
  /\ done = 0
  /\ maxLine = 0
  /\ stepping = [t \in Task |-> "before"]
  /\ drawn = {}
  /\ visible = 0
  /\ final = 0

At(t, from, to) ==
  /\ stepping[t] = from
  /\ stepping' = [stepping EXCEPT ![t] = to]

Skip(t) ==
  /\ ~shown
  /\ At(t, "before", "after")
  /\ UNCHANGED <<shown, done, maxLine, drawn, visible, final>>

(* done.fetch_add(1) + 1: the number is taken and the counter moved at     *)
(* once.                                                                   *)
Count(t) ==
  /\ shown
  /\ At(t, "before", "counted")
  /\ done' = done + 1
  /\ drawn' = drawn \cup {[task |-> t, number |-> done + 1]}
  /\ UNCHANGED <<shown, maxLine, visible, final>>

(* max_line.fetch_max(len).  Mutant: the last length is stored.            *)
LastLine(t) == Label[t]

LongestLine(t) == Max({maxLine, Label[t]})

Widen(t) ==
  /\ At(t, "counted", "widened")
  /\ maxLine' = LongestLine(t)
  /\ UNCHANGED <<shown, done, drawn, visible, final>>

(* eprint!("\r{line}"): what a longer line left to its right stays.        *)
Draw(t) ==
  /\ At(t, "widened", "after")
  /\ visible' = Max({visible, Label[t]})
  /\ UNCHANGED <<shown, done, maxLine, drawn, final>>

Step(t) == Skip(t) \/ Count(t) \/ Widen(t) \/ Draw(t)

(* The completion line, padded to the longest one.                         *)
Finish ==
  /\ final = 0
  /\ final' = IF shown THEN Max({CompleteWidth, maxLine}) ELSE 0
  /\ UNCHANGED <<shown, done, maxLine, stepping, drawn, visible>>

-----------------------------------------------------------------------------
(* However the steps of concurrent tasks interleave, each has a number of  *)
(* its own and none is skipped, and the completion line leaves nothing of  *)
(* any of the lines on the screen.                                         *)
ProgressIsHonest ==
  /\ {d.number : d \in drawn} = 1..done
  /\ Cardinality(drawn) = done
  /\ final > 0 => final >= visible

=============================================================================
