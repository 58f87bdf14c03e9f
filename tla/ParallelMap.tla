----------------------------- MODULE ParallelMap -----------------------------
(***************************************************************************)
(* The concurrency primitive of the command line: parallel_map_with_limit  *)
(* of src/cli/mod.rs.  Several call sites (the callers) draw permits from  *)
(* one semaphore.  A call takes one permit per item, in item order, and    *)
(* spawns a task that holds the permit while it applies f to the item;     *)
(* when every item is spawned it joins the tasks, in any order, and        *)
(* returns what they delivered.  A task that panics gives its permit back  *)
(* as it unwinds and its result is dropped, with a line on stderr.         *)
(*                                                                         *)
(* What f computes is left to the modules that instantiate this one: they  *)
(* conjoin their own effect with Return.                                   *)
(***************************************************************************)
EXTENDS Integers, Sequences, FiniteSets, Functions

CONSTANTS
  Caller,    \* the call sites that share the semaphore
  Item,      \* what a call may be asked to map
  Request,   \* the item sequences a call may be given
  Permits,   \* the permits of the semaphore
  MaxPanics  \* bound of the model: at most this many tasks panic

(* shared_semaphore clamps --concurrency to 1..256: at least one permit.   *)
ASSUME PermitsAssumption == Permits \in Nat \ {0}
ASSUME MaxPanicsAssumption == MaxPanics \in Nat
(* A call is given finitely many items, and tags each by its position or   *)
(* destination: no item occurs twice.                                      *)
ASSUME RequestAssumption ==
  \A items \in Request : items \in Seq(Item) /\ IsInjective(items)

VARIABLES
  free,     \* permits left in the semaphore
  calling,  \* calling[c]: call site c is inside parallel_map_with_limit
  asked,    \* asked[c]: the items of c's current, or latest, call
  queue,    \* queue[c]: the items still to be spawned, in order
  task,     \* task[c][i]: where the task of item i is
  out,      \* out[c]: the items whose results were collected, in that order
  dropped,  \* dropped[c]: the items whose results were lost to a panic
  panics    \* panics so far

mapVars == <<free, calling, asked, queue, task, out, dropped, panics>>

TaskState == {"none", "running", "returned", "panicked"}

(* The tasks that hold a permit: spawned, and f has not returned.          *)
Holders == {ci \in Caller \X Item : task[ci[1]][ci[2]] = "running"}

TypeOK ==
  /\ free \in 0..Permits
  /\ calling \in [Caller -> BOOLEAN]
  /\ asked \in [Caller -> SUBSET Item]
  /\ queue \in [Caller -> Seq(Item)]
  /\ task \in [Caller -> [Item -> TaskState]]
  /\ out \in [Caller -> Seq(Item)]
  /\ dropped \in [Caller -> SUBSET Item]
  /\ panics \in 0..MaxPanics

Init ==
  /\ free = Permits
  /\ calling = [c \in Caller |-> FALSE]
  /\ asked = [c \in Caller |-> {}]
  /\ queue = [c \in Caller |-> <<>>]
  /\ task = [c \in Caller |-> [i \in Item |-> "none"]]
  /\ out = [c \in Caller |-> <<>>]
  /\ dropped = [c \in Caller |-> {}]
  /\ panics = 0

-----------------------------------------------------------------------------
(* c calls the primitive on a sequence of distinct items.                  *)
Call(c, items) ==
  /\ ~calling[c]
  /\ calling' = [calling EXCEPT ![c] = TRUE]
  /\ asked' = [asked EXCEPT ![c] = Range(items)]
  /\ queue' = [queue EXCEPT ![c] = items]
  /\ out' = [out EXCEPT ![c] = <<>>]
  /\ dropped' = [dropped EXCEPT ![c] = {}]
  /\ UNCHANGED <<free, task, panics>>

(* The spawn loop gets a permit for its next item and starts the task.     *)
Spawn(c) ==
  /\ calling[c]
  /\ queue[c] # <<>>
  /\ free > 0
  /\ free' = free - 1
  /\ queue' = [queue EXCEPT ![c] = Tail(@)]
  /\ task' = [task EXCEPT ![c][Head(queue[c])] = "running"]
  /\ UNCHANGED <<calling, asked, out, dropped, panics>>

(* f returned for item i: the task drops its permit, and is still to be    *)
(* joined.                                                                 *)
Return(c, i) ==
  /\ task[c][i] = "running"
  /\ task' = [task EXCEPT ![c][i] = "returned"]
  /\ free' = free + 1
  /\ UNCHANGED <<calling, asked, queue, out, dropped, panics>>

(* Mutant of Panic: the permit is given back by hand after f, which an     *)
(* unwinding task never reaches.                                           *)
PanicLeaks(c, i) ==
  /\ panics < MaxPanics
  /\ task[c][i] = "running"
  /\ task' = [task EXCEPT ![c][i] = "panicked"]
  /\ panics' = panics + 1
  /\ UNCHANGED <<free, calling, asked, queue, out, dropped>>

(* f panicked: the permit is dropped while the task unwinds.               *)
Panic(c, i) ==
  /\ panics < MaxPanics
  /\ task[c][i] = "running"
  /\ task' = [task EXCEPT ![c][i] = "panicked"]
  /\ free' = free + 1
  /\ panics' = panics + 1
  /\ UNCHANGED <<calling, asked, queue, out, dropped>>

(* Mutant of Join: a JoinError is ignored, so a panicked row just vanishes. *)
JoinSilent(c, i) ==
  /\ calling[c]
  /\ queue[c] = <<>>
  /\ task[c][i] \in {"returned", "panicked"}
  /\ out' = IF task[c][i] = "returned" THEN [out EXCEPT ![c] = Append(@, i)]
            ELSE out
  /\ task' = [task EXCEPT ![c][i] = "none"]
  /\ UNCHANGED <<free, calling, asked, queue, dropped, panics>>

(* join_next, reached once every item is spawned, yields a finished task.  *)
Join(c, i) ==
  /\ calling[c]
  /\ queue[c] = <<>>
  /\ \/ /\ task[c][i] = "returned"
        /\ out' = [out EXCEPT ![c] = Append(@, i)]
        /\ UNCHANGED dropped
     \/ /\ task[c][i] = "panicked"
        /\ dropped' = [dropped EXCEPT ![c] = @ \cup {i}]
        /\ UNCHANGED out
  /\ task' = [task EXCEPT ![c][i] = "none"]
  /\ UNCHANGED <<free, calling, asked, queue, panics>>

(* Mutants of Finish: the call returns as soon as everything is spawned;   *)
(* it counts results, and waits for one from a task that panicked.         *)
FinishEarly(c) ==
  /\ calling[c]
  /\ queue[c] = <<>>
  /\ calling' = [calling EXCEPT ![c] = FALSE]
  /\ UNCHANGED <<free, asked, queue, task, out, dropped, panics>>

FinishCounting(c) ==
  /\ calling[c]
  /\ Range(out[c]) = asked[c]
  /\ calling' = [calling EXCEPT ![c] = FALSE]
  /\ UNCHANGED <<free, asked, queue, task, out, dropped, panics>>

(* The JoinSet is empty: the call returns out[c].                          *)
Finish(c) ==
  /\ calling[c]
  /\ queue[c] = <<>>
  /\ \A i \in Item : task[c][i] = "none"
  /\ calling' = [calling EXCEPT ![c] = FALSE]
  /\ UNCHANGED <<free, asked, queue, task, out, dropped, panics>>

-----------------------------------------------------------------------------
Next ==
  \E c \in Caller :
    \/ ~calling[c] /\ \E items \in Request : Call(c, items)
    \/ Spawn(c)
    \/ \E i \in Item : Return(c, i)
    \/ \E i \in Item : Panic(c, i)
    \/ \E i \in Item : Join(c, i)
    \/ Finish(c)

(* Every f is bounded by its timeouts, so a running task ends; a task that *)
(* ended is joined and an empty JoinSet ends the call.  Tokio's semaphore  *)
(* serves its waiters first come, first served, so a call site that waits  *)
(* while permits keep coming back gets one: strong fairness.               *)
Fairness ==
  \A c \in Caller :
    /\ SF_mapVars(Spawn(c))
    /\ \A i \in Item : WF_mapVars(Return(c, i) \/ Panic(c, i))
    /\ \A i \in Item : WF_mapVars(Join(c, i))
    /\ WF_mapVars(Finish(c))

Spec == Init /\ [][Next]_mapVars

FairSpec == Spec /\ Fairness

-----------------------------------------------------------------------------
(* Whatever the callers do and whichever tasks panic, the permits are all  *)
(* accounted for: each is in the semaphore or held by one task in flight.  *)
(* A leaked permit would slow, then stop, every later phase of a sweep; a  *)
(* permit returned twice would let more sockets open than --concurrency.   *)
PermitsConserved == free + Cardinality(Holders) = Permits

(* Over all the call sites together, never more than Permits tasks run f:  *)
(* --concurrency is a bound on the sweep, not one per call site.           *)
ConcurrencyBound == Cardinality(Holders) <= Permits

InFlight(c) == {i \in Item : task[c][i] # "none"}

(* Every item of c's call is waiting, in flight, collected or reported as  *)
(* dropped, in exactly one of the four.                                    *)
Accounted(c) ==
  LET waiting == Range(queue[c])
      collected == Range(out[c])
  IN /\ IsInjective(queue[c])
     /\ IsInjective(out[c])
     /\ asked[c] = waiting \cup InFlight(c) \cup collected \cup dropped[c]
     /\ waiting \cap InFlight(c) = {}
     /\ waiting \cap collected = {}
     /\ waiting \cap dropped[c] = {}
     /\ InFlight(c) \cap collected = {}
     /\ InFlight(c) \cap dropped[c] = {}
     /\ collected \cap dropped[c] = {}

(* No item is lost or handled twice, whichever tasks panic and in whatever *)
(* order the others end and are joined.                                    *)
EachItemOnce == \A c \in Caller : Accounted(c)

(* A call that has returned left nothing behind: no task of it is running  *)
(* or unjoined, and what it returned plus what it reported is all of it.   *)
ReturnedCallIsComplete ==
  \A c \in Caller :
    ~calling[c] => /\ queue[c] = <<>>
                   /\ InFlight(c) = {}
                   /\ asked[c] = Range(out[c]) \cup dropped[c]

(* No call site is starved by the others: every call returns.              *)
EveryCallReturns == \A c \in Caller : calling[c] ~> ~calling[c]

=============================================================================
