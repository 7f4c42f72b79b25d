----------------------------- MODULE AgentPool -----------------------------
(***************************************************************************)
(* What the manager of sub-agents promises, whatever runs concurrently:    *)
(* agents take messages and answer them, an agent is busy while it has     *)
(* messages to answer, at most MaxConcurrent agents are busy and no two of *)
(* them have the same name.  An agent that dies answers nothing any more.  *)
(***************************************************************************)
EXTENDS Naturals, FiniteSets

CONSTANTS
  Agents,          \* agents that may be spawned
  Namesakes,       \* the pairs of agents that were given the same name
  MaxConcurrent    \* AgentManager::max_concurrent

VARIABLES
  open,            \* messages each agent has taken and not answered
  dead             \* agents that died

Busy == {a \in Agents : open[a] > 0}
Named(a) == {b \in Agents : <<a, b>> \in Namesakes}

Ask(a) ==
  /\ a \notin dead
  /\ Named(a) \cap Busy = {}
  /\ a \in Busy \/ Cardinality(Busy) < MaxConcurrent
  /\ open' = [open EXCEPT ![a] = @ + 1]
  /\ UNCHANGED dead

Answer(a) ==
  /\ a \notin dead /\ a \in Busy
  /\ open' = [open EXCEPT ![a] = @ - 1]
  /\ UNCHANGED dead

Die(a) ==
  /\ a \notin dead /\ a \in Busy
  /\ open' = [open EXCEPT ![a] = 0]
  /\ dead' = dead \cup {a}

Init == open = [a \in Agents |-> 0] /\ dead = {}

Next == \E a \in Agents : Ask(a) \/ Answer(a) \/ Die(a)

Spec == Init /\ [][Next]_<<open, dead>>
=============================================================================
