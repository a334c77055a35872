----------------------------- MODULE RunContract -----------------------------
(***************************************************************************)
(* What the Host promises about every accepted Run of a Session, without   *)
(* saying how: a Run waits, lives, may be asked to stop, and ends once, in *)
(* one outcome.  Any number of Runs may move in one step.                  *)
(***************************************************************************)
EXTENDS Integers

CONSTANT Runs

VARIABLES
  phase,  \* where each Run is in its life
  proof   \* the Runs whose execution is known to have returned a result

vars == <<phase, proof>>

Outcomes == {"completed", "failed", "cancelled", "interrupted"}
Phases == {"none", "waiting", "live", "stopping"} \cup Outcomes

\* A Run asked to stop ends cancelled, or interrupted when the Host is lost.
Moves ==
  {<<"none", "waiting">>, <<"none", "live">>,
   <<"waiting", "live">>, <<"waiting", "cancelled">>,
   <<"live", "stopping">>,
   <<"live", "completed">>, <<"live", "failed">>, <<"live", "interrupted">>,
   <<"stopping", "cancelled">>, <<"stopping", "interrupted">>}

Init ==
  /\ phase = [r \in Runs |-> "none"]
  /\ proof = {}

OneLive(p) == \A r, s \in Runs : p[r] = "live" /\ p[s] = "live" => r = s

Advance ==
  /\ phase' \in [Runs -> Phases]
  /\ \A r \in Runs : phase'[r] # phase[r] => <<phase[r], phase'[r]>> \in Moves
  /\ \A r \in Runs : phase[r] = "live" /\ phase'[r] = "completed" => r \in proof
  /\ OneLive(phase')
  /\ UNCHANGED proof

Prove(r) ==
  /\ phase[r] \notin {"none", "waiting"}
  /\ proof' = proof \cup {r}
  /\ UNCHANGED phase

Next == Advance \/ \E r \in Runs : Prove(r)

Spec == Init /\ [][Next]_vars
=============================================================================
