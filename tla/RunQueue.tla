------------------------------ MODULE RunQueue ------------------------------
(***************************************************************************)
(* What a run group promises of its child runs.  They are executed in the  *)
(* order of their days, one at a time and each at most once.  When the     *)
(* execution is abandoned, every run that was still waiting is settled     *)
(* without ever having been active, and nothing starts after that.  An     *)
(* execution may also just stop, and then what waits goes on waiting.      *)
(***************************************************************************)
EXTENDS Naturals

CONSTANT Count     \* the number of child runs

VARIABLES phase,    \* run -> "waiting", "active" or "settled"
          abandoned \* whether the execution was given up

queueVars == <<phase, abandoned>>

QueueInit ==
  /\ phase = [i \in 1 .. Count |-> "waiting"]
  /\ abandoned = FALSE

Start(i) ==
  /\ ~abandoned
  /\ phase[i] = "waiting"
  /\ \A j \in 1 .. i - 1 : phase[j] = "settled"
  /\ phase' = [phase EXCEPT ![i] = "active"]
  /\ UNCHANGED abandoned

Settle(i) ==
  /\ phase[i] = "active"
  /\ phase' = [phase EXCEPT ![i] = "settled"]
  /\ UNCHANGED abandoned

Abandon ==
  /\ ~abandoned
  /\ abandoned' = TRUE
  /\ phase' = [i \in 1 .. Count |-> "settled"]

QueueNext ==
  \/ \E i \in 1 .. Count : Start(i) \/ Settle(i)
  \/ Abandon

QueueSpec == QueueInit /\ [][QueueNext]_queueVars
=============================================================================
