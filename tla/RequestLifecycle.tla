-------------------------- MODULE RequestLifecycle --------------------------
(***************************************************************************)
(* What a ring promises about its request slots, whatever the threads and  *)
(* the kernel do: a slot that was handed out is either given back unused   *)
(* or submitted; a submitted request is completed once, on one thread, by  *)
(* its callback or, for a request without one, silently; and only after    *)
(* that callback has returned may the slot be handed out again.            *)
(***************************************************************************)
CONSTANT Slots

VARIABLE phase

Phases == {"free", "held", "submitted", "callback", "done"}

Init == phase = [s \in Slots |-> "free"]

Step(s, from, to) ==
  /\ phase[s] = from
  /\ phase' = [phase EXCEPT ![s] = to]

Acquire(s) == Step(s, "free", "held")
Release(s) == Step(s, "held", "free")
Submit(s)  == Step(s, "held", "submitted")
Deliver(s) == Step(s, "submitted", "callback")
Discard(s) == Step(s, "submitted", "done")
Finish(s)  == Step(s, "callback", "done")

\* Finished requests are given back in batches.
Recycle(S) ==
  /\ \A s \in S : phase[s] = "done"
  /\ phase' = [s \in Slots |-> IF s \in S THEN "free" ELSE phase[s]]

Next ==
  \/ \E s \in Slots : \/ Acquire(s) \/ Release(s) \/ Submit(s)
                      \/ Deliver(s) \/ Discard(s) \/ Finish(s)
  \/ \E S \in SUBSET Slots : Recycle(S)

Spec == Init /\ [][Next]_phase
=============================================================================
