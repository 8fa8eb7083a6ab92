---------------------------- MODULE EventLedger ----------------------------
(***************************************************************************)
(* What the pipeline promises about each event, whatever queues, workers   *)
(* and goroutines it is made of: an event that has been received is closed *)
(* at most once, as Completed or as Expired, and it can vanish without a   *)
(* verdict only once it is at risk: its own team is being shut down, its   *)
(* own publish failed, or the broker connection is lost.  TeamWorkers      *)
(* implements this module.                                                 *)
(***************************************************************************)
CONSTANT Events

VARIABLES fate,   \* what has become of each event
          atRisk  \* the events a disturbance has exposed

ledgerVars == <<fate, atRisk>>

Fates == {"unseen", "open", "Completed", "Expired", "lost"}

LedgerTypeOK == /\ fate \in [Events -> Fates]
                /\ atRisk \subseteq Events

Init == /\ fate = [e \in Events |-> "unseen"]
        /\ atRisk = {}

Receive(e) == /\ fate[e] = "unseen"
              /\ fate' = [fate EXCEPT ![e] = "open"]
              /\ UNCHANGED atRisk

Close(e, verdict) == /\ fate[e] = "open"
                     /\ fate' = [fate EXCEPT ![e] = verdict]
                     /\ UNCHANGED atRisk

Expose(S) == /\ atRisk' = atRisk \cup S
             /\ UNCHANGED fate

\* Buffered deliveries are lost together, so one step may lose several
\* events; an event may also be lost as it is received, or by the very
\* disturbance that exposes it.
Lose(S, exposed) ==
  /\ atRisk' = atRisk \cup exposed
  /\ S \subseteq atRisk'
  /\ \A e \in S : fate[e] \in {"unseen", "open"}
  /\ fate' = [e \in Events |-> IF e \in S THEN "lost" ELSE fate[e]]

Next == \/ \E e \in Events : Receive(e)
        \/ \E e \in Events, verdict \in {"Completed", "Expired"} : Close(e, verdict)
        \/ \E S \in SUBSET Events : Expose(S) \/ \E exposed \in SUBSET Events : Lose(S, exposed)

Spec == Init /\ [][Next]_ledgerVars
=============================================================================
