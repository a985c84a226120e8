----------------------------- MODULE EventStream -----------------------------
(***************************************************************************)
(* What WatchSessions and Importer.Watch promise a consumer.  A stream     *)
(* accepts events, some of those published, until it is barred; it hands   *)
(* them over once each and in the order it accepted them; and when it ends *)
(* because its owner shut down, it ends after the last event it accepted.  *)
(* A consumer that stops or cancels, or a kernel source that dies, may     *)
(* leave accepted events behind.                                           *)
(***************************************************************************)
EXTENDS Integers, Sequences

CONSTANTS Streams, Events

VARIABLES accepted, delivered, barred, ended

Init ==
    /\ accepted = [w \in Streams |-> << >>]
    /\ delivered = [w \in Streams |-> << >>]
    /\ barred = [w \in Streams |-> FALSE]
    /\ ended = [w \in Streams |-> "no"]

Accept(w, e) ==
    /\ ~barred[w]
    /\ accepted' = [accepted EXCEPT ![w] = Append(@, e)]
    /\ UNCHANGED <<delivered, barred, ended>>

Bar(w) ==
    /\ barred' = [barred EXCEPT ![w] = TRUE]
    /\ UNCHANGED <<accepted, delivered, ended>>

NextUp(w) == accepted[w][Len(delivered[w]) + 1]

(* A consumer may stop with the event it has just been handed. *)
Deliver(w) ==
    /\ ended[w] = "no"
    /\ Len(delivered[w]) < Len(accepted[w])
    /\ delivered' = [delivered EXCEPT ![w] = Append(@, NextUp(w))]
    /\ \E how \in {"no", "stopped"} : ended' = [ended EXCEPT ![w] = how]
    /\ UNCHANGED <<accepted, barred>>

EndDrained(w) ==
    /\ ended[w] = "no"
    /\ barred[w]
    /\ delivered[w] = accepted[w]
    /\ ended' = [ended EXCEPT ![w] = "drained"]
    /\ UNCHANGED <<accepted, delivered, barred>>

EndStopped(w) ==
    /\ ended[w] = "no"
    /\ ended' = [ended EXCEPT ![w] = "stopped"]
    /\ UNCHANGED <<accepted, delivered, barred>>

Next ==
    \E w \in Streams :
        \/ \E e \in Events : Accept(w, e)
        \/ Bar(w) \/ Deliver(w) \/ EndDrained(w) \/ EndStopped(w)

Spec == Init /\ [][Next]_<<accepted, delivered, barred, ended>>
=============================================================================
