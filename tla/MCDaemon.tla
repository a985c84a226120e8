------------------------------ MODULE MCDaemon ------------------------------
(* Instances of Daemon for TLC: daemons, connections and drain clients are model values.  *)
EXTENDS Daemon

(* A bound on what overlaps.  Importers connect only while one daemon runs: a Shutdown    *)
(* that waits for sessions and one that does not reach the same states of the path.  A    *)
(* drain request and a second daemon overlap only when the second comes as a successor,   *)
(* after the drained one shut down and closed its listener; two rivals for the path are   *)
(* left alone by drain clients.                                                           *)
OneStoryAtATime ==
    Cardinality({d \in Daemons : Running(d)'}) > 1 =>
        \A d \in Daemons : /\ handshakes'[d] = {} /\ sessions'[d] = {}
                           /\ drain'[d] # "none" => d \notin lis' /\ ShutdownReturned(d)'

MCNext == Next /\ OneStoryAtATime

MCSpec == Init /\ [][MCNext]_vars /\ Fairness
=============================================================================
