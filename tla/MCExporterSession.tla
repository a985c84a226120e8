------------------------- MODULE MCExporterSession -------------------------
(* Instances of ExporterSession for TLC. *)
EXTENDS ExporterSession, TLC

CONSTANTS c1, c2, c3, p1, b1, b2, s1, s2

\* Two connections race for one device; a third of the same peer asks for another one.
RacePeerOf == c1 :> p1 @@ c2 :> p1 @@ c3 :> p1
RaceBusOf == c1 :> b1 @@ c2 :> b1 @@ c3 :> b2
RaceSymmetry == Permutations({c1, c2}) \cup Permutations({s1, s2})

\* The run looks at one story at a time: two connections for one device under Shutdown, or,
\* without a Shutdown, a re-bind or a peer that wants two devices.
StoriesApart ==
    /\ pc'[c3] # "new" => (pc'[c1] = "new" \/ pc'[c2] = "new") /\ ~shutdown'
    /\ bound'[b2] \/ pc'[c3] # "new"
    /\ rebinds' > 0 => ~shutdown'

\* A device is bound again only once its last unbind has been announced to its sessions and
\* noticed.  What happens otherwise is the subject of SessionStaleUnbind.cfg.
RebindsAreSettled ==
    \A b \in BusIDs :
       ~bound[b] /\ bound'[b] =>
          b \notin uevents /\ \A c \in Conns : BusOf[c] = b => ~queued[c]

\* One connection.
OnePeerOf == c1 :> p1
OneBusOf == c1 :> b1
=============================================================================
