------------------------------ MODULE EventLog ------------------------------
(***************************************************************************)
(* What an event store promises: one log per aggregate that only grows at  *)
(* its end.  An entry is the list of the copies kept of one event, so an   *)
(* entry with a payload twice, or with none, is not a log.                 *)
(***************************************************************************)
EXTENDS Sequences

CONSTANTS Aggregates, Payloads

VARIABLE log

Init == log = [a \in Aggregates |-> <<>>]

\* what log l may become when events are appended for a, one or two at once
Additions == {<<<<p>>>> : p \in Payloads} \cup {<<<<p>>, <<q>>>> : p, q \in Payloads}
Longer(l, a) == {[l EXCEPT ![a] = @ \o new] : new \in Additions}

Next == \E a \in Aggregates : log' \in Longer(log, a)

Spec == Init /\ [][Next]_log
=============================================================================
