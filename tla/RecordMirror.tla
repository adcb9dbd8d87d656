---------------------------- MODULE RecordMirror ----------------------------
(***************************************************************************)
(* What the event processor promises of each record it mirrors: the source *)
(* counts the revisions it has written, the mirror shows one of them, and  *)
(* never an older one than it showed before. Revisions may be skipped.     *)
(***************************************************************************)
EXTENDS Naturals

CONSTANT Key
VARIABLES written, shown

Init ==
  /\ written = [k \in Key |-> 0]
  /\ shown = [k \in Key |-> 0]

Write(k) ==
  /\ written' = [written EXCEPT ![k] = @ + 1]
  /\ UNCHANGED shown

Show(k) ==
  /\ \E rev \in shown[k]..written[k] : shown' = [shown EXCEPT ![k] = rev]
  /\ UNCHANGED written

Next == \E k \in Key : Write(k) \/ Show(k)

Spec == Init /\ [][Next]_<<written, shown>>
=============================================================================
