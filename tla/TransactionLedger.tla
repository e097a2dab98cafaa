--------------------------- MODULE TransactionLedger ---------------------------
(***************************************************************************)
(* What the transaction store promises, without files, locks or crashes:   *)
(* transactions are opened one at a time, in the order of their ids, and   *)
(* every one that was opened keeps the verdict it was closed with.         *)
(***************************************************************************)
EXTENDS Naturals

CONSTANTS
  Ids,        \* transaction ids, in the order they are given out
  Verdicts,   \* how a transaction may end
  Open        \* what stands in the place of a verdict until there is one

VARIABLES
  opened,     \* the ids given out so far
  verdict     \* the verdict of every id

ledgerVars == <<opened, verdict>>

Init ==
  /\ opened \in {{}, {1}}
  /\ verdict \in [Ids -> Verdicts \union {Open}]
  /\ \A id \in Ids \ opened : verdict[id] = Open

\* A transaction may be opened only when no other is still open.
OpenNext ==
  /\ \A id \in opened : verdict[id] # Open
  /\ \E id \in Ids \ opened :
       /\ \A other \in opened : other < id
       /\ opened' = opened \union {id}
  /\ UNCHANGED verdict

\* The open transaction ends, once and for all.
Close ==
  /\ \E id \in opened, v \in Verdicts :
       /\ verdict[id] = Open
       /\ verdict' = [verdict EXCEPT ![id] = v]
  /\ UNCHANGED opened

Next == OpenNext \/ Close

Spec == Init /\ [][Next]_ledgerVars
================================================================================
