---------------------------- MODULE ProposalGate ----------------------------
(***************************************************************************)
(* What the review gate of internal/ingest promises, whoever calls it and  *)
(* however often: a proposal is put up once, it is decided once, and a     *)
(* record comes into the books only in the step that decides for it.       *)
(***************************************************************************)
EXTENDS Naturals

CONSTANT Props      \* proposals

VARIABLES
  standing,  \* "none", "open", or the decision: "filed" or "refused"
  books      \* how many records each proposal has put into the books

gateVars == <<standing, books>>

Init ==
  /\ standing = [p \in Props |-> "none"]
  /\ books    = [p \in Props |-> 0]

PutUp(p) ==
  /\ standing[p] = "none"
  /\ standing' = [standing EXCEPT ![p] = "open"]
  /\ UNCHANGED books

File(p) ==
  /\ standing[p] = "open"
  /\ standing' = [standing EXCEPT ![p] = "filed"]
  /\ books'    = [books EXCEPT ![p] = @ + 1]

Refuse(p) ==
  /\ standing[p] = "open"
  /\ standing' = [standing EXCEPT ![p] = "refused"]
  /\ UNCHANGED books

Next == \E p \in Props : PutUp(p) \/ File(p) \/ Refuse(p)

Spec == Init /\ [][Next]_gateVars

=============================================================================
