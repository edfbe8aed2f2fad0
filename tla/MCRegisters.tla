----------------------------- MODULE MCRegisters -----------------------------
(***************************************************************************)
(* The registers for TLC.  They share no state, so one run explores each   *)
(* of them with the others at rest: its states are the sum of theirs and   *)
(* not the product.  What Registers allows besides is steps of one between *)
(* those of another, which none of them can see.                           *)
(***************************************************************************)
EXTENDS Registers

NextAtRest ==
  \/ L!Init /\ P!Init /\ D!Init /\ W!Init /\ TStep
  \/ T!Init /\ P!Init /\ D!Init /\ W!Init /\ LStep
  \/ T!Init /\ L!Init /\ D!Init /\ W!Init /\ PStep
  \/ T!Init /\ L!Init /\ P!Init /\ W!Init /\ DStep
  \/ T!Init /\ L!Init /\ P!Init /\ D!Init /\ WStep

SpecAtRest == Init /\ [][NextAtRest]_vars

MCCents == {-1, 1}
=============================================================================
