------------------------------ MODULE MCConsole ------------------------------
(***************************************************************************)
(* The parts of the console for TLC.  As in MCRegisters, one run explores  *)
(* each with the others at rest.                                           *)
(***************************************************************************)
EXTENDS Console, Sequences, TLC

\* Versions 1 to 3, the second of which came later, and the third as it was changed.
File(version, sum) == [version |-> version, sum |-> sum]
Release1 == {File(1, "a"), File(3, "a")}
Release2 == {File(1, "a"), File(2, "a"), File(3, "a")}
Release3 == {File(1, "a"), File(2, "a"), File(3, "b")}
MCReleases == {Release1, Release2, Release3}

\* Two houses of one number and street in two towns, a street with a suffix for
\* a name and a direction before it, and a street with a direction after it.
At(street, city, state, postal) ==
  [street |-> street, city |-> city, state |-> state, postal |-> postal]
Spelled ==
  [elm  |-> {At(<<"412", "ELM", "STREET">>, <<"ATHENS">>, <<"OH">>, <<"z45701", "2233">>),
             At(<<"412", "ELM", "ST", "APT", "2">>, <<"ATHENS">>, <<"OHIO">>, <<"z45701">>),
             At(<<"412", "ELM", "ST">>, <<>>, <<>>, <<>>)},
   elm2 |-> {At(<<"412", "ELM", "ST">>, <<"COLUMBUS">>, <<"OH">>, <<"z43215">>)},
   mill |-> {At(<<"3", "NORTH", "MILL", "RD">>, <<"WEST", "END">>, <<"NEW", "HAMPSHIRE">>, <<"z03301">>)},
   oak  |-> {At(<<"88", "OAK", "AVENUE", "NW", "#", "2">>, <<"ATHENS">>, <<"OH">>, <<"z45701">>)}]
Doc(of, parts) == [of |-> of, parts |-> parts]
Post ==
  {Doc("elm", <<<<"412", "ELM", "ST">>, <<"ATHENS">>, <<"OHIO", "z457012233">>>>),
   Doc("elm", <<<<"412", "ELM", "STREET", "UNIT", "2">>, <<"ATHENS">>, <<"OH">>, <<"z45701">>>>),
   Doc("elm", <<<<"412", "ELM", "ST">>>>),
   Doc("elm2", <<<<"#", "1", "412", "ELM", "STREET">>, <<"COLUMBUS">>, <<"OH", "z43215">>>>),
   Doc("mill", <<<<"3", "N", "MILL", "ROAD">>, <<"WEST">>, <<"END">>, <<"NEW", "HAMPSHIRE", "z03301">>>>),
   Doc("oak", <<<<"88", "OAK", "AVE", "NORTHWEST">>, <<"ATHENS">>, <<"OH", "z45701">>>>),
   Doc("oak", <<>>)}

MCBuildings == DOMAIN Spelled

Alike == Permutations(Requests) \cup Permutations(Chats)

\* The hash is of either parameters at first, which is nothing to the others.
AtRest == S!Init /\ ~weak

NextAtRest ==
  \/ B!Init /\ P!Init /\ G!Init /\ M!Init /\ A!Init /\ SStep
  \/ AtRest /\ P!Init /\ G!Init /\ M!Init /\ A!Init /\ BStep
  \/ AtRest /\ B!Init /\ G!Init /\ M!Init /\ A!Init /\ PStep
  \/ AtRest /\ B!Init /\ P!Init /\ M!Init /\ A!Init /\ GStep
  \/ AtRest /\ B!Init /\ P!Init /\ G!Init /\ A!Init /\ MStep
  \/ AtRest /\ B!Init /\ P!Init /\ G!Init /\ M!Init /\ AStep

SpecAtRest == Init /\ [][NextAtRest]_vars
=============================================================================
