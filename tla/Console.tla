------------------------------- MODULE Console -------------------------------
(***************************************************************************)
(* What the console and the two channels keep about themselves: signing    *)
(* in, the token budget, the paired chat, the connected mailbox, the       *)
(* schema, and the addresses documents are matched by.  Each keeps to its own tables and memory, so a step is a step   *)
(* of one of them and leaves the others alone.                             *)
(***************************************************************************)
EXTENDS Integers

CONSTANTS
  Requests, Logins, MaxSignIns, MaxResets, SessionTTL, Slide, LastSignInDay,   \* Sessions
  Workers, Limit, MaxCalls, MaxMonths, MaxRestarts,                            \* Budget
  Chats, Issuers, MaxCodes, MaxUpdates, MaxUnpairs, LastPairingDay,            \* TelegramPairing
  Actors, Boxes, MaxTokens,                                                    \* GmailAccount
  Processes, Releases, MaxStarts,                                              \* Migrations
  PropertyIds, Buildings, Addresses, Documents                                 \* Matching

VARIABLES
  sToday, sessions, password, weak, looking, signing, resetting, sIssued, promised, ended,
  spent, fresh, tripped, ledger, open, worker, month, bStarts, paid, bLost, bCrossed,
  pRow, pToday, issuing, pIssued, said, offset, handling, pStarts, unpairs, since, pairings,
  gRow, live, box, made, actor, gStarts, gLost, gCrossed,
  recorded, schema, process, mStarts,
  rows, asked

sVars == <<sToday, sessions, password, weak, looking, signing, resetting, sIssued, promised, ended>>
bVars == <<spent, fresh, tripped, ledger, open, worker, month, bStarts, paid, bLost, bCrossed>>
pVars == <<pRow, pToday, issuing, pIssued, said, offset, handling, pStarts, unpairs, since, pairings>>
gVars == <<gRow, live, box, made, actor, gStarts, gLost, gCrossed>>
mVars == <<recorded, schema, process, mStarts>>
aVars == <<rows, asked>>
vars  == <<sVars, bVars, pVars, gVars, mVars, aVars>>

S == INSTANCE Sessions WITH
       TTL <- SessionTTL, LastDay <- LastSignInDay, today <- sToday, issued <- sIssued
B == INSTANCE Budget WITH
       MaxStarts <- MaxRestarts, starts <- bStarts, lost <- bLost, crossed <- bCrossed
P == INSTANCE TelegramPairing WITH
       MaxStarts <- MaxRestarts, LastDay <- LastPairingDay,
       row <- pRow, today <- pToday, issued <- pIssued, starts <- pStarts
G == INSTANCE GmailAccount WITH
       MaxStarts <- MaxRestarts, row <- gRow, starts <- gStarts, lost <- gLost, crossed <- gCrossed
M == INSTANCE Migrations WITH starts <- mStarts
A == INSTANCE Matching

ASSUME ConsoleAssumption ==
  /\ S!SessionAssumption /\ B!BudgetAssumption /\ P!PairingAssumption
  /\ G!AccountAssumption /\ M!MigrationAssumption /\ A!MatchingAssumption

Init == S!Init /\ B!Init /\ P!Init /\ G!Init /\ M!Init /\ A!Init

SStep == S!Next /\ UNCHANGED <<bVars, pVars, gVars, mVars, aVars>>
BStep == B!Next /\ UNCHANGED <<sVars, pVars, gVars, mVars, aVars>>
PStep == P!Next /\ UNCHANGED <<sVars, bVars, gVars, mVars, aVars>>
GStep == G!Next /\ UNCHANGED <<sVars, bVars, pVars, mVars, aVars>>
MStep == M!Next /\ UNCHANGED <<sVars, bVars, pVars, gVars, aVars>>
AStep == A!Next /\ UNCHANGED <<sVars, bVars, pVars, gVars, mVars>>

Next == SStep \/ BStep \/ PStep \/ GStep \/ MStep \/ AStep

Spec == Init /\ [][Next]_vars

-----------------------------------------------------------------------------
(* The properties, each under the name it has there.                       *)

SessionsHold == S!SessionsHold
BreakerHolds == B!BreakerHolds
PairedOnce == P!PairedOnce
AccountKeeps == G!AccountKeeps
MigratedOnce == M!MigratedOnce
MatchedAsStated == A!MatchedAsStated
=============================================================================
