------------------------------ MODULE Policies ------------------------------
(***************************************************************************)
(* The insurance and the mortgages of a property: records that only the    *)
(* approval of a proposal writes (internal/ingest/apply.go) and that the   *)
(* console only lists (internal/httpapi/review.go).  Each filing runs in   *)
(* the transaction of Apply and is one step.                               *)
(*                                                                         *)
(* Statements come in any order, come again, and may carry no balance; a   *)
(* balance of zero is the mark for none.  Account numbers are stored       *)
(* sealed, and no two seals are alike, not even of one number: the model   *)
(* keeps the number and lets a comparison of seals fail.  Loan numbers,    *)
(* amounts other than the balance, agents, terms and documents are left    *)
(* out.                                                                    *)
(***************************************************************************)
EXTENDS Integers, FiniteSets, Tables

CONSTANTS
  PropertyIds, PolicyIds, MortgageIds, StatementIds,  \* bounds: rowids in use
  Carriers, Lenders,  \* names as extracted
  LongLenders,        \* those past the 200 characters that are kept
  CutLender,          \* what is kept of them
  Numbers,            \* account numbers
  HasKey,             \* whether RENTAL_BOT_SECRET_KEY is set
  Balances,           \* the balances a statement may carry, and 0
  LastDay             \* bound: the days dates range over

PolicyAssumption ==
  /\ PropertyIds \subseteq Nat /\ PolicyIds \subseteq Nat
  /\ MortgageIds \subseteq Nat /\ StatementIds \subseteq Nat
  /\ LongLenders \subseteq Lenders /\ CutLender \notin LongLenders
  /\ HasKey \in BOOLEAN
  /\ 0 \in Balances /\ Balances \subseteq Nat
  /\ LastDay \in Nat \ {0}

Days == 1 .. LastDay
Null == 0

Policy    == [property : PropertyIds, carrier : Carriers, number : Numbers \cup {Null}, from : Days]
Mortgage  == [property : PropertyIds, lender : Lenders \cup {CutLender},
              balance : Balances, asOf : Days \cup {Null}]
Statement == [mortgage : MortgageIds, day : Days, balance : Balances]

VARIABLES
  properties,   \* the ids on file
  policies,
  mortgages,
  statements

vars == <<properties, policies, mortgages, statements>>

TypeOK ==
  /\ properties \subseteq PropertyIds
  /\ DOMAIN policies \subseteq PolicyIds /\ \A i \in DOMAIN policies : policies[i] \in Policy
  /\ DOMAIN mortgages \subseteq MortgageIds /\ \A m \in DOMAIN mortgages : mortgages[m] \in Mortgage
  /\ DOMAIN statements \subseteq StatementIds
  /\ \A s \in DOMAIN statements : statements[s] \in Statement

Init ==
  /\ properties = {}
  /\ policies = NoRows /\ mortgages = NoRows /\ statements = NoRows

-----------------------------------------------------------------------------
(* The queries.                                                            *)

\* Every sealing has a nonce of its own, so two columns compare equal only where
\* there was no number and nothing was sealed.
EqualSeal(a, b) == FALSE              \* mutant: the empty number is sealed as well
SameSeal(a, b) == a = Null /\ b = Null

FindInsurancePolicy(p, carrier, number) ==
  {i \in DOMAIN policies : /\ policies[i].property = p
                           /\ policies[i].carrier = carrier
                           /\ SameSeal(policies[i].number, number)}

CreateInsurancePolicy(row) ==
  /\ NextId(policies) \in PolicyIds
  /\ policies' = With(policies, NextId(policies), row)

UpdateInsurancePolicy(i, row) == policies' = With(policies, i, row)

\* ORDER BY id LIMIT 1
FindMortgageByLender(p, lender) ==
  LET found == {m \in DOMAIN mortgages : mortgages[m].property = p /\ mortgages[m].lender = lender}
  IN  {m \in found : \A o \in found : m <= o}

CreateMortgage(row) == With(mortgages, NextId(mortgages), row)

\* UNIQUE (mortgage_id, statement_date)
Conflict(m, day) ==
  \E s \in DOMAIN statements : statements[s].mortgage = m /\ statements[s].day = day

CreateMortgageStatement(row) ==
  /\ NextId(statements) \in StatementIds
  /\ statements' = With(statements, NextId(statements), row)

SetMortgageBalanceAlways(table, m, balance, day) ==   \* mutant: the last one approved
  [table EXCEPT ![m].balance = balance, ![m].asOf = day]

\* Only forward: a statement out of order cannot walk the balance backwards.
SetMortgageBalance(table, m, balance, day) ==
  IF table[m].asOf <= day
    THEN [table EXCEPT ![m].balance = balance, ![m].asOf = day]
    ELSE table

\* ON DELETE CASCADE
DeleteProperty(p) ==
  LET gone == {m \in DOMAIN mortgages : mortgages[m].property = p}
  IN  /\ properties' = properties \ {p}
      /\ policies'   = Without(policies, {i \in DOMAIN policies : policies[i].property = p})
      /\ mortgages'  = Without(mortgages, gone)
      /\ statements' = Without(statements, {s \in DOMAIN statements : statements[s].mortgage \in gone})

-----------------------------------------------------------------------------
handleCreateProperty ==
  LET p == NextId([i \in properties |-> i])
  IN  /\ p \in PropertyIds
      /\ properties' = properties \cup {p}
      /\ UNCHANGED <<policies, mortgages, statements>>

handleDeleteProperty(p) ==
  /\ p \in properties
  /\ DeleteProperty(p)

\* Without a key a number is refused; without a number there is nothing to seal.
seal(number) == number # Null => HasKey

\* The latest reading wins, whatever its dates.
fileInsurance(p, carrier, number, from) ==
  LET row   == [property |-> p, carrier |-> carrier, number |-> number, from |-> from]
      found == FindInsurancePolicy(p, carrier, number)
  IN  /\ p \in properties
      /\ seal(number)
      /\ \/ found = {} /\ CreateInsurancePolicy(row)
         \/ \E i \in found : UpdateInsurancePolicy(i, row)
      /\ UNCHANGED <<properties, mortgages, statements>>

Clip(lender) == IF lender \in LongLenders THEN CutLender ELSE lender

\* The lender is looked up as it was read, and stored clipped.  A statement of
\* a day that is on file is refused, and with it all it would have written.
fileMortgageStatement(p, lender, number, day, balance) ==
  LET found == FindMortgageByLender(p, lender)
      fresh == found = {}
      m     == IF fresh THEN NextId(mortgages) ELSE CHOOSE m \in found : TRUE
      table == IF fresh THEN CreateMortgage([property |-> p, lender |-> Clip(lender),
                                             balance |-> 0, asOf |-> Null])
                        ELSE mortgages
  IN  /\ p \in properties
      /\ m \in MortgageIds
      /\ fresh => seal(number)
      /\ ~Conflict(m, day)
      /\ CreateMortgageStatement([mortgage |-> m, day |-> day, balance |-> balance])
      /\ mortgages' = IF balance = 0 THEN table ELSE SetMortgageBalance(table, m, balance, day)
      /\ UNCHANGED <<properties, policies>>

Next ==
  \/ handleCreateProperty
  \/ \E p \in PropertyIds :
       \/ handleDeleteProperty(p)
       \/ \E carrier \in Carriers, number \in Numbers \cup {Null}, from \in Days :
            fileInsurance(p, carrier, number, from)
       \/ \E lender \in Lenders, number \in Numbers \cup {Null}, day \in Days, b \in Balances :
            fileMortgageStatement(p, lender, number, day, b)

Spec == Init /\ [][Next]_vars

-----------------------------------------------------------------------------
\* The balance on a mortgage is the one of its newest statement that carries
\* one, in whatever order its statements came and were approved.
Carrying(m) == {s \in DOMAIN statements : statements[s].mortgage = m /\ statements[s].balance # 0}
BalanceIsNewest ==
  \A m \in DOMAIN mortgages :
    \/ Carrying(m) = {} /\ mortgages[m].asOf = Null
    \/ \E s \in Carrying(m) :
         /\ mortgages[m].asOf = statements[s].day
         /\ mortgages[m].balance = statements[s].balance
         /\ \A o \in Carrying(m) : statements[o].day <= statements[s].day

\* A lender whose name fits has one mortgage on a property, a day has one
\* statement of it, a carrier one policy without a number; and no row outlives
\* the one it belongs to.
FiledOnce ==
  /\ TypeOK
  /\ \A i \in DOMAIN policies : policies[i].property \in properties
  /\ \A m \in DOMAIN mortgages : mortgages[m].property \in properties
  /\ \A s \in DOMAIN statements : statements[s].mortgage \in DOMAIN mortgages
  /\ \A m, n \in DOMAIN mortgages :
       /\ mortgages[m].property = mortgages[n].property
       /\ mortgages[m].lender = mortgages[n].lender
       => m = n \/ mortgages[m].lender = CutLender
  /\ \A s, t \in DOMAIN statements :
       statements[s].mortgage = statements[t].mortgage /\ statements[s].day = statements[t].day
       => s = t
  /\ \A i, j \in DOMAIN policies :
       /\ policies[i].property = policies[j].property
       /\ policies[i].carrier = policies[j].carrier
       /\ policies[i].number = Null /\ policies[j].number = Null
       => i = j

\* apply.go: the same declaration page forwarded twice is one policy.
OnePolicyPerNumber ==
  \A i, j \in DOMAIN policies :
    /\ policies[i].property = policies[j].property
    /\ policies[i].carrier = policies[j].carrier
    /\ policies[i].number # Null
    /\ policies[i].number = policies[j].number
    => i = j
=============================================================================
