------------------------------- MODULE MCStores -------------------------------
(***************************************************************************)
(* Small instances of the stores' records for TLC: the ledger              *)
(* (LedgerPosting), the physical counts (StockCount) and the alerts about  *)
(* a SKU (AlertEngine).  They share no state here, so a behaviour runs one *)
(* of the Parts and the others stay where they began.                      *)
(***************************************************************************)
EXTENDS LedgerPosting, StockCount, AlertEngine, TLC

CONSTANTS
  Parts,          \* subset of {"ledger", "counts", "alerts"}
  e1, r1, r2, rr  \* an entry, two keys that ask to reverse it, one that reverses r1

VARIABLE part

OrigV == (e1 :> None) @@ (r1 :> e1) @@ (r2 :> e1) @@ (rr :> r1)

\* A SKU that is exactly on its target, one that has run out, and one with stock that
\* cannot be planned for two reasons.
InputsV ==
  {[onHand |-> 3, lacking |-> {}, live |-> TRUE],
   [onHand |-> 0, lacking |-> {}, live |-> TRUE],
   [onHand |-> 1, lacking |-> {"NO_LEAD_TIME", "NO_CONSUMPTION"}, live |-> TRUE]}

\* Sessions, people and requests are interchangeable: nothing orders them.  The same
\* names stand for the sweeps and the people of the alerts.
Symmetry == Permutations(Count) \cup Permutations(User) \cup Permutations(Request)

StoresInit ==
  /\ part \in Parts
  /\ LedgerInit /\ CountInit /\ AlertInit
  /\ part # "alerts" => inputs.onHand = 3

StoresNext ==
  \/ part = "ledger" /\ LedgerNext /\ UNCHANGED <<countVars, alertVars, part>>
  \/ part = "counts" /\ CountNext /\ UNCHANGED <<ledgerVars, alertVars, part>>
  \/ part = "alerts" /\ AlertNext /\ UNCHANGED <<ledgerVars, countVars, part>>

StoresSpec == StoresInit /\ [][StoresNext]_<<ledgerVars, countVars, alertVars, part>>

\* The alerts are followed up to their first slip: of what comes after it their property
\* says nothing.
Followed == slip = {}

-----------------------------------------------------------------------------
\* The documents of the ledger, of the counts and of the alerts hold what they may hold.
StoresTypeOK == LedgerTypeOK /\ CountTypeOK /\ AlertTypeOK
================================================================================
