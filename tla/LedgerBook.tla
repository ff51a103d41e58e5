------------------------------ MODULE LedgerBook ------------------------------
(***************************************************************************)
(* What the stock ledger promises: an append-only book with one entry per  *)
(* idempotency key, in which an entry is taken back by at most one         *)
(* contra-entry.  The exception is named: an entry is doubtful once a      *)
(* contra-entry of it was committed and its caller was told it failed.     *)
(***************************************************************************)

CONSTANTS
  Key,   \* idempotency keys; one posting each
  Orig,  \* Orig[k]: the entry that key k reverses, or None
  None

VARIABLES
  book,     \* the keys posted
  doubtful  \* entries with a contra-entry nobody was told of

BookInit == book = {} /\ doubtful = {}

Contras(m) == {k \in book : Orig[k] = m}

\* A posting with a new key.
Append(k) ==
  /\ k \in Key \ book
  /\ Orig[k] = None
  /\ book' = book \cup {k}
  /\ UNCHANGED doubtful

\* A reversal: of an entry that is there, is not itself a reversal, and has not
\* been reversed before.  It may come out doubtful.
Reverse(k) ==
  /\ k \in Key \ book
  /\ Orig[k] \in book
  /\ Orig[Orig[k]] = None
  /\ Contras(Orig[k]) = {} \/ Orig[k] \in doubtful
  /\ book' = book \cup {k}
  /\ doubtful' \in {doubtful, doubtful \cup {Orig[k]}}

BookNext == \E k \in Key : Append(k) \/ Reverse(k)

BookSpec == BookInit /\ [][BookNext]_<<book, doubtful>>
===============================================================================
