----------------------------- MODULE ServerLedger -----------------------------
(* The server implements the abstract ledger: the mutex kept from get to set   *)
(* makes each increment atomic, and a check is answered with the record of one *)
(* moment.                                                                     *)
EXTENDS ServerProperties

Phase == [r \in Reqs |-> CASE pc[r] = "new"  -> "idle"
                           [] pc[r] = "done" -> "answered"
                           [] OTHER          -> "open"]

L == INSTANCE Ledger WITH phase <- Phase

\* The records and the answers of the server are those of the ledger: every
\* interleaving of the workers' database operations is one of atomic increments
\* and look-ups (with_database, DigestDatabase::report, really_handle).
RefinesLedger == L!LSpec
=============================================================================
