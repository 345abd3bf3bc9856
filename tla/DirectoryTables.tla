--------------------------- MODULE DirectoryTables ---------------------------
(***************************************************************************)
(* The tables of users, leads, properties and customers, and the form of   *)
(* the handlers that write them.                                           *)
(***************************************************************************)
EXTENDS Integers, Sequences, FiniteSets

CONSTANTS UserIds, LeadIds, PropertyIds, CustomerIds,  \* primary keys
          Phones, Emails, Codes, Passwords,
          Null

\* What a service method does with the row it has loaded: whether it admits
\* the request, the SELECTs it then makes one after the other, and the
\* statement it writes and commits.
Handler(admits, checks, statement, set) ==
  [admits |-> admits, checks |-> checks, statement |-> statement, set |-> set]

\* No other row has the value; the row exists; it exists and is active.
Free(table, column, value) ==
  [kind |-> "free", table |-> table, column |-> column, value |-> value]
Exists(table, id) == [kind |-> "exists", table |-> table, column |-> "id", value |-> id]
Active(table, id) == [kind |-> "active", table |-> table, column |-> "id", value |-> id]

\* A code that no row has is drawn.
Generate == [kind |-> "generate", table |-> "properties", column |-> "code", value |-> Null]

\* A check that an optional value may make unnecessary.
IfGiven(value, check) == IF value = Null THEN <<>> ELSE <<check>>
IfSet(set, column, checks) == IF column \in DOMAIN set THEN checks ELSE <<>>
=============================================================================
