----------------------------- MODULE MCPgStore ------------------------------
(***************************************************************************)
(* Instances of PgStore.  The ids are numbers, whose order is that of the  *)
(* ids; the tables are not in the order in which they are locked.          *)
(***************************************************************************)
EXTENDS PgStore

MCName    == [u \in Users |-> IF u \in {3, 4} THEN "new" ELSE IF u = 5 THEN "root" ELSE IF u = 6 THEN "boss" ELSE "old"]
MCOwner   == [t \in Tokens |-> CASE t \in {11, 13, 15} -> 1 [] t \in {12, 14} -> 2 [] t = 16 -> 5 [] t = 17 -> 6 [] OTHER -> 2]
MCParties == [t \in Trades |-> {1, 2}]
MCBetween == [t \in Trades |-> {31, 32}]

\* 11 and 12 expired, 13 and 14 are in use, 15 to 17 are the ones to be made.
MCReq == [r \in Requests |->
  CASE r = "login1"  -> [kind |-> "login", user |-> 1, token |-> 15]
    [] r = "login2"  -> [kind |-> "login", user |-> 2, token |-> 18]
    [] r = "reset1"  -> [kind |-> "reset", user |-> 1]
    [] r = "accept1" -> [kind |-> "accept", token |-> 13, trade |-> 21]
    [] r = "accept2" -> [kind |-> "accept", token |-> 14, trade |-> 21]
    [] r = "import1" -> [kind |-> "import", token |-> 13, colony |-> 31, from |-> 32, envelope |-> "e"]
    [] r = "import2" -> [kind |-> "import", token |-> 14, colony |-> 32, from |-> 31, envelope |-> "e"]
    [] r = "import3" -> [kind |-> "import", token |-> 14, colony |-> 31, from |-> 32, envelope |-> "e"]
    [] r = "create3" -> [kind |-> "create", token |-> 13, user |-> 3, colony |-> 31]
    [] r = "create4" -> [kind |-> "create", token |-> 14, user |-> 4, colony |-> 32]
    [] r = "boot5"   -> [kind |-> "bootstrap", user |-> 5, token |-> 16]
    [] r = "boot6"   -> [kind |-> "bootstrap", user |-> 6, token |-> 17]]

Full ==
  [doc |-> [x \in Rows |-> IF x \in NewUsers \cup NewTokens THEN Absent ELSE 0],
   processed |-> [c \in Colonies |-> {}], ledger |-> [c \in Colonies |-> {}]]

Empty ==
  [Full EXCEPT !.doc = [x \in Rows |-> IF x \in Users \cup Tokens THEN Absent ELSE 0]]

MCTables == {Full, Empty}

\* Up to four requests at a time, of which three have a connection.
MCWorkloads ==
  {{"login1", "login2", "reset1", "accept1"}, {"create3", "create4", "boot5", "boot6"},
   {"accept1", "accept2", "import1"}, {"accept1", "import2", "reset1"},
   {"import1", "import2", "import3", "accept1"}, {"create3", "create4", "import1"},
   {"create3", "login1", "reset1"}, {"boot5", "boot6", "login2"}}

=============================================================================
