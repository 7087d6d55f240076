------------------------------- MODULE MCPanel -------------------------------
(***************************************************************************)
(* Every page of the panel, one after the other, for TLC.                  *)
(***************************************************************************)
EXTENDS WebPanel, TLC

AllPages ==
  {"console", "websites", "email", "billing", "files", "backups", "accounts", "databases",
   "domains", "tools", "site", "php", "webservers", "support", "servers", "lists"}

\* The pages with the most panes and selections are given one fetch less.
Asks == [p \in AllPages |->
           IF p \in {"console", "accounts", "billing", "email", "files", "backups", "domains", "php", "webservers",
                     "websites"} THEN 1 ELSE 2]

\* No page tells its items apart.
Symmetry == Permutations(Items)
=============================================================================
