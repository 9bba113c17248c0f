---------------------------- MODULE MCNameServers ----------------------------
(* Three hosts: one with three addresses, one with a single address, and one *)
(* that is missing from ip_lookuptable and from the top level's records.      *)
EXTENDS NameServers

CONSTANTS alice, bob

MCHosts == {"cse.srm.edu", "www.nit.edu", "new.co.in"}

MCDomain ==
  [root |-> [h \in MCHosts |-> IF h = "new.co.in" THEN "in" ELSE "edu"],
   tld  |-> [h \in MCHosts |-> CASE h = "cse.srm.edu" -> "srm.edu"
                                 [] h = "www.nit.edu" -> "nit.edu"
                                 [] OTHER -> "co.in"]]

MCAddresses == [h \in MCHosts |-> IF h = "www.nit.edu" THEN 1 ELSE 3]
MCTable == {"cse.srm.edu", "www.nit.edu"}

\* Two records, on lines that all end, or all but the last.
Text(m, n) == {<<Record(m), NL, Record(n), NL>>, <<Record(m), NL, Record(n)>>}

\* The files of the root and of the top level end alike; they or the
\* authoritative one end without a newline, and what it holds matters then.
MCFiles ==
  {f \in [root : Text("in", "edu"),
          tld  : Text("srm.edu", "nit.edu"),
          auth : Text("cse.srm.edu", "www.nit.edu") \cup Text("new.co.in", "cse.srm.edu")] :
     /\ Ends(f.root) <=> Ends(f.tld)
     /\ Ends(f.root) \/ (Ends(f.auth) /\ f.auth[1] = Record("cse.srm.edu"))}
InOrder(f) == \A s \in Zones : Ends(f[s])

Scenario(r, sp, f, up, a, b, n) ==
  [recursive |-> r, splits |-> sp, files |-> f, up |-> up,
   asks |-> [c \in Client |-> IF c = alice THEN a ELSE b], stops |-> n]

\* All servers run, over any files; or the files are in order, the servers are
\* started in any order, and one process is stopped.
MCScenarios ==
  {sc \in {Scenario(r, sp, f, Servers, 2, IF InOrder(f) THEN 2 ELSE 1, 0) :
               r \in BOOLEAN, sp \in BOOLEAN, f \in MCFiles} :
     InOrder(sc.files) => ~sc.splits}
  \cup
  {Scenario(r, FALSE, f, {}, 1, 1, 1) : r \in BOOLEAN,
     f \in {g \in MCFiles : InOrder(g) /\ g.auth[1] # Record("new.co.in")}}

=============================================================================
