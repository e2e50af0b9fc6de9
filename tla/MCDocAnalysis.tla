---------------------------- MODULE MCDocAnalysis ----------------------------
(***************************************************************************)
(* Three documents: the audits speak for the protocol, the governance page *)
(* tells of open findings, a single key and an incident, and the page on   *)
(* its price feeds names an unknown provider.                              *)
(***************************************************************************)
EXTENDS DocAnalysis

MCDocuments == {"audits", "governance", "feeds"}

MCText ==
    [audits |-> {"review", "second"}, governance |-> {"findings", "admin", "hack"}, feeds |-> {"in-house"}]

Claim(kind, says, source, quote) ==
    [kind |-> kind, says |-> says, source |-> source, quote |-> quote, findings |-> 0, nth |-> 1]

Audit(findings, source, quote) ==
    [Claim("audit", "", source, quote) EXCEPT !.findings = findings]

\* What the pages say, one quote of it up to three times and one with a
\* negative number of findings; a misquoted or unsourced claim of each kind;
\* and a quote that is in another page.
MCClaims ==
    {[Audit(0, "audits", "review") EXCEPT !.nth = n] : n \in 1 .. 3}
      \cup {Audit(-1, "audits", "second"), Audit(1, "governance", "findings"),
            Audit(0, "governance", "invented"),
            Claim("oracle", "other", "feeds", "in-house"), Claim("oracle", "trusted", "governance", "in-house"),
            Claim("authority", "single_key", "governance", "admin"),
            Claim("authority", "timelock", "audits", "invented"),
            Claim("incident", "", "governance", "hack"), Claim("incident", "", "elsewhere", "")}

\* The middle of all scales, and one scale at a time further up or down.
Middle == [size |-> 2, drawdown |-> 2, bonus |-> 2, liquid |-> 2, age |-> 2]

MCFacts == {[Middle EXCEPT ![scale] = level] : scale \in DOMAIN Middle, level \in {0, 2, 3}}

=============================================================================
