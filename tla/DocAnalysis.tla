----------------------------- MODULE DocAnalysis -----------------------------
(***************************************************************************)
(* One protocol's pass through analyzeDocs in live mode: its documents are *)
(* fetched (services/ingestion/src/jobs.ts), a language model extracts     *)
(* facts from those that could be (services/analytics/app/llm.py), what    *)
(* they do not support is dropped, and fixed rules turn the rest and the   *)
(* pool's figures into a score (risk.py).  Everything may fail; the client *)
(* retries a request (analytics.ts) and the service an invalid reply.      *)
(*                                                                         *)
(* A reply is a list of claims, each of a kind, with what it says, the     *)
(* document and the quote it cites; whether the quote bears out what the   *)
(* claim says, or was cited before, is not looked at.  The rules see how   *)
(* often a claim is in the list and not where: nth numbers its copies.  An *)
(* audit's findings are its critical_findings_unresolved, in any unit that *)
(* makes them whole, and may be negative; an incident's quote is its       *)
(* passage, which the code does not ask for.  The pool's figures are       *)
(* levels from 0 to F of their scales; the score is exact, where the code  *)
(* is in doubles (they may differ at a tie of the final rounding).         *)
(* Storing and publishing the score is Ingestion's and RiskPublisher's     *)
(* subject.                                                                *)
(***************************************************************************)
EXTENDS Integers, FiniteSets

CONSTANTS
    Documents,  \* the protocol's doc_urls
    Text,       \* the quotes each document contains
    Claims,     \* what the model may claim
    F, Facts,   \* the top level; the figures a pool may have
    Tries,      \* requests a client makes before it gives up: 5
    Replies     \* replies the service asks for in one request: 3

Audits(claims) == {c \in claims : c.kind = "audit"}
Incidents(claims) == {c \in claims : c.kind = "incident"}

\* The schema: any audits and incidents, at most one authority and oracle.
WellFormed(claims) ==
    \A c, d \in claims : c.kind = d.kind /\ c # d => c.kind \in {"audit", "incident"}

SameEntry(c, d) ==
    /\ c.kind = d.kind /\ c.says = d.says /\ c.findings = d.findings
    /\ c.source = d.source /\ c.quote = d.quote

\* A list has a second copy of an entry only if it has a first.
Numbered(claims) ==
    \A c \in claims : c.nth = 1 \/ \E d \in claims : SameEntry(c, d) /\ d.nth = c.nth - 1

Extractions == {claims \in SUBSET Claims : WellFormed(claims) /\ Numbered(claims)}

\* What it allows an authority to be, and what tells oracle providers apart.
Authorities == {"immutable", "timelock", "multisig", "unknown", "single_key"}
Oracles == {"trusted", "other", "none"}

ASSUME AnalysisAssumption ==
    /\ Documents # {}
    /\ F \in Nat \ {0} /\ Tries \in Nat \ {0} /\ Replies \in Nat \ {0}
    /\ Facts \subseteq [size : 0 .. F, drawdown : 0 .. F, bonus : 0 .. F, liquid : 0 .. F, age : 0 .. F]
    /\ IsFiniteSet(Claims)
    /\ \A c \in Claims :
          /\ c.nth \in Nat \ {0} /\ c.findings \in Int
          /\ c.kind = "authority" => c.says \in Authorities
          /\ c.kind = "oracle" => c.says \in Oracles

VARIABLES
    facts,      \* the pool's figures
    todo, docs, \* documents still to be fetched; the ones that were
    stage,      \* what analyzeDocs is at
    try, reply, \* requests made so far; replies so far in this one
    claims,     \* the extraction
    score       \* its score, or -1

analysisVars == <<facts, todo, docs, stage, try, reply, claims, score>>

NoScore == -1

AnalysisInit ==
    /\ facts \in Facts
    /\ todo = Documents /\ docs = {}
    /\ stage = "fetch"
    /\ try = 1 /\ reply = 1
    /\ claims = {} /\ score = NoScore

-----------------------------------------------------------------------------
(* fetchDocs *)

\* Without a single document there is nothing to ask.
Fetched(got) == stage' = IF todo' # {} THEN "fetch" ELSE IF got = {} THEN "score" ELSE "ask"

\* A document that cannot be fetched contributes nothing.
FetchDoc ==
    /\ stage = "fetch"
    /\ \E d \in todo :
          /\ todo' = todo \ {d}
          /\ docs' \in {docs, docs \cup {d}}
          /\ Fetched(docs')
    /\ UNCHANGED <<facts, try, reply, claims, score>>

-----------------------------------------------------------------------------
(* extract_facts *)

\* A slip the properties must catch: only the source is looked up.
SourceKnown(c) == c.source \in docs

\* The quote is found in the document that the claim cites.
QuoteOk(c) == c.source \in docs /\ c.quote \in Text[c.source]

\* An incident only has a source.
Supported(c) == IF c.kind = "incident" THEN c.source \in docs ELSE QuoteOk(c)

\* A valid reply: what the documents do not support is dropped.
Answer ==
    /\ stage = "ask"
    /\ \E said \in Extractions : claims' = {c \in said : Supported(c)}
    /\ try' = 1 /\ reply' = 1
    /\ stage' = "score"
    /\ UNCHANGED <<facts, todo, docs, score>>

\* The client's next request, or the end of the job's attempt.
Retry ==
    /\ reply' = 1
    /\ IF try < Tries THEN try' = try + 1 /\ UNCHANGED stage ELSE stage' = "failed" /\ UNCHANGED try

\* Not JSON, or not of the schema: asked again, or answered 502.
InvalidReply ==
    /\ stage = "ask"
    /\ IF reply < Replies THEN reply' = reply + 1 /\ UNCHANGED <<try, stage>> ELSE Retry
    /\ UNCHANGED <<facts, todo, docs, claims, score>>

\* The model's or the service's call fails, or takes over 20 seconds.
CallFails ==
    /\ stage = "ask"
    /\ Retry
    /\ UNCHANGED <<facts, todo, docs, claims, score>>

-----------------------------------------------------------------------------
(* score_risk, with the factors in parts of F * 1000. *)

\* What a factor is worth when the rule names a percentage.
Percent(p) == p * F * 10

\* The findings of all audits together, as sets of that many elements: those
\* that count for them and those that a negative number takes off.
Reported(ex) == UNION {{c} \X (1 .. c.findings) : c \in Audits(ex)}
TakenOff(ex) == UNION {{c} \X (1 .. -c.findings) : c \in Audits(ex)}

\* Their sum is positive.
Unresolved(ex) == Cardinality(Reported(ex)) > Cardinality(TakenOff(ex))

\* Of the number of entries; each copy of an audit is one.
AuditQuality(ex) ==
    LET n     == Cardinality(Audits(ex))
        clean == IF n >= 3 THEN 100 ELSE 25 + 25 * n
    IN  CASE n = 0 -> 0
          [] n > 0 /\ Unresolved(ex) -> Percent((clean * 2) \div 5)
          [] OTHER -> Percent(clean)

Tvl(f) == 600 * f.size + 400 * (F - f.drawdown)

\* A slip the properties must catch: the share itself.
BonusShare(f) == 1000 * f.bonus

YieldSource(f) == 1000 * (F - f.bonus)

Maturity(f, ex) ==
    LET n == Cardinality(Incidents(ex)) IN IF n > 3 THEN 0 ELSE f.age * (1000 - 300 * n)

\* What the extraction says of a subject it has at most one claim about.
Says(ex, kind, default) ==
    IF \E c \in ex : c.kind = kind THEN (CHOOSE c \in ex : c.kind = kind).says ELSE default

\* A slip the properties must catch: the last two exchanged.
OracleExchanged == [trusted |-> 100, other |-> 30, none |-> 60]

OracleValue == [trusted |-> 100, other |-> 60, none |-> 30]

AuthorityValue == [immutable |-> 100, timelock |-> 90, multisig |-> 70, unknown |-> 30, single_key |-> 10]

ScoreRisk(f, ex) ==
    LET total ==
          25 * AuditQuality(ex) + 20 * Tvl(f) + 20 * YieldSource(f) + 10 * Maturity(f, ex)
            + 10 * Percent(OracleValue[Says(ex, "oracle", "none")]) + 10 * 1000 * f.liquid
            + 5 * Percent(AuthorityValue[Says(ex, "authority", "unknown")])
    IN  (total + 500 * F) \div (1000 * F)

\* /pools/analyze and /risk/explain; the score is what gets stored.
Score ==
    /\ stage = "score"
    /\ score' = ScoreRisk(facts, claims)
    /\ stage' = "scored"
    /\ UNCHANGED <<facts, todo, docs, try, reply, claims>>

ScoreFails ==
    /\ stage = "score"
    /\ stage' = "failed"
    /\ UNCHANGED <<facts, todo, docs, try, reply, claims, score>>

\* The next pass, tomorrow or when the job is retried: everything anew.
Again ==
    /\ stage \in {"scored", "failed"}
    /\ todo' = Documents /\ docs' = {} /\ stage' = "fetch"
    /\ try' = 1 /\ reply' = 1 /\ claims' = {} /\ score' = NoScore
    /\ facts' \in Facts

AnalysisNext == FetchDoc \/ Answer \/ InvalidReply \/ CallFails \/ Score \/ ScoreFails \/ Again

AnalysisSpec == AnalysisInit /\ [][AnalysisNext]_analysisVars

-----------------------------------------------------------------------------
(* Properties. *)

\* The quote is in the document it cites, which was read.
Genuine(c, read) == c.source \in read /\ c.quote \in Text[c.source]

(* Whatever quotes and sources the model makes up, and whichever documents *)
(* it was given, the score stays within 0 to 100 and is no higher than     *)
(* without the entries whose quotes are not genuine.  (Of the genuine ones *)
(* each copy counts: quoting one audit three times is three audits.)       *)
FabricationNeverRaises ==
    stage = "scored" =>
        /\ score \in 0 .. 100
        /\ score <= ScoreRisk(facts, {c \in claims : Genuine(c, docs)})

\* Authorities from the worst to the best.
Ladder == [single_key |-> 0, unknown |-> 1, multisig |-> 2, timelock |-> 3, immutable |-> 4]
OracleLadder == [none |-> 0, other |-> 1, trusted |-> 2]

\* In no respect worse.
NoWorse(f, ex, g, other) ==
    /\ f.size >= g.size /\ f.drawdown <= g.drawdown /\ f.bonus <= g.bonus
    /\ f.liquid >= g.liquid /\ f.age >= g.age
    /\ Cardinality(Audits(ex)) >= Cardinality(Audits(other))
    /\ Unresolved(ex) => Unresolved(other)
    /\ Cardinality(Incidents(ex)) <= Cardinality(Incidents(other))
    /\ Ladder[Says(ex, "authority", "unknown")] >= Ladder[Says(other, "authority", "unknown")]
    /\ OracleLadder[Says(ex, "oracle", "none")] >= OracleLadder[Says(other, "oracle", "none")]

(* "Higher is safer": whatever weights, caps, penalties and roundings do   *)
(* together, a pool that is in no respect worse than another one never has *)
(* the lower score.                                                        *)
HigherIsSafer ==
    stage = "scored" =>
        \A g \in Facts, other \in Extractions :
            NoWorse(facts, claims, g, other) => score >= ScoreRisk(g, other)

\* What speaks against a protocol, more than saying nothing does.
BadNews(c) ==
    \/ c.kind = "incident"
    \/ c.kind = "audit" /\ c.findings > 0
    \/ c.says = "single_key"

\* All the documents say, each thing once.
Honest(read) == {c \in Claims : c.nth = 1 /\ Genuine(c, read)}

(* "An unreachable doc simply contributes nothing; the scorer stays        *)
(* conservative" as far as it is true: the documents that were missed      *)
(* raise the score of a faithful extraction only by the bad news in them.  *)
OnlyBadNewsIsLost ==
    stage = "scored" /\ claims = Honest(docs) /\ score > ScoreRisk(facts, Honest(Documents))
        => \E c \in Honest(Documents) \ claims : BadNews(c)

=============================================================================
