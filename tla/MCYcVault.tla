----------------------------- MODULE MCYcVault -----------------------------
(***************************************************************************)
(* Small instances of one series.                                          *)
(***************************************************************************)
EXTENDS YcVault, TLC

CONSTANTS u1, u2

MCUsers == {u1, u2}

Terms(rate, term, deadline, min) ==
    [rate_bps |-> rate, term_secs |-> term, deposit_deadline |-> deadline,
     min_junior_bps |-> min, min_risk_score |-> 50]

\* Senior up to three times junior, interest of a quarter for the term; the
\* second differs in its rate; the third doubles what is deposited, so that
\* three senior tokens are owed more than a u64, and matures after the last
\* timestamp when activated late; the fourth is one init_series rejects.
MCSeriesParams ==
    {Terms(10, 1, 1, 5), Terms(0, 1, 1, 10), Terms(10, 4, 1, 5), Terms(11, 1, 1, 5)}

Symmetry == Permutations(MCUsers)

=============================================================================
