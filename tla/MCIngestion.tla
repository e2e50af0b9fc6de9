---------------------------- MODULE MCIngestion ----------------------------
(***************************************************************************)
(* Two protocols, and the worlds that differ in what they block.           *)
(***************************************************************************)
EXTENDS Ingestion

World(demo, first, second, rejected) ==
    [demo |-> demo, kind |-> <<first, second>>, rejected |-> rejected]

MCWorlds ==
    {World(TRUE, "unlisted", "ok", {}), World(TRUE, "ok", "ok", {1}),
     World(FALSE, "noHistory", "ok", {2}), World(FALSE, "dead", "ok", {}),
     World(FALSE, "unlisted", "ok", {1})}

=============================================================================
