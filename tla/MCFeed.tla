------------------------------- MODULE MCFeed -------------------------------
(***************************************************************************)
(* Values for the constants of the feed.                                   *)
(***************************************************************************)
EXTENDS Feed

mcPassed == [status |-> "pass", method |-> "l2_vwap", source |-> "live", days |-> 14,
             positive |-> TRUE, hours |-> TRUE]

\* The two files of the repository pass, on mainnet with the permission.
mcLive == [mode |-> "live", allowUnverifiedPaper |-> FALSE, edge |-> mcPassed,
           version |-> TRUE, target |-> TRUE, spot |-> FALSE,
           keys |-> TRUE, testnet |-> FALSE, allowMainnet |-> TRUE]

\* Live with the paper mode's exception, behind a research that fails.
mcExcepted == [mcLive EXCEPT !.allowUnverifiedPaper = TRUE, !.edge.status = "fail"]

mcConfigs ==
  {mcLive, mcExcepted,
   [mcExcepted EXCEPT !.edge = [mcPassed EXCEPT !.days = 13]],
   [mcLive EXCEPT !.edge.source = "synthetic"],
   [mcLive EXCEPT !.keys = FALSE],
   [mcLive EXCEPT !.allowMainnet = FALSE],
   [mcExcepted EXCEPT !.mode = "paper", !.keys = FALSE]}

mcOneConfig == {mcLive}

\* Symbols are only compared.  The symbol NoTick chooses is read nowhere: the
\* tick of an idle handler has no verdict.  For runs without temporal properties.
mcSymmetry == Permutations(Symbols)
=============================================================================
