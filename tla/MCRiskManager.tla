--------------------------- MODULE MCRiskManager ---------------------------
(***************************************************************************)
(* RiskManager on a small instance, with what the documents say of the loss *)
(* limit and the code does not do.                                         *)
(***************************************************************************)
EXTENDS RiskManager

MCPrices == {10, 12}
MCPnls == {-600, -300, 0, 700}
MCEquities == {0, 9000}

\* One context per branch of the sizing rules.
MCContexts ==
  {[perShare |-> 2, conviction |-> 100, day |-> "mid", market |-> "HOT", liquidity |-> 0],
   [perShare |-> 1, conviction |-> 75, day |-> "mon", market |-> "COLD", liquidity |-> 7],
   [perShare |-> 1, conviction |-> 100, day |-> "fri", market |-> "REHAB", liquidity |-> -1],
   [perShare |-> 0, conviction |-> 100, day |-> "mid", market |-> "HOT", liquidity |-> 0]}

\* U4 as the configuration and the runbook put it: reaching the daily loss
\* limit ends the day, so nothing is approved after it, even when a position
\* that is still open then closes with a gain.
LossLimitEndsTheDay ==
  [][Approval => \A p \in Prefixes(results) :
       100 * Net(p) > -Smaller(100 * AvgWinDayPnl, 100 * BrokerHardLockout)]_vars

=============================================================================
