------------------------------- MODULE MCDesk -------------------------------
(* A small instance of DeskProperties for TLC. *)
EXTENDS DeskProperties

(* Long on one symbol, short on the other. *)
MCHeld == <<2, -2>>

MCTrade(s, price, quoted, quality) ==
  [symbol |-> s, price |-> price, quoted |-> quoted, quality |-> quality]
MCMarketReads == {
  <<MCTrade(1, <<100>>, TRUE, "unsaid"), MCTrade(2, <<100>>, FALSE, "unsaid")>>,
  <<MCTrade(1, <<100>>, TRUE, "STALE"), MCTrade(2, Nothing, TRUE, "unsaid")>> }

MCMark(price, known) == [price |-> price, known |-> known]
MCMarks == {<<MCMark(110, TRUE), MCMark(94, FALSE)>>,
            <<MCMark(106, TRUE), MCMark(106, TRUE)>>}

MCAccount(equity, blocked) ==
  [equity |-> equity, cash |-> <<0>>, buying_power |-> <<0>>, last_equity |-> <<500>>,
   trading_blocked |-> blocked, account_blocked |-> FALSE]
MCAccountReadings == {MCAccount(<<400>>, FALSE), MCAccount(Nothing, FALSE)}

MCFound(symbol, status, score) ==
  [symbol |-> symbol, status |-> status, score |-> score, id |-> symbol]
MCDiscoveries == {<<>>,
  <<MCFound(3, "VALID", 9)>>,
  <<MCFound(1, "WEAK", 9), MCFound(2, "VALID", 1), MCFound(1, "VALID", 5)>>}

MCBuilt(id, action, confidence, order_type) ==
  [id |-> id, action |-> action, status |-> "VALID", confidence |-> confidence,
   order_type |-> order_type, stop_loss |-> Nothing, take_profit |-> Nothing]
MCCandidates == {<<>>,
  <<MCBuilt(2, "CLOSE", 5, "MARKET"), MCBuilt(1, "BUY", 5, "MARKET")>>,
  <<MCBuilt(0, "SELL", 5, "LIMIT"), MCBuilt(0, "SELL", 5, "MARKET")>>,
  <<MCBuilt(1, "CLOSE", 9, "STOP")>>}
MCDefaultIds == [action \in Actions |-> CASE action = "BUY" -> 3 [] action = "CLOSE" -> 4 [] OTHER -> 5]
MCSizes == {Sized(2, 2), Sized(0, 2)}
==============================================================================
