---------------------------- MODULE MCMarketData ----------------------------
EXTENDS MarketData

book(bid1, ask1, bids, ask, bid) ==
    [bid1 |-> bid1, ask1 |-> ask1, bids |-> bids, ask |-> ask, bid |-> bid]

trade(price, strength, missing) ==
    [price |-> price, strength |-> strength, missing |-> missing]
MCTrades ==
    {trade(20, 100, FALSE), trade(22, 100, FALSE), trade(22, 130, FALSE), trade(20, 100, TRUE)}

MCReadings == {-1, 1}

\* A wall of asks, and the bidders after it has gone.
MCBooks == {book(20, 10, 2, 10, 10), book(20, 2, 8, 2, 20)}

\* A stock that rose step by step (trend 1) and one that jumped (trend 2).
MCServerBars ==
    { <<Flat(18, 1), Candle(18, 19, 18, 19, 2), Candle(19, 20, 19, 20, 4),
        Candle(20, 24, 20, 24, 6)>>,
      <<Flat(18, 2), Flat(18, 3), Flat(18, 0), Candle(18, 24, 18, 24, 9)>> }

MCDailyPeriods == <<1, 2, 3>>
MCDailyCloses == {<<18, 20, 21>>, <<22, 21, 20, 20>>, <<20>>}
=============================================================================
