------------------------------- MODULE MCRegime -------------------------------
(***************************************************************************)
(* A small market: averages over one, two and three days, a VIX that calms *)
(* down or inverts, and shadow feeds that fail one by one or all at once.  *)
(***************************************************************************)
EXTENDS RegimeFeed

Day(close) == [high |-> close + 1, low |-> close - 1, close |-> close]
MCHistories == {<<Day(100), Day(104), Day(108)>>, <<Day(108), Day(104), Day(100)>>}
MCTides == {<<3, 0 - 2>>, <<0 - 2, 9>>}

At(expiry, short) == [expiry |-> expiry, short |-> short]
MCBooks == {<<At(1, 600), At(1, 601), At(2, 600)>>}

MCDownloads == {[vix |-> <<20, 15>>, third |-> << >>], [vix |-> <<15, 30>>, third |-> <<26>>]}

QuoteOf(sym, last, high, change) == [sym |-> sym, last |-> last, high |-> high, change |-> change]
Quotes == <<QuoteOf("SPY", 60000, 60300, 20), QuoteOf("QQQ", 50000, 50100, 0 - 30),
            QuoteOf("DIA", 40000, 40000, 10), QuoteOf("SOXX", 20000, 20000, 90),
            QuoteOf("VIX", 16, 18, 0), QuoteOf("VIX1D", 17, 18, 0)>>

Minute(high, low, volume) == [high |-> high, low |-> low, close |-> low, volume |-> volume]
Minutes == <<Minute(60000, 59700, 2), Minute(60300, 59900, 1)>>

Put(strike, delta, mid, smv) ==
  [put |-> TRUE, strike |-> strike, delta |-> delta, bid |-> 1, ask |-> 2, mid |-> mid, smv |-> smv]
Chain == <<Put(58000, 0 - 20, 0, 25), Put(59000, 0 - 34, None, 22), Put(59000, 0 - 36, 21, None),
           [Put(59100, 35, 20, 20) EXCEPT !.put = FALSE], Put(59800, 0 - 45, 19, 19)>>

Seen(spot, atr, quotes, minutes, chain) ==
  [spot |-> spot, atr |-> atr, quotes |-> quotes, bars |-> minutes, chain |-> chain]

MCShadowReads ==
  {Seen(60000, 500, Quotes, Minutes, Chain), Seen(None, None, << >>, << >>, << >>),
   Seen(60300, 500, SubSeq(Quotes, 1, 3), << >>, Chain),
   Seen(60200, 300, << >>, Minutes, SubSeq(Chain, 2, 5)),
   Seen(60000, None, Quotes, <<Minute(60000, 59700, 0)>>, Chain),
   Seen(None, 500, Tail(Quotes), Minutes, Chain),
   Seen(59000, 900, Quotes, Minutes, << >>)}
=============================================================================
