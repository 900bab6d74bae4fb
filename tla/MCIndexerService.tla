-------------------------- MODULE MCIndexerService --------------------------
(* Small instances of IndexerService for TLC.                              *)
EXTENDS IndexerService

Transaction(outs, ins) == [outs |-> outs, ins |-> ins]

Coinbase == Transaction(<<"User">>, <<"Missing">>)
Other    == Transaction(<<"User">>, <<"User">>)
Pay      == Transaction(<<"User", "Listen">>, <<"User">>)
PayTwice == Transaction(<<"Listen", "Listen">>, <<"User">>)
Self     == Transaction(<<"Listen">>, <<"Listen", "User">>)
NoSender == Transaction(<<"Listen">>, <<"NonStd">>)
BadPay   == Transaction(<<"Listen">>, <<"User", "Missing">>)
CoinPay  == Transaction(<<"Listen">>, <<"Missing">>)

\* Blocks with several payments, with ones that are skipped or refused, and
\* with ones that stop the indexer.
GoodBlocks == {<<Coinbase>>, <<Coinbase, Pay, Other, Pay>>, <<Coinbase, PayTwice, Self, Pay>>}
StopBlocks == {<<Coinbase, Pay, NoSender>>, <<CoinPay, Pay, BadPay>>}
LiveBlocks == {<<Coinbase, Pay>>, <<Coinbase, PayTwice, Self>>}
AllBlocks  == GoodBlocks \cup StopBlocks
=============================================================================
