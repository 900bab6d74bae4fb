------------------------------ MODULE MCPipeline ------------------------------
(* A small instance of Pipeline for TLC.                                   *)
EXTENDS Pipeline

Transaction(outs, ins) == [outs |-> outs, ins |-> ins]

Coinbase == Transaction(<<"User">>, <<"Missing">>)
PayTwice == Transaction(<<"Listen", "Listen">>, <<"User">>)
NoSender == Transaction(<<"Listen">>, <<"NonStd">>)
Self     == Transaction(<<"Listen">>, <<"Listen">>)

\* A payment with two outputs and then one that nobody sent, at which the indexer
\* panics; or the bridge pays itself.
PipeBlocks == {<<Coinbase, PayTwice, NoSender>>, <<Coinbase, Self>>}
=============================================================================
