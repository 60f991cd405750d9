------------------------------ MODULE MCClients ------------------------------
EXTENDS ConnectStream, FiniteSets

CONSTANTS sender, receiver, closer

Responses ==
  {<<"message", "end">>, <<"end_error", "message">>, <<"oversize", "end">>}
MayCall ==
  [p \in Goroutines |->
     CASE p = sender -> {"Send", "CloseRequest", "ResponseHeader"}
       [] p = receiver -> {"Receive"}
       [] p = closer -> {"Receive", "Send", "CloseResponse"}]
Quota == [p \in Goroutines |-> IF p = receiver THEN 2 ELSE 1]
=============================================================================
