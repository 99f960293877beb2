------------------------------ MODULE MCStorage -------------------------------
\* Storage, with the batches of events that TLC appends.
EXTENDS Storage

MCBatches == {<<"a", "b">>, <<"c", "d">>}
=============================================================================
