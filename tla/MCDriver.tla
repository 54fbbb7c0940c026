------------------------------- MODULE MCDriver -------------------------------
(* Instances of PbftDriver for TLC: three servers, two clients, files of up to *)
(* three sets.                                                                 *)
EXTENDS PbftDriver

ThreeServers == <<"S1", "S2", "S3">>
TwoClients   == <<"A", "B">>

More(txn) == Line(-1, txn, <<>>, <<>>)

\* As in src/test/lab2_Test.csv: a mute server among the alive ones, or beside them.
Regular ==
    <<Line(1, 1, <<"S1", "S2">>, <<>>), More(2),
      Line(2, 3, <<"S1", "S2", "S3">>, <<"S2">>),
      Line(3, 4, <<"S1">>, <<"S3">>), More(5), More(6)>>

\* The second line does not parse; set 1 is lost, and what follows it goes to set 2.
Damaged ==
    <<Line(1, 1, <<"S1">>, <<>>), BadLine, More(2), Line(2, 3, <<"S2">>, <<>>), More(4)>>

\* The first set names a server that does not exist.
Unknown ==
    <<Line(1, 1, <<"S1", "S8">>, <<>>), Line(2, 2, <<"S1", "S2">>, <<"S1">>)>>

SomeFiles == {Regular, Damaged, Unknown}
=============================================================================
