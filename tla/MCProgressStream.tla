-------------------------- MODULE MCProgressStream --------------------------
(* Small instances of ProgressStream. *)
EXTENDS ProgressStream

CONSTANTS draining, started, phone, laptop

OneEdge == {started}
TwoEdges == {draining, started}
OneClient == {phone}
TwoClients == {phone, laptop}
=============================================================================
