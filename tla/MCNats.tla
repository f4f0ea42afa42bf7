------------------------------- MODULE MCNats -------------------------------
(* Nats for TLC: two workers of one process.                               *)
EXTENDS Nats, TLC

CONSTANTS w1, w2, p1

IndexOneTwo == w1 :> 1 @@ w2 :> 2
SameProcess == w1 :> p1 @@ w2 :> p1
CallEach    == <<w1, w2>>
QSubject    == {<<"q">>}
QPatterns   == {<<"q">>, <<"*">>}

\* The instance is one of those in which inboxes are told apart by their index.
ASSUME InstanceAssumption == UniqueIndices
============================================================================
