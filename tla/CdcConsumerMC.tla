---------------------------- MODULE CdcConsumerMC ----------------------------
(***************************************************************************)
(* Instances of CdcConsumer for TLC.                                       *)
(***************************************************************************)
EXTENDS CdcConsumer

CONSTANTS r1, u1, c1, c2

Event(r, t, read, name) == [resource |-> r, time |-> t, read |-> read, name |-> name]

(* Two changes of the user, the later within the millisecond of another    *)
(* change, and a snapshot read.                                            *)
Changes ==
  << Event(u1, 1, FALSE, "Ann"), Event(r1, 2, FALSE, NoName),
     Event(u1, 2, FALSE, "Ann B."), Event(r1, 3, TRUE, NoName) >>

TwoConsumers == {c1, c2}
=============================================================================
