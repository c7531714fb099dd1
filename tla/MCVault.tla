-------------------------------- MODULE MCVault --------------------------------
(* Two processes on one broker.db.                                         *)
EXTENDS Vault

CONSTANTS w1, w2

Setting(refreshers, tries, faults, revokes) ==
    [refreshers |-> refreshers, tries |-> tries, faults |-> faults,
     rotates |-> TRUE, revokes |-> revokes]

(* Two that refresh, at a lenient endpoint; one, at a strict endpoint; one *)
(* whose statements, calls and life may fail.                              *)
MCSettings ==
    { Setting({w1, w2}, 1, {}, FALSE), Setting({w1}, 1, {}, TRUE),
      Setting({w1}, 2, {"busy", "crash", "net"}, TRUE) }

MCPlain == {Setting({w1, w2}, 1, {}, FALSE)}

===============================================================================
