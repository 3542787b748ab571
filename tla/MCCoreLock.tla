----------------------------- MODULE MCCoreLock -----------------------------
(* Two instances whose drivers hand packets on in one direction only.       *)
EXTENDS CoreLock

CONSTANTS i1, i2

OneWay == {<<i1, i2>>}
=============================================================================
