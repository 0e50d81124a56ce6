-------------------------- MODULE MCIngestRequests --------------------------
(***************************************************************************)
(* Calls for IngestRequests: twins on two instances, a call that reuses    *)
(* their requestId on another device, and another batch for their device.  *)
(***************************************************************************)
EXTENDS IngestRequests

CONSTANTS t1, t2, x, y, api1, api2, i1, i2, d1, d2, e1, e2

AllHomes == [c \in {t1, t2, x, y} |-> IF c \in {t1, x} THEN api1 ELSE api2]

Req(i, d, batch) == [id |-> i, device |-> d, batch |-> batch]

AllRequests == [c \in {t1, t2, x, y} |->
  CASE c \in {t1, t2} -> Req(i1, d1, {e1})
    [] c = x -> Req(i1, d2, {e1})
    [] c = y -> Req(i2, d1, {e1, e2})]

=============================================================================
