--------------------------- MODULE MCAdminCommands ---------------------------
(***************************************************************************)
(* Calls for AdminCommands: twins sent to two API instances, calls that    *)
(* reuse a commandId for something else, and the worker.                   *)
(***************************************************************************)
EXTENDS AdminCommands

CONSTANTS r1, r2, r3, x1, x2, k1, k2, k3, k4, n, w, api1, api2, worker, m1, m2, d1, d2

HomeOf == [c \in {r1, r2, r3, x1, x2, k1, k2, k3, k4, n, w} |->
  IF c = w THEN worker ELSE IF c \in {r1, r3, x2, k1, k2, n} THEN api1 ELSE api2]

Req(m, kind, d, argument) == [command |-> m, kind |-> kind, device |-> d, argument |-> argument]

Requests == [c \in {r1, r2, r3, x1, x2, k1, k2, k3, k4, n, w} |->
  CASE c \in {r1, r2} -> Req(m1, "rotate", d1, 1)
    [] c = r3 -> Req(m2, "rotate", d1, 1)
    [] c = x1 -> Req(m1, "adjudicate", d2, 1)
    [] c = x2 -> Req(m1, "adjudicate", d2, 2)
    [] c = k1 -> Req(m2, "compact", d1, 2)
    [] c = k2 -> Req(m2, "compact", d1, 3)
    [] c = k3 -> Req(m2, "compact", d1, 1)
    [] c = k4 -> Req(m2, "compact", d1, Null)
    [] c = n -> Req(NoCommand, "compact", d1, 1)
    [] c = w -> Req(NoCommand, "compact", d1, Null)]

(* Twin rotations with another one; with two decisions that reuse the       *)
(* commandId; compactions that share a commandId, with a cutoff, one past   *)
(* the watermark or none, next to the worker or to one without a commandId. *)
Workloads == {{r1, r2, r3}, {r1, r2, x1, x2}, {k1, k3, w}, {k1, k2, w}, {k1, k4, n}}

=============================================================================
