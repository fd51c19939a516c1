----------------------------- MODULE MCSampling -----------------------------
(* Small instances of Sampling. *)
EXTENDS Sampling

(* Windows of different sizes and an invalid rate; the initial rate takes  *)
(* every packet.                                                           *)
MixedRates == {<<1, 2>>, <<2, 3>>, <<1, 0>>}

(* What flowd sends: one and the same P2, not below the initial one        *)
FlowdRates == {<<0, 4>>, <<1, 4>>, <<3, 4>>, <<4, 4>>}

=============================================================================
