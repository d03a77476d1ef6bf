-------------------------- MODULE MCForwardingClient -------------------------
(* Instances of ForwardingClient for TLC: a pad and a wheel, or two pads    *)
(* that nothing but their owner can tell apart.                             *)
EXTENDS ForwardingClient, TLC

CONSTANTS pad, twin, wheel, gamepad, racing

MCIdentity == (pad :> gamepad) @@ (twin :> gamepad) @@ (wheel :> racing)
=============================================================================
