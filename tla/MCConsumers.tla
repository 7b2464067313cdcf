----------------------------- MODULE MCConsumers ----------------------------
(* Small instances of Consumers for TLC.                                    *)
EXTENDS Consumers

CONSTANTS c1, c2

Mix(cs, rs, starts, sweeps, statuses) ==
  [clients |-> cs, requests |-> rs, sessions |-> starts, sweeps |-> sweeps, status |-> statuses]

(* Two clients, one that lags, two captures, or a client and a capture.     *)
Apart == {Mix({c1, c2}, {}, 1, 1, 1), Mix({c1}, {}, 2, 3, 2),
          Mix({}, {1, 2}, 2, 0, 0), Mix({c1}, {1}, 1, 1, 0)}
=============================================================================
