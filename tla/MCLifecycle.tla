------------------------------ MODULE MCLifecycle ------------------------------
(* Instances of Lifecycle for TLC. *)
EXTENDS Lifecycle

CONSTANTS L1, L2, M1

Enabled == [enabled |-> TRUE, valid |-> TRUE, listen |-> L1, mark |-> M1,
            manage |-> TRUE, jobs |-> TRUE]

Disabled  == [Enabled EXCEPT !.enabled = FALSE]
Invalid   == [Enabled EXCEPT !.valid = FALSE]
Unmanaged == [Invalid EXCEPT !.manage = FALSE, !.jobs = FALSE]
Moved     == [Enabled EXCEPT !.listen = L2]
AnyConfigs    == {Enabled, Disabled, Unmanaged, Moved}
ValidConfigs  == {Enabled, Disabled, Moved}
OnOff         == {Enabled, Disabled}
BrokenConfigs == {Enabled, Invalid}
===============================================================================
