----------------------------- MODULE MCAvrUart ------------------------------
(***************************************************************************)
(* Instances of AvrUart: waits without a timeout, with a null one and with *)
(* one that takes two delays; configurations with a rate the driver knows  *)
(* and with one it does not.                                               *)
(***************************************************************************)
EXTENDS AvrUart

MCTimeouts == {-1, 0, 6}

MCConfigs ==
    {[baudrate |-> 9600, parity |-> "none"], [baudrate |-> 300, parity |-> "odd"]}

=============================================================================
