--------------------------- MODULE MCArduinoDevice --------------------------
(***************************************************************************)
(* Instances of ArduinoDevice: waits without a timeout, with a null one    *)
(* and with short ones, and configurations of which one is supported.      *)
(***************************************************************************)
EXTENDS ArduinoDevice

MCTimeouts == {-1, 0, 1, 3}

MCConfigs ==
    {[baudrate |-> 9600, mode |-> "8E1", flow |-> 0],
     [baudrate |-> 300, mode |-> "8N1", flow |-> 0],
     [baudrate |-> 9600, mode |-> "9N1", flow |-> 0],
     [baudrate |-> 9600, mode |-> "8N1", flow |-> 1]}

=============================================================================
