---------------------------- MODULE MCDeviceAuth ----------------------------
(* Configurations for the run of DeviceAuth.                  *)
EXTENDS DeviceAuth

CONSTANT a  \* a product

(* The server is set to one product, or to all of them.                     *)
TwoConfigs == {{a}, {All}}
=============================================================================
