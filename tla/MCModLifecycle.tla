---------------------------- MODULE MCModLifecycle ----------------------------
(* Configurations for TLC: every one, and those with the frame sensor.  *)
EXTENDS ModLifecycle

AllConfigs    == Config
SensorConfigs == {c \in Config : c.enableEglSensor}
=============================================================================
