CONSTANT Devices <- MCDevices
SPECIFICATION Spec
INVARIANT XmlPdcIsPreferred
CHECK_DEADLOCK FALSE
