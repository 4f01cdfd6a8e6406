SPECIFICATION Spec
CONSTANT Targets <- MCShipped
PROPERTY FaithfulManifestAcknowledged
CHECK_DEADLOCK FALSE
