SPECIFICATION Spec
PROPERTY AcknowledgedIsGone
