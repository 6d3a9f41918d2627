SPECIFICATION Spec
PROPERTIES Explained CliShadow IrqAnswered
