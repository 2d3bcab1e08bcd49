SPECIFICATION Spec
CONSTANT Mains = {"reconciler"}
PROPERTY ShutdownCompletes
