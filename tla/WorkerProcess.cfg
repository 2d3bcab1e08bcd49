SPECIFICATION Spec
CONSTANT Mains = {"provider_gateway", "provider_consumer", "reconciler", "api"}
INVARIANTS
    TypeOK
    CompleteMeansClosed
