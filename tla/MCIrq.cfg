SPECIFICATION IrqFairSpec
CONSTANT Lines <- MCLines
INVARIANTS StopsOnlyInBoot
PROPERTIES OwnLineAcknowledged RequestsServed
