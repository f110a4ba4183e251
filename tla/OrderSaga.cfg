\* Two attempts of each activity and one place request, one total under the
\* threshold and one at it: safety, the refinement, and that workflows end
\* under the fairness of Temporal and the consumer alone.
SPECIFICATION FairSpec
CONSTANTS
  MaxAttempts = 2
  PlaceIds = {1}
  Amounts = {9, 10}
  DeclineThreshold = 10
INVARIANTS StoreSafe OneVerdict MoneyAgrees ResultMatchesOrder MerchantGate
PROPERTIES ImplementsLifecycle ImplementsStage WorkflowEnds
CHECK_DEADLOCK FALSE
