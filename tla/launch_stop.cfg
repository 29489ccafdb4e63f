\* A traced child that is stopped before it has reported its failure.
SPECIFICATION Spec
PROPERTIES FailureAlwaysReported
