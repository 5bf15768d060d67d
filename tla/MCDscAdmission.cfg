SPECIFICATION Spec
CONSTANT Requests <- MCRequests
CHECK_DEADLOCK FALSE
INVARIANTS QpInTable LinkHeadroom SlicesMinimal MuxPaddingExact PpsFaithful
