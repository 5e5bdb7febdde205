\* One route whose events follow each other closely.
CONSTANTS
  Routes = {r1}
  MaxEvents = 3
  Workers = {w1}
  None = None
SPECIFICATION Spec
INVARIANTS LastEventIsProcessed
