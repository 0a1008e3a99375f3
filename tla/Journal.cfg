SPECIFICATION JSpec
CONSTANTS
  Processes = {run, resumed}
  Kinds = {fill, mark}
  MaxEntries = 5
  MaxDamages = 1
SYMMETRY Alike
INVARIANTS OneWriterVerifies DamageIsFound VerifiedIsOneHistory
CHECK_DEADLOCK FALSE
