SPECIFICATION Spec
CONSTANTS
  Word = 64
  IntWord = 32
  Inputs <- Numbers
  Groups = {{"segsize", "spoint"}, {"regsize", "scount"},
            {"threads", "vrprotect", "verbose", "dpo", "timed", "state"},
            {"strategy", "priority", "reqbound", "delayms"},
            {"ttime_ms", "reqcount"}}
  Caps = {4, 8}
INVARIANTS
  TypeOK
  SizesPositive
  RetrySucceeds
