SPECIFICATION FairSpec
CONSTANTS
  Tasks = {t1, t2, t3, t4}
INVARIANT MutualExclusion
PROPERTIES NoOvertaking NoStarvation
