SPECIFICATION Spec
CONSTANT Programs <- LongArmPrograms
INVARIANT ArmsStayBehindBranch
CHECK_DEADLOCK FALSE
