\* Two scenarios run any number of times and stopped at any moment.
SPECIFICATION Spec
CONSTANTS
    t1 = t1  t2 = t2
    Tasks = {t1, t2}
    Updating = {t1}
INVARIANTS TypeOK AnswersAreTrue FailureIsReported
PROPERTIES DeletionIsFinal
CHECK_DEADLOCK FALSE
