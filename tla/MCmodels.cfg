\* A file that changes, and a file that claims the name of another model.
SPECIFICATION Spec
CONSTANTS
    a = a  b = b  c = c  a1 = a1  a2 = a2  b1 = b1  bAsC = bAsC  c1 = c1  w1 = w1  w2 = w2
    NoName = NoName  NoConf = NoConf
    Names = {a, b, c}
    Confs = {a1, a2, b1, bAsC, c1}
    NameIn <- MCNameIn
    FileOf <- MCFileOf
    Workers = {w1, w2}
INVARIANTS LoadedHasSession ServesItsConf RunsWhatItResolved
PROPERTIES OrphansAreStuck
