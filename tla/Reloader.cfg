SPECIFICATION Spec
CONSTANT MaxSaves = 4
INVARIANTS TypeOK ServedIsValid
PROPERTIES NoSaveHidden NoticedChange StopEnds
