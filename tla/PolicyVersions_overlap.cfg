\* Two sessions at a time; the list is wrong with one, too.
SPECIFICATION Spec
CONSTANTS
    Clients = {c1, c2}
    MaxVersions = 2
INVARIANTS OnePublished NumbersDistinct ListsPublished
