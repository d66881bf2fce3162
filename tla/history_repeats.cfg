SPECIFICATION Spec
CONSTANTS
    one = one
    two = two
    Shells = {one}
    Lines = {"a", "b"}
    Size = 3
    Homes = {"h"}
    NoHome = NoHome
    Nothing = Nothing
    MaxFile = 4
    Habits = {"repeat"}
INVARIANT NoRepeats
