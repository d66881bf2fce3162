SPECIFICATION Spec
CONSTANTS
    one = one
    two = two
    Shells = {one, two}
    Lines = {"a", "b"}
    Size = 2
    Homes = {"h"}
    NoHome = NoHome
    Nothing = Nothing
    MaxFile = 4
    Habits = {"repeat", "fail", "home"}
INVARIANTS TypeOK RingFilled SurvivesCrash AllInFile
PROPERTY RingIsList
