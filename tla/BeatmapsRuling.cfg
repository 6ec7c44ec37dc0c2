CONSTANTS
    Request = {r1}
    SetObj = {o1}
    Id = {b1, b2}
    MaxVersion = 2
    Nothing = Nothing
SPECIFICATION BeatmapsSpec
SYMMETRY Symmetry
PROPERTIES RulingStays
