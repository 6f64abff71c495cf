SPECIFICATION Spec
CONSTANTS
    s1 = s1
    s2 = s2
    s3 = s3
    city = city
    village = village
    odesos = odesos
    mladost = mladost
    None = None
    Sections = {s1, v1}
    Place <- Places
    Ahead <- Nowhere
    Streets = {street1, street2}
    street1 = street1
    street2 = street2
    StreetsOf <- EachStreets
    Cells = {no1, no2, no3}
    Garbled = {no3}
    Counters = {}
INVARIANTS
    DistrictsAsPrinted
CHECK_DEADLOCK FALSE
