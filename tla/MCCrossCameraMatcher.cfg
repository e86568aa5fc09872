CONSTANTS
    k1 = k1
    k2 = k2
    k3 = k3
    look_x = look_x
    look_y = look_y
    look_z = look_z
    null = null
    hall = hall
    yard = yard
    Cameras = {k1, k2, k3}
    Zone <- Zones
    Looks = {look_x, look_y, look_z, null}
    Similarity <- Alikeness
    Threshold = 72
    MaxEntries = 2
    MaxAge = 1
    MaxTime = 2
    MaxSightings = 4
SPECIFICATION Spec
CHECK_DEADLOCK FALSE
SYMMETRY HallCameras
INVARIANTS
    IdentitiesStayInZone
    LooksKeptApart
    GalleryIsRecentPast
    NewToCameraReported
