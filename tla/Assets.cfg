CONSTANTS
    None = None
    icon = icon
    picture = picture
    movie = movie
    Asset = {icon, picture, movie}
    Image = {icon, picture}
    Drawable = {icon, picture}
    Tag <- Tags
    Place <- PlaceOf
    Number <- Quarters
    TagOf <- Spelled
    Files <- SomeFiles
    Identifier <- OwnPlace
    MaxEdits = 1
SPECIFICATION Spec
INVARIANTS TypeOK ReleaseExact ShowsPicked FailsOnlyFor
CHECK_DEADLOCK FALSE
