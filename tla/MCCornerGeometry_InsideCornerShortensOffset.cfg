CONSTANTS
    Len <- MCLen
    Dirs <- MCDirs
    Radii <- MCRadii
    Corners <- MCCorners
SPECIFICATION Spec
INVARIANT InsideCornerShortensOffset
