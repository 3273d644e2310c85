SPECIFICATION Spec
CONSTANTS
    Frames = {f1, f2}
    Fields <- PlainFields
    StaticTable <- ThreeStatic
    MaxEntries = 2
    IndexLimit = 5
    LengthLimit = 3
    MaxBlocks = 2
SYMMETRY FrameSymmetry
INVARIANTS
    TypeOK
    BufferHoldsEncoding
    
