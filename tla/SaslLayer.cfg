SPECIFICATION Spec
CONSTANTS
    MaxOps = 2
    MaxReplies = 2
    Overhead = 1
    TokenSizes = {2, 3, 4}
    MaxSizes = {0, 1, 2}
    Masks = {{"none"}}
INVARIANTS
    TypeOK
    Faithful
    CodecSurvives
    Understood
    LayerAgreed
PROPERTIES
    Delivered
