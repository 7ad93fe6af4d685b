\* Handshake response bodies cut short: every prefix of a well-formed one.
CONSTANTS
    Names <- MCNames
    Auths <- MCAuths
    AttrKeys <- MCAttrKeys
    AttrValues <- MCAttrValues
    MaxAttrs = 2
    MaxPacket = {16777216}
    Charsets = {33}
    Words = {258}
    CutShort = TRUE
INIT Init
NEXT Next
INVARIANT DecodeReadsWithinPacket
