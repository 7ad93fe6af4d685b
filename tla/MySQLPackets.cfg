\* Handshake responses over every combination of the six capability flags
\* the codec reads, with up to two connect attributes, and EOF packets.
CONSTANTS
    Names <- MCNames
    Auths <- MCAuths
    AttrKeys <- MCAttrKeys
    AttrValues <- MCAttrValues
    MaxAttrs = 2
    MaxPacket = {16777216}
    Charsets = {33}
    Words = {258}
    CutShort = FALSE
INIT Init
NEXT Next
INVARIANTS
    SerializeFillsSize
    HandshakeRoundTrip
    EofRoundTrip
