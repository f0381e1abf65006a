CONSTANTS
    WordBits = 29
    Int32Bits = 18
    Encode <- MCEncode
    DecodeField <- MCDecodeField
    Requests <- MCRequests
    Answers <- MCAnswers
    Commands <- MCCommands
    Unknown <- MCUnknown
SPECIFICATION Spec
INVARIANTS
    TypeOK
    DecodedIsEncoded
    OutcomeIsSeen
    PortsAsAsked
    MountsAsAsked
    SecurityAsAsked
    StateIsShown
