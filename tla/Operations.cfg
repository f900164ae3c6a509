\* One handle, one operation at a time, and a message id that takes two octets
CONSTANTS
    Ids = {128}
    Requests <- MCRequests
    Urls <- MCUrls
    ControlLists <- MCControlLists
    OptionSets <- MCOptionSets
    DefaultOpts <- DefaultOptions
    Challenges <- MCChallenges
    Responses <- MCResponses
    Tags <- RequestTags
    SearchTags <- ParamTags
    Params <- AsText
    GarbledParams <- AsGarbledText
    UrlParams <- ParamsOfUrl
    RawControls <- ControlsGiven
    Encoded <- Encode
    Decode <- decode_inner
    ResultOf <- LdapResultExt
    TakenAs <- TakenReply
    ServerReads <- ReadRequest
    ServerWrites <- WriteMessages
    NoticeOf <- Notice
SPECIFICATION Spec
INVARIANTS
    TypeOK
    CodecContract
    RequestIntact
    ResultIntact
    DriverUnderstands
    NeverStranded
