SPECIFICATION AppsSpec
CONSTANTS
    Ids <- TheIds
    NoId = 0
    Certified <- TheCertified
    Offered <- TheOffered
    SwapRequests <- TheSwapRequests
    UintBytes = 2
    AddressBytes = 3
    ShownChars = 3
    ShownDigits = 2
    MaxAccepted = 2
    Items <- TheItems
    BUTTON_FAST_THRESHOLD_CS = 3
    HashContexts = {"sha256", "sha3"}
    BlockSize <- TheBlockSizes
    HashBytes = {1, 2}
    PageBytes = 2
    MaxHashed = 4
CHECK_DEADLOCK FALSE
INVARIANTS
    AskedOncePerId SignsWhatWasShown SignsTheMessage ApprovedByTheUser ConfirmsWhatIsShown
    DigestsAreOfTheMessages
PROPERTIES ImplementsAgreement AnswersAreThePresses
