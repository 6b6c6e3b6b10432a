\* The instance of Pipeline.cfg: a link with a user name in it.
SPECIFICATION Spec
CONSTANTS
    NoGate = NoGate
    NoSignal = NoSignal
    NoDraft = NoDraft
    NoResult = NoResult
    Script <- MCScript
    LooksLike <- MCLooksLike
    Unpunycoded <- MCUnpunycoded
    Brands <- MCBrands
    Shorteners <- MCShorteners
    NestedSuffixes <- MCNestedSuffixes
    Literals <- MCLiterals
    Www <- MCWww
    AddressOf <- MCAddressOf
    TokenOf <- MCTokenOf
    TransferPhrases = {"send"}
    Packs <- MCPacks
    Fragments <- MCFragments
    PatternsIn <- MCPatternsIn
    Length <- MCLength
    CyrillicWords <- MCCyrillicWords
    LatinWords <- MCLatinWords
    UzbekInCyrillic = {"transfer"}
    UzbekInLatin = {"bank"}
    MaxChars = 100
    MetaPhrases = {"hello"}
    Payloads = {"url", "paycode", "long", "longer"}
    PaymentPayloads = {"paycode"}
    PaymentMark = "mark"
    Inputs <- MCInputs
    SettingsSet <- MCSettings
    OcrTexts <- MCOcrTexts
    Cards <- MCCards
    Precedes <- MCPrecedes
    Wording <- MCWording
    Proposals <- MCProposals
    Filler = {"filler"}
    Sentences <- MCSentences
    Drafts <- MCDrafts
\* A check ends.
CHECK_DEADLOCK FALSE
INVARIANTS
    LabelsReachTheRules
