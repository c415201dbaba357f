SPECIFICATION CurlSpec
CONSTANTS
    Transfers = {t1, t2, t3}
    MULTI_PERFORM_HANG_TIMEOUT = 2
    Clients = {c1, c2}
    Urls <- MCUrls
    Maps <- MCMaps
    Unreserved <- MCUnreserved
    QuestionMark = 63
    Ampersand = 38
    EqualsSign = 61
    Hash = 35
    Percent = 37
    MaxGlobal = 3
INVARIANT NothingLeftBehind
INVARIANT GivesUpOnlyWhenQuiet
INVARIANT EventsFollowInterest
INVARIANT OwnRequest
INVARIANT ParamsArrive
PROPERTY Returns
CHECK_DEADLOCK FALSE
