SPECIFICATION Spec
CONSTANTS
    MaxCalls = 2
    MetroOf <- MCMetroOf
    ListCases <- MCListCases
    BoardCases <- MCBoardCases
    FeedCases <- MCFeedCases
    SponsorCases <- MCSponsorCases
    AssessCases <- MCAssessCases
    LocationCases <- MCLocationCases
    ResumeCases <- MCResumeCases
    FitCases <- MCFitCases
    SkillCases <- MCSkillCases
    ScrapeCases <- MCScrapeCases
INVARIANTS
    StayingIsListed
    CutKeepsTheFront
    OwnBoardResolved
    FacetsReachable
    AnotherSiteKeepsIt
    ApprovalsNeverHurt
    RecommendationIsEarned
    NeverSpoofed
    TenureChecked
    BestIsKept
    MustHavesSurvive
    TheNamedPosting
CHECK_DEADLOCK FALSE
