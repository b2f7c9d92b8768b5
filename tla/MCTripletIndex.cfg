CONSTANTS
    Ids <- MCIds
    Texts <- MCTexts
    Queries <- MCQueries
    MinScores <- MCMinScores
    ScoreCounts <- MCScoreCounts
    NoRow = NoRow
    MaxEntries = 3
SPECIFICATION Spec
INVARIANTS
    TypeOK
    IndexComplete
    ScoresExact
    SpellingIgnored
    MatchAnswersBest
