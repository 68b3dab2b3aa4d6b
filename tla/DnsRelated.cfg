SPECIFICATION FairSpec
CONSTANTS
    Domains <- MCDomains
    Address = {0, 1, 2, 3}
    RootServers <- MCRootServers
    Questions <- MCQuestions
    Replies <- MCReplies
    Short <- MCShort
    Ids = {0, 1}
    MaxIndirection = 1
    MaxAttempts = 2
    MaxLate = 1
INVARIANT ResultsAnswerTheQuestion
