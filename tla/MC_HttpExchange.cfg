CONSTANTS
    Scripts <- MCScripts
    Answers <- MCAnswers
    MaxHeader = 16
    MaxHeaderCount = 5
    MaxBody = 2
    MaxOut = 4
    MaxUpload = 1
    MaxRises = 1
SPECIFICATION FairSpec
INVARIANTS
    RequestsArriveAsSent
    AnswersArriveAsSent
    TunnelKeepsBytes
PROPERTIES
    TunnelDelivers
