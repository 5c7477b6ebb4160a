CONSTANTS
    r1 = r1
    r2 = r2
    Requests = {r1, r2}
    Mails = {r1, r2}
    Environs <- NearlyRight
    MaxConns = 1
    MaxTurns = 2
SPECIFICATION Spec
INVARIANTS
    GracefulExit
    NothingInTheClear
    AnswersHonest
PROPERTY ExitsWhenTold
