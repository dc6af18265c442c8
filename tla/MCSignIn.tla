------------------------------ MODULE MCSignIn ------------------------------
EXTENDS SignIn, TLC
CONSTANTS t1, t2, h1, h2
MCTabs == {t1, t2}
MCHandlers == {h1, h2}
Journey(uses, steps) == [uses |-> uses, steps |-> steps]
MCJourneys == {
    Journey({"state", "totp", "logout", "disable"}, 4),
    Journey({"verify", "state", "recovery", "disable"}, 4),
    Journey({"state", "recovery", "reset"}, 5),
    Journey({"password", "state", "totp"}, 5),
    Journey({"state", "keybegin", "keyfinish", "disable", "reset"}, 5),
    Journey({"passbegin", "passfinish", "disable"}, 4),
    Journey({"login", "passbegin", "passfinish"}, 4),
    Journey({"password", "lockstatus", "expire"}, 4),
    Journey({"password", "disable"}, 3),
    Journey({"setup", "state", "etotpbegin", "etotpfinish", "complete", "reset"}, 5),
    Journey({"state", "ekeybegin", "ekeyfinish", "complete", "disable"}, 5),
    Journey({"state", "etotpbegin", "etotpfinish", "ekeybegin", "ekeyfinish", "complete"}, 6),
    Journey({"state", "etotpbegin", "ekeybegin", "logout"}, 4),
    Journey({"app", "me", "poll", "logout", "passbegin", "passfinish"}, 4)}
Sym == Permutations(MCTabs) \cup Permutations(MCHandlers)
=============================================================================
