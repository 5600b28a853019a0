------------------------------ MODULE MCAccess ------------------------------
EXTENDS Sockets, TLC
MCMixes == {{"register", "resend", "verify", "activate", "google", "fault"},
            {"register", "login", "reset", "confirm", "fault"},
            {"register", "login", "guess", "fault"},
            {"google", "refresh", "expiry", "fault"},
            {"google", "refresh", "logout", "revoke", "delete"},
            {"google", "ticket", "plan", "drop", "stop"},
            {"google", "ticket", "plan", "again"},
            {"google", "ticket", "logout"}}
MCSymmetry == Permutations(Procs)
=============================================================================
