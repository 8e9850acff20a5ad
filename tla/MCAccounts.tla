----------------------------- MODULE MCAccounts -----------------------------
(***************************************************************************)
(* CliAuth on small instances.  A behaviour runs under one of five          *)
(* profiles, so that each combination of operations gets its own bounds.    *)
(***************************************************************************)
EXTENDS CliAuth

OwnerOnly == InsertUser(EmptyTables, "admin", Never, Never)
SignedIn == CreateSession(OwnerOnly, Owner, 0)
WithUser == InsertUser(OwnerOnly, "user", Never, Never)

Nothing == [start |-> EmptyTables, users |-> 0, sessions |-> 0, codes |-> 0, devices |-> 0,
            pairs |-> 0, guestCodes |-> 0, uses |-> 0, resets |-> 0, revokes |-> 0, faults |-> 0]

\* Two invocations share a token file; one browser, signed in, approves.
Terminal == [Nothing EXCEPT !.start = SignedIn, !.devices = 1, !.pairs = 4]
\* The same with lost answers, failing statements, restarts and logout.
Faulty == [Terminal EXCEPT !.pairs = 2, !.revokes = 1, !.faults = 1]
\* A first account is set up, another is reset and deleted while its code is exchanged.
Accounts == [Nothing EXCEPT !.start = CreateSession(WithUser, 2, 0), !.codes = 1, !.pairs = 2, !.users = 2,
                            !.resets = 1]
\* A gateway without accounts: setup, a user, a login.
Fresh == [Nothing EXCEPT !.users = 2, !.sessions = 1]
\* Guests join and lapse, hosts withdraw codes and go.
Guests == [Nothing EXCEPT !.start = WithUser, !.guestCodes = 1, !.uses = 1]

MCProfiles == {Terminal, Faulty, Accounts, Fresh, Guests}
=============================================================================
