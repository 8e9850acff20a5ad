----------------------------- MODULE OAuthServer -----------------------------
(***************************************************************************)
(* The handlers of the gateway's account surface: oauth/handlers.rs,        *)
(* users.rs, guest_codes.rs and the bearer check.  A handler awaits the     *)
(* database between its statements, so a request in flight is a slot        *)
(* req[r]: what it will do next, with what it has already read.  Any other  *)
(* request may run between two of its steps.                                *)
(***************************************************************************)
EXTENDS OAuthStore

CONSTANTS
    Slots,          \* requests that may be in flight at once
    Profiles,       \* the bounds a behaviour may run under
    MaxTime

\* A behaviour starts with accounts and sessions at most: no code, no token yet.
ASSUME ProfilesStart ==
    \A p \in Profiles :
        /\ p.uses \in Nat
        /\ p.start \in [users : Seq([role : {"admin", "user", "guest"}, host : Nat, expires : Nat]),
                        sessions : Seq([user : Nat, status : {"live"}, at : {0}, expires : Nat]),
                        codes : {<<>>}, devices : {<<>>}, refresh : {<<>>}, access : {<<>>},
                        guestCodes : {<<>>}]

VARIABLES
    now,            \* the clock
    db,             \* the tables
    req,            \* the requests in flight
    setup,          \* the one-shot setup token is active
    bound           \* the profile of this behaviour: its first tables, and how many
                    \* rows of each kind there may be

serverVars == <<now, db, req, setup, bound>>

Idle == [what |-> "idle", user |-> Never, item |-> Never, family |-> Never, origin |-> <<"none", 0>>]
Doing(what, user, item, family, origin) ==
    [what |-> what, user |-> user, item |-> item, family |-> family, origin |-> origin]
Refused == [Idle EXCEPT !.what = "refused"]
Answered(what, item) == [Idle EXCEPT !.what = what, !.item = item]
InFlight == {"session", "code", "approve", "deny", "claim", "reuse", "mintRefresh", "mintAccess",
             "insertGuest", "mintGuest", "resetSessions", "resetTokens"}

\* The row kinds whose number a profile bounds.
HasRoom(limit, rows) == Len(rows) < limit
CanMint == Len(db.refresh) + Cardinality({r \in Slots : req[r].what \in {"claim", "mintRefresh"}})
               < bound.pairs
Becomes(r, next) == req' = [req EXCEPT ![r] = next]
Frame == UNCHANGED <<now, setup, bound>>

ServerInit ==
    /\ now = 0
    /\ bound \in Profiles
    /\ db = bound.start
    /\ setup = ~Exists(db, Owner)
    /\ req = [r \in Slots |-> Idle]

-----------------------------------------------------------------------------
\* POST /oauth/setup: the first account, and only once.
Setup ==
    /\ setup /\ ~Exists(db, Owner)
    /\ db' = SetMasterPassword(db)
    /\ setup' = FALSE
    /\ UNCHANGED <<now, req, bound>>

\* Account administration (users.rs), refused for the owner's own row.
CreateUser ==
    /\ Exists(db, Owner) /\ Cardinality(DOMAIN db.users) < bound.users
    /\ db' = InsertUser(db, "user", Never, Never)
    /\ UNCHANGED req /\ Frame

DeleteUser(u) ==
    /\ u # Owner
    /\ db' = DeleteUsers(db, {u})
    /\ UNCHANGED req /\ Frame

\* Reset: the password first, then sessions, then tokens, each best effort.
ResetPassword(r, u) ==
    /\ req[r] = Idle /\ u # Owner /\ db.users[u].role # "guest" /\ bound.resets > 0
    /\ Becomes(r, Doing("resetSessions", u, Never, Never, Idle.origin))
    /\ UNCHANGED db /\ Frame

ResetRevokesSessions(r) ==
    /\ req[r].what = "resetSessions"
    /\ db' \in {db, RevokeAllSessionsForUser(db, req[r].user)}
    /\ Becomes(r, [req[r] EXCEPT !.what = "resetTokens"])
    /\ Frame

ResetRevokesTokens(r) ==
    /\ req[r].what = "resetTokens"
    /\ db' \in {db, RevokeAllTokensForUser(db, req[r].user, now)}
    /\ Becomes(r, Idle)
    /\ Frame

\* The sweep of lapsed guests, on its timer.
SweepGuests ==
    /\ ExpiredGuests(db, now) # {}
    /\ db' = DeleteUsers(db, ExpiredGuests(db, now))
    /\ UNCHANGED req /\ Frame

-----------------------------------------------------------------------------
\* POST /oauth/login: the password is verified against the row read first.
Login(r, u) ==
    /\ req[r] = Idle /\ FindLoginUser(db, u) /\ HasRoom(bound.sessions, db.sessions)
    /\ Becomes(r, Doing("session", u, Never, Never, Idle.origin))
    /\ UNCHANGED db /\ Frame

OpenSession(r) ==
    /\ req[r].what = "session"
    /\ db' = IF Exists(db, req[r].user) THEN CreateSession(db, req[r].user, now) ELSE db
    /\ Becomes(r, Idle)
    /\ Frame

Logout(s) ==
    /\ db.sessions[s].status = "live"
    /\ db' = RevokeSession(db, s)
    /\ UNCHANGED req /\ Frame

\* GET /oauth/authorize with a live session; prompt=login revokes it instead.
Authorize(r, s) ==
    /\ req[r] = Idle /\ HasRoom(bound.codes, db.codes) /\ FindSession(db, s, now)
    /\ Becomes(r, Doing("code", db.sessions[s].user, Never, Never, Idle.origin))
    /\ UNCHANGED db /\ Frame

AuthorizePromptLogin(s) == bound.codes > 0 /\ Logout(s)

IssueCode(r) ==
    /\ req[r].what = "code"
    /\ db' = IF Exists(db, req[r].user) THEN CreateAuthCode(db, req[r].user, now) ELSE db
    /\ Becomes(r, Idle)
    /\ Frame

\* POST /oauth/device: the session's user decides about a code.
Decide(r, s, d, what) ==
    /\ req[r] = Idle /\ FindSession(db, s, now) /\ db.devices[d].status = "live"
    /\ Becomes(r, Doing(what, db.sessions[s].user, d, Never, Idle.origin))
    /\ UNCHANGED db /\ Frame

RecordDecision(r) ==
    /\ req[r].what \in {"approve", "deny"}
    /\ db' = IF Exists(db, req[r].user)
             THEN SetDeviceDecision(db, req[r].item, req[r].what = "approve", req[r].user, now)
             ELSE db
    /\ Becomes(r, Idle)
    /\ Frame

-----------------------------------------------------------------------------
\* POST /oauth/token, grant by grant.  A code that is redeemed with the wrong
\* client, redirect or verifier is burned and mints nothing.
Exchange(r, c) ==
    /\ req[r] = Idle /\ CanMint /\ CodeRedeemable(db, c, now)
    /\ db' = ConsumeAuthCode(db, c)
    /\ \/ Becomes(r, Doing("mintRefresh", db.codes[c].user, Never, Never, <<"code", c>>))
       \/ Becomes(r, Refused)
    /\ Frame

\* consume_refresh_token, scoped to the client; on failure the reuse check follows.
Refresh(r, t) ==
    /\ req[r] = Idle /\ CanMint
    /\ IF LiveRefresh(db, t, now)
       THEN /\ db' = ConsumeRefreshToken(db, t, now)
            /\ Becomes(r, Doing("mintRefresh", db.refresh[t].user, Never, db.refresh[t].family,
                                db.refresh[t].origin))
       ELSE /\ UNCHANGED db
            /\ Becomes(r, Doing("reuse", Never, t, Never, Idle.origin))
    /\ Frame

DetectReuse(r) ==
    /\ req[r].what = "reuse"
    /\ db' = IF ReuseDetected(db, req[r].item, now)
             THEN RevokeFamily(db, db.refresh[req[r].item].family, now) ELSE db
    /\ Becomes(r, Refused)
    /\ Frame

PollDevice(r, d) ==
    /\ req[r] = Idle /\ CanMint
    /\ Becomes(r, CASE DevicePollState(db, d, now) = "Pending" -> Answered("pending", d)
                    [] DevicePollState(db, d, now) = "Approved" ->
                         Doing("claim", Never, d, Never, Idle.origin)
                    [] OTHER -> Refused)
    /\ UNCHANGED db /\ Frame

Claim(r) ==
    LET d == req[r].item IN
    /\ req[r].what = "claim"
    /\ IF DeviceClaimable(db, d, now)
       THEN /\ db' = ClaimDeviceCode(db, d)
            /\ Becomes(r, Doing("mintRefresh", db.devices[d].user, Never, Never, <<"device", d>>))
       ELSE UNCHANGED db /\ Becomes(r, Refused)
    /\ Frame

\* mint_pair: two inserts, each refused by a foreign key when the account is gone.
MintRefresh(r) ==
    /\ req[r].what = "mintRefresh"
    /\ IF Exists(db, req[r].user)
       THEN /\ db' = MintRefreshToken(db, req[r].user, req[r].family, req[r].origin, now)
            /\ Becomes(r, [req[r] EXCEPT !.what = "mintAccess", !.item = Len(db.refresh) + 1])
       ELSE UNCHANGED db /\ Becomes(r, Refused)
    /\ Frame

MintAccess(r) ==
    /\ req[r].what = "mintAccess"
    /\ IF Exists(db, req[r].user) /\ db.refresh[req[r].item].status # "deleted"
       THEN /\ db' = MintAccessToken(db, req[r].user, req[r].item, AccessTTL, now)
            /\ Becomes(r, Answered("pair", req[r].item))
       ELSE UNCHANGED db /\ Becomes(r, Refused)
    /\ Frame

\* POST /oauth/revoke.
Revoke(t) ==
    /\ db.refresh[t].status = "live" /\ bound.revokes > 0
    /\ db' = RevokeRefreshToken(db, t, now)
    /\ UNCHANGED req /\ Frame

\* POST /oauth/device_authorization.
AuthorizeDevice ==
    /\ HasRoom(bound.devices, db.devices)
    /\ db' = CreateDeviceCode(db, now)

-----------------------------------------------------------------------------
\* Guest codes: minted and revoked by their host, redeemed by anybody who has one.
MintGuestCode(host) ==
    /\ HasRoom(bound.guestCodes, db.guestCodes) /\ db.users[host].role # "guest"
    /\ db' = CreateGuestCode(db, host, bound.uses, now)
    /\ UNCHANGED req /\ Frame

WithdrawGuestCode(g) ==
    /\ db.guestCodes[g].status = "live"
    /\ db' = RevokeGuestCode(db, db.guestCodes[g].user, g)
    /\ UNCHANGED req /\ Frame

Redeem(r, g) ==
    /\ req[r] = Idle
    /\ IF GuestCodeRedeemable(db, g, now)
       THEN /\ db' = RedeemGuestCode(db, g)
            /\ Becomes(r, Doing("insertGuest", db.guestCodes[g].user, g, Never, Idle.origin))
       ELSE UNCHANGED db /\ Becomes(r, Refused)
    /\ Frame

InsertGuest(r) ==
    /\ req[r].what = "insertGuest"
    /\ IF Exists(db, req[r].user)
       THEN /\ db' = InsertUser(db, "guest", req[r].user, now + GuestTTL)
            /\ Becomes(r, Doing("mintGuest", NextUserId(db), req[r].item, Never, Idle.origin))
       ELSE UNCHANGED db /\ Becomes(r, Refused)
    /\ Frame

MintGuest(r) ==
    /\ req[r].what = "mintGuest"
    /\ IF Exists(db, req[r].user)
       THEN /\ db' = MintAccessToken(db, req[r].user, Never, GuestTTL, now)
            /\ Becomes(r, Answered("guest", Len(db.access) + 1))
       ELSE UNCHANGED db /\ Becomes(r, Refused)
    /\ Frame

-----------------------------------------------------------------------------
\* A statement fails: the handler answers 500 and what it wrote stays written.
StoreFails(r) ==
    /\ req[r].what \in InFlight \ {"resetSessions", "resetTokens"} /\ bound.faults > 0
    /\ Becomes(r, Refused)
    /\ UNCHANGED db /\ Frame

\* The process restarts: tables stay, requests are gone, and a new setup token
\* exists exactly when there is still no owner.
GatewayRestart ==
    /\ bound.faults > 0 /\ \E r \in Slots : req[r] # Idle
    /\ req' = [r \in Slots |-> IF req[r].what \in InFlight THEN Refused ELSE req[r]]
    /\ setup' = ~Exists(db, Owner)
    /\ UNCHANGED <<now, db, bound>>

Tick ==
    /\ now < MaxTime
    /\ now' = now + 1
    /\ UNCHANGED <<db, req, setup, bound>>
=============================================================================
