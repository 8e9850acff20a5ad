------------------------------ MODULE OAuthStore ------------------------------
(***************************************************************************)
(* The gateway's state database (music-gateway/src/oauth/storage.rs) as a   *)
(* record of tables, and the statements run on it as operators from tables  *)
(* to tables.  Every operator is one SQLite statement or one transaction,   *)
(* so it takes effect at once; the handlers of OAuthServer interleave       *)
(* between them.  A secret is the number of its row: it is unguessable in   *)
(* the code, so a model need not compare hashes.  Rows that a foreign key   *)
(* deletes keep their place with status "deleted".                          *)
(***************************************************************************)
EXTENDS Integers, Sequences, FiniteSets

CONSTANTS
    AccessTTL, RefreshTTL, CodeTTL, SessionTTL, GuestTTL,
    Grace           \* REFRESH_REUSE_GRACE

ASSUME TTLs == {AccessTTL, RefreshTTL, CodeTTL, SessionTTL, GuestTTL, Grace} \subseteq Nat

Owner == 1
Never == 0          \* no user, no family, no parent token

EmptyTables ==
    [users |-> <<>>, sessions |-> <<>>, codes |-> <<>>, devices |-> <<>>,
     refresh |-> <<>>, access |-> <<>>, guestCodes |-> <<>>]

Exists(db, u) == u \in DOMAIN db.users

\* The rows of a table that satisfy Match and are still live become `status`.
\* Only the time a refresh token was revoked is ever read again; other rows keep 0.
Stamp(rows, Match(_), status, at) ==
    [i \in DOMAIN rows |->
        IF rows[i].status = "live" /\ Match(i)
        THEN [rows[i] EXCEPT !.status = status, !.at = at] ELSE rows[i]]

-----------------------------------------------------------------------------
\* Users.  The key column has no AUTOINCREMENT: SQLite gives out one more than
\* the largest key in use, so the key of a deleted last row is given again.
NextUserId(db) ==
    IF db.users = <<>> THEN Owner
    ELSE 1 + CHOOSE u \in DOMAIN db.users : \A v \in DOMAIN db.users : v <= u

InsertUser(db, role, host, expires) ==
    LET id == NextUserId(db)
        row == [role |-> role, host |-> host, expires |-> expires]
    IN  [db EXCEPT !.users =
            [u \in DOMAIN db.users \cup {id} |-> IF u = id THEN row ELSE db.users[u]]]

\* The owner's row, id 1, written once with the password chosen at setup.
SetMasterPassword(db) == InsertUser(db, "admin", Never, Never)

\* Who may sign in with a password: guests have none.
FindLoginUser(db, u) == Exists(db, u) /\ db.users[u].role # "guest"

\* DELETE FROM users with every ON DELETE CASCADE: a host's guests go with it.
DeleteUsers(db, gone) ==
    LET all == gone \cup {u \in DOMAIN db.users : db.users[u].host \in gone}
        Drop(rows) == [i \in DOMAIN rows |->
            IF rows[i].user \in all THEN [rows[i] EXCEPT !.status = "deleted"] ELSE rows[i]]
    IN  [users |-> [u \in DOMAIN db.users \ all |-> db.users[u]],
         sessions |-> Drop(db.sessions), codes |-> Drop(db.codes), devices |-> Drop(db.devices),
         refresh |-> Drop(db.refresh), access |-> Drop(db.access),
         guestCodes |-> Drop(db.guestCodes)]

ExpiredGuests(db, now) ==
    {u \in DOMAIN db.users : db.users[u].role = "guest" /\ db.users[u].expires <= now}

-----------------------------------------------------------------------------
\* Browser sessions.
FindSession(db, s, now) == db.sessions[s].status = "live" /\ db.sessions[s].expires > now

CreateSession(db, u, now) ==
    [db EXCEPT !.sessions = Append(@,
        [user |-> u, status |-> "live", at |-> 0, expires |-> now + SessionTTL])]

RevokeSession(db, s) ==
    [db EXCEPT !.sessions = Stamp(@, LAMBDA i : i = s, "revoked", 0)]

RevokeAllSessionsForUser(db, u) ==
    [db EXCEPT !.sessions = Stamp(@, LAMBDA i : db.sessions[i].user = u, "revoked", 0)]

-----------------------------------------------------------------------------
\* Authorization codes: redeemed by one guarded UPDATE ... RETURNING.
CreateAuthCode(db, u, now) ==
    [db EXCEPT !.codes = Append(@,
        [user |-> u, status |-> "live", at |-> 0, expires |-> now + CodeTTL])]

CodeRedeemable(db, c, now) == db.codes[c].status = "live" /\ db.codes[c].expires > now
ConsumeAuthCode(db, c) ==
    [db EXCEPT !.codes = Stamp(@, LAMBDA i : i = c, "consumed", 0)]

-----------------------------------------------------------------------------
\* Device codes: "live" until the user decides, then approved or denied.
CreateDeviceCode(db, now) ==
    [db EXCEPT !.devices = Append(@,
        [user |-> Never, status |-> "live", at |-> 0, expires |-> now + CodeTTL])]

SetDeviceDecision(db, d, approve, u, now) ==
    IF db.devices[d].status = "live" /\ db.devices[d].expires > now
    THEN [db EXCEPT !.devices[d] =
            IF approve THEN [@ EXCEPT !.status = "approved", !.user = u]
                       ELSE [@ EXCEPT !.status = "denied"]]
    ELSE db

\* What the poll's SELECT reads, before it claims an approved code.
DevicePollState(db, d, now) ==
    CASE db.devices[d].status \in {"consumed", "deleted"} \/ db.devices[d].expires <= now -> "Expired"
      [] db.devices[d].status = "denied" -> "Denied"
      [] db.devices[d].status = "live" -> "Pending"
      [] OTHER -> "Approved"

\* Mutant: the claim does not ask whether the code was consumed meanwhile.
ClaimableAgain(db, d, now) ==
    db.devices[d].status \in {"approved", "consumed"} /\ db.devices[d].expires > now

DeviceClaimable(db, d, now) == db.devices[d].status = "approved" /\ db.devices[d].expires > now
ClaimDeviceCode(db, d) == [db EXCEPT !.devices[d].status = "consumed"]

-----------------------------------------------------------------------------
\* Refresh and access tokens.
MintRefreshToken(db, u, family, origin, now) ==
    [db EXCEPT !.refresh = Append(@,
        [user |-> u, family |-> IF family = Never THEN Len(db.refresh) + 1 ELSE family,
         origin |-> origin, status |-> "live", at |-> 0, expires |-> now + RefreshTTL])]

\* `late` is a history field: the parent was already dead when this was minted.
MintAccessToken(db, u, parent, ttl, now) ==
    [db EXCEPT !.access = Append(@,
        [user |-> u, parent |-> parent, status |-> "live", at |-> 0, expires |-> now + ttl,
         late |-> parent # Never /\ db.refresh[parent].status # "live"])]

\* Mutant: the rotation does not ask whether the token was revoked meanwhile.
UnexpiredRefresh(db, t, now) == db.refresh[t].expires > now

LiveRefresh(db, t, now) == db.refresh[t].status = "live" /\ db.refresh[t].expires > now

\* The access tokens derived from the refresh tokens of a set, in the same transaction.
RevokeDerived(db, ts) ==
    Stamp(db.access, LAMBDA i : db.access[i].parent \in ts, "revoked", 0)

\* Mutant: the rotation leaves the derived access tokens alive.
ConsumeAlone(db, t, now) ==
    [db EXCEPT !.refresh = Stamp(@, LAMBDA i : i = t, "revoked", now)]

ConsumeRefreshToken(db, t, now) ==
    [db EXCEPT !.refresh = Stamp(@, LAMBDA i : i = t, "revoked", now),
               !.access = RevokeDerived(db, {t})]

\* revoke_refresh_token: the same writes, without the gate on expiry.
RevokeRefreshToken(db, t, now) == ConsumeRefreshToken(db, t, now)

\* Mutant: no grace window.
ReuseAtOnce(db, t, now) == db.refresh[t].status = "revoked"

ReuseDetected(db, t, now) == db.refresh[t].status = "revoked" /\ db.refresh[t].at <= now - Grace

RevokeFamily(db, family, now) ==
    LET members == {t \in DOMAIN db.refresh : db.refresh[t].family = family}
    IN  [db EXCEPT !.access = RevokeDerived(db, members),
                   !.refresh = Stamp(@, LAMBDA i : i \in members, "revoked", now)]

RevokeAllTokensForUser(db, u, now) ==
    [db EXCEPT !.refresh = Stamp(@, LAMBDA i : db.refresh[i].user = u, "revoked", now),
               !.access = Stamp(@, LAMBDA i : db.access[i].user = u, "revoked", 0)]

\* resolve_principal: a token resolves to nobody once its account is gone or lapsed.
ResolvesTo(db, a, now) ==
    LET row == db.access[a] IN
    IF /\ row.status = "live" /\ row.expires > now /\ Exists(db, row.user)
       /\ ~ (db.users[row.user].role = "guest" /\ db.users[row.user].expires <= now)
    THEN row.user ELSE Never

-----------------------------------------------------------------------------
\* Guest codes: uses is bumped by the UPDATE that checks it.
CreateGuestCode(db, host, maxUses, now) ==
    [db EXCEPT !.guestCodes = Append(@,
        [user |-> host, status |-> "live", at |-> 0, expires |-> now + CodeTTL,
         uses |-> 0, max |-> maxUses])]

GuestCodeRedeemable(db, g, now) ==
    LET row == db.guestCodes[g]
    IN  row.status = "live" /\ row.expires > now /\ row.uses < row.max

RedeemGuestCode(db, g) == [db EXCEPT !.guestCodes[g].uses = @ + 1]

RevokeGuestCode(db, host, g) ==
    [db EXCEPT !.guestCodes =
        Stamp(@, LAMBDA i : i = g /\ db.guestCodes[i].user = host, "revoked", 0)]
=============================================================================
