------------------------------- MODULE CliAuth -------------------------------
(***************************************************************************)
(* Invocations of the command-line client against the gateway's account    *)
(* surface (music-cli/src/auth): device login, guest login, the silent      *)
(* rotation of resolve_bearer, logout, and the one token file they share.   *)
(* A process loads the file, talks to the gateway and writes the file, with *)
(* nothing held in between; an answer may be lost on the way back.          *)
(***************************************************************************)
EXTENDS OAuthServer

CONSTANTS
    Procs, Browsers,    \* who sends requests; a process uses the slot of its name
    Quick               \* how much of the grace window a rotation may use to reach the file

ASSUME ActorsAreSlots == Procs \cup Browsers \subseteq Slots /\ Procs \cap Browsers = {}
ASSUME QuickAssumption == Quick \in 0 .. Grace

VARIABLES
    file,       \* cli-tokens.json: refresh token, access deadline, kind
    proc,       \* what each invocation is doing, with what it loaded
    excused     \* history: the families whose last token may be dead or lost

vars == <<serverVars, file, proc, excused>>

NoFile == [refresh |-> Never, until |-> 0, kind |-> "none"]
Resting == [pc |-> "rest", item |-> Never, at |-> 0]
Working(pc, item, at) == [pc |-> pc, item |-> item, at |-> at]
Goes(p, next) == proc' = [proc EXCEPT ![p] = next]
ServerOnly == UNCHANGED <<file, proc, excused>>

Init ==
    /\ ServerInit
    /\ file = NoFile
    /\ proc = [p \in Procs |-> Resting]
    /\ excused = {}

-----------------------------------------------------------------------------
\* auth login: ask for a device code, then poll until it is decided or lapses.
LoginStarts(p) ==
    /\ proc[p] = Resting /\ req[p] = Idle
    /\ now + CodeTTL < MaxTime      \* bound: the clock outlives the code
    /\ AuthorizeDevice
    /\ Goes(p, Working("poll", Len(db.devices) + 1, now + CodeTTL))
    /\ UNCHANGED <<now, req, setup, bound, file, excused>>

LoginPolls(p) ==
    /\ proc[p].pc = "poll" /\ now <= proc[p].at
    /\ PollDevice(p, proc[p].item)
    /\ Goes(p, [proc[p] EXCEPT !.pc = "polling"])
    /\ UNCHANGED <<file, excused>>

LoginLapses(p) ==
    /\ proc[p].pc = "poll" /\ now > proc[p].at
    /\ Goes(p, Resting)
    /\ UNCHANGED <<serverVars, file, excused>>

\* auth guest: redeem a code.
GuestJoins(p, g) ==
    /\ proc[p] = Resting
    /\ Redeem(p, g)
    /\ Goes(p, Working("joining", Never, now))
    /\ UNCHANGED <<file, excused>>

\* resolve_bearer: a fresh access token is used as it is, a stale guest gives
\* up, and a stale device token goes to the refresh grant.
LoadsStale(p) ==
    /\ proc[p] = Resting /\ req[p] = Idle
    /\ file.kind = "device" /\ file.until <= now
    /\ Goes(p, Working("loaded", file.refresh, now))
    /\ UNCHANGED <<serverVars, file, excused>>

Rotates(p) ==
    /\ proc[p].pc = "loaded"
    /\ Refresh(p, proc[p].item)
    /\ Goes(p, [proc[p] EXCEPT !.pc = "rotating"])
    /\ UNCHANGED <<file, excused>>

FamilyOf(t) == db.refresh[t].family

\* The successor reached the file later than Quick after its token was replaced.
SlowSave(p) == proc[p].pc = "rotating" /\ now - db.refresh[proc[p].item].at > Quick

\* The answer arrives: saved, waited for again, or given up.
Receives(p) ==
    /\ proc[p].pc \in {"polling", "joining", "rotating"}
    /\ req[p].what \in {"pair", "guest", "pending", "refused"}
    /\ Becomes(p, Idle)
    /\ file' = CASE req[p].what = "pair" ->
                      [refresh |-> req[p].item, until |-> now + AccessTTL, kind |-> "device"]
                 [] req[p].what = "guest" ->
                      [refresh |-> Never, until |-> now + GuestTTL, kind |-> "guest"]
                 [] OTHER -> file
    /\ Goes(p, IF req[p].what = "pending" THEN [proc[p] EXCEPT !.pc = "poll"] ELSE Resting)
    /\ excused' = excused \cup (IF req[p].what = "pair" /\ SlowSave(p) THEN {FamilyOf(proc[p].item)} ELSE {})
    /\ UNCHANGED <<db, now, setup, bound>>

\* The connection breaks: the process gives up, the gateway's handler goes on.
AnswerLost(p) ==
    /\ proc[p].pc \in {"polling", "joining", "rotating"} /\ bound.faults > 0
    /\ Goes(p, Resting)
    /\ excused' = excused \cup (IF proc[p].pc = "rotating" THEN {FamilyOf(proc[p].item)} ELSE {})
    /\ UNCHANGED <<serverVars, file>>

Discarded(r) ==
    /\ req[r].what \in {"pair", "guest", "pending", "refused"}
    /\ r \in Procs => proc[r] = Resting
    /\ Becomes(r, Idle)
    /\ UNCHANGED <<db, file, proc, excused>> /\ Frame

\* The families that lose their live token in a step.
Struck ==
    {FamilyOf(t) : t \in {t \in DOMAIN db.refresh : /\ db.refresh[t].status = "live"
                                                  /\ db'.refresh[t].status # "live"}}

\* auth logout: load, revoke if the gateway can be reached, delete the file.
LogoutLoads(p) ==
    /\ proc[p] = Resting /\ req[p] = Idle /\ file # NoFile /\ bound.revokes > 0
    /\ Goes(p, Working("logout", file.refresh, now))
    /\ UNCHANGED <<serverVars, file, excused>>

LogoutRevokes(p) ==
    /\ proc[p].pc = "logout"
    /\ db' \in {db, IF proc[p].item = Never THEN db ELSE RevokeRefreshToken(db, proc[p].item, now)}
    /\ Goes(p, [proc[p] EXCEPT !.pc = "delete"])
    /\ excused' = excused \cup Struck
    /\ UNCHANGED <<req, file>> /\ Frame

LogoutDeletes(p) ==
    /\ proc[p].pc = "delete"
    /\ file' = NoFile
    /\ Goes(p, Resting)
    /\ UNCHANGED <<serverVars, excused>>

-----------------------------------------------------------------------------
\* The family whose next token request r carries.
Carried(r) ==
    IF req[r].what = "mintRefresh" THEN {req[r].family}
    ELSE IF req[r].what \in {"mintAccess", "pair"} THEN {FamilyOf(req[r].item)} ELSE {}

\* A step of the gateway excuses the families it strikes and those whose next
\* token it drops: the account was acted on, a statement failed, a restart.
Excusing ==
    /\ excused' = excused \cup Struck
                          \cup UNION {Carried(r) : r \in {r \in Slots : req'[r].what = "refused"}}
    /\ UNCHANGED <<file, proc>>

\* A reuse found because a process sat on what it had loaded for the rest of the
\* grace window, or because the rotation that replaced it has still not come back.
SlowReplay(r) ==
    r \in Procs => \/ now - proc[r].at >= Grace - Quick
                   \/ \E q \in Procs \ {r} : proc[q].pc = "rotating" /\ proc[q].item = req[r].item

CliStep(p) ==
    \/ LoginStarts(p) \/ LoginPolls(p) \/ LoginLapses(p)
    \/ \E g \in DOMAIN db.guestCodes : GuestJoins(p, g)
    \/ LoadsStale(p) \/ Rotates(p) \/ Receives(p) \/ AnswerLost(p)
    \/ LogoutLoads(p) \/ LogoutRevokes(p) \/ LogoutDeletes(p)

BrowserStep(r) ==
    \/ \E u \in DOMAIN db.users : Login(r, u)
    \/ \E s \in DOMAIN db.sessions : Authorize(r, s)
    \/ \E s \in DOMAIN db.sessions, d \in DOMAIN db.devices, what \in {"approve", "deny"} :
          Decide(r, s, d, what)
    \/ \E c \in DOMAIN db.codes : Exchange(r, c)
    \/ \E d \in DOMAIN db.devices : bound.faults > 0 /\ PollDevice(r, d)    \* a duplicated poll
    \/ \E t \in DOMAIN db.refresh : db.refresh[t].origin[1] = "code" /\ Refresh(r, t)
    \/ \E g \in DOMAIN db.guestCodes : Redeem(r, g)

\* What a handler in flight does next.
ServerStep(r) ==
    \/ OpenSession(r) \/ IssueCode(r) \/ RecordDecision(r) \/ Claim(r)
    \/ MintRefresh(r) \/ MintAccess(r) \/ InsertGuest(r) \/ MintGuest(r)

Administration ==
    \/ /\ \/ Setup \/ CreateUser
          \/ \E u \in DOMAIN db.users : MintGuestCode(u)
          \/ \E g \in DOMAIN db.guestCodes : WithdrawGuestCode(g)
          \/ \E s \in DOMAIN db.sessions : Logout(s) \/ AuthorizePromptLogin(s)
          \/ \E r \in Browsers, u \in DOMAIN db.users : ResetPassword(r, u)
       /\ ServerOnly
    \/ /\ \/ SweepGuests
          \/ \E u \in DOMAIN db.users : DeleteUser(u)
          \/ \E t \in DOMAIN db.refresh : Revoke(t)
          \/ GatewayRestart
       /\ Excusing

Next ==
    \/ \E p \in Procs : CliStep(p)
    \/ \E r \in Browsers : BrowserStep(r) /\ ServerOnly
    \/ \E r \in Slots :
          \/ (ServerStep(r) \/ ResetRevokesSessions(r) \/ ResetRevokesTokens(r) \/ StoreFails(r)) /\ Excusing
          \/ /\ DetectReuse(r)
             /\ excused' = excused \cup (IF SlowReplay(r) THEN Struck ELSE {})
             /\ UNCHANGED <<file, proc>>
          \/ Discarded(r)
    \/ Administration
    \/ Tick /\ ServerOnly

Spec == Init /\ [][Next]_vars

-----------------------------------------------------------------------------
Minting(family) == {r \in Slots : req[r].what = "mintRefresh" /\ req[r].family = family}
LiveIn(family) ==
    {t \in DOMAIN db.refresh : db.refresh[t].family = family /\ db.refresh[t].status = "live"}

\* A rotation chain never forks: whatever refreshes race, a family has at most
\* one usable refresh token, counting the successor a handler is about to mint
\* (consume_refresh_token as the concurrency gate).
ChainNeverForks ==
    \A t \in DOMAIN db.refresh :
        LET f == db.refresh[t].family IN Cardinality(LiveIn(f)) + Cardinality(Minting(f)) <= 1

\* An authorization code or an approved device code starts at most one family,
\* however many polls and exchanges of it are in flight.
CodeMintsOnce ==
    LET Started(o) == {db.refresh[t].family : t \in {t \in DOMAIN db.refresh : db.refresh[t].origin = o}}
        Starting(o) == {r \in Minting(Never) : req[r].origin = o}
    IN  \A o \in ({"code"} \X DOMAIN db.codes) \cup ({"device"} \X DOMAIN db.devices) :
            Cardinality(Started(o)) + Cardinality(Starting(o)) <= 1

\* No access token outlives the refresh token it was derived from, except one
\* whose parent was revoked between the two inserts of mint_pair.
AccessDiesWithParent ==
    \A a \in DOMAIN db.access :
        LET row == db.access[a] IN
        (row.status = "live" /\ row.parent # Never /\ ~row.late) =>
            db.refresh[row.parent].status = "live"

\* Invocations that refresh at the same time do not lose the credential: the
\* stored refresh token is usable, or its successor is on its way to the file,
\* unless the answer that carried a token of its family was lost, the account was
\* acted on, or a rotation and a replay of what it replaced took the whole grace
\* window between them (resolve_bearer's concurrency note).
CredentialSurvives ==
    (file.kind = "device" /\ FamilyOf(file.refresh) \notin excused) =>
        \/ db.refresh[file.refresh].status = "live"
        \/ \E p \in Procs : /\ proc[p].pc = "rotating" /\ proc[p].item = file.refresh
                            /\ req[p].what \in {"mintRefresh", "mintAccess", "pair"}
=============================================================================
