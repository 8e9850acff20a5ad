--------------------------- MODULE AccountsProofs ---------------------------
(* Proofs about the accounts, for any number of browsers, invocations, codes *)
(* and tokens and any lifetimes: rotation chains do not fork, a code starts  *)
(* one family, an access token dies with its parent, and the credential in   *)
(* the token file outlives every interleaving of invocations.  The first     *)
(* part says what each statement of the store does to the tables; then every *)
(* step of the system is given one of a few shapes, and the invariants are   *)
(* shown to survive the shapes.  The last parts are about other tables of    *)
(* the gateway: the playlists of those accounts, and what the signals of a   *)
(* listener leave behind.                                                    *)
EXTENDS CliAuth, Playlists, Taste, CommonLemmas, FiniteSetTheorems, SequenceTheorems, TLAPS

\* A table whose rows are rewritten in place is a table of the same length.
LEMMA RowsFacts ==
    ASSUME NEW S, NEW s, NEW r \in Seq(S), DOMAIN s = DOMAIN r, s = [i \in DOMAIN s |-> s[i]],
           \A i \in DOMAIN s : s[i] \in S
    PROVE  s \in Seq(S) /\ Len(s) = Len(r)
<1>1. Len(r) \in Nat /\ DOMAIN r = 1 .. Len(r)
  BY SeqFacts
<1>2. s \in [1 .. Len(r) -> S]
  BY <1>1
<1>3. s \in Seq(S)
  BY <1>1, <1>2
<1> QED BY <1>1, <1>2, <1>3

-----------------------------------------------------------------------------
(* The tables. *)

Status == {"live", "approved", "denied", "consumed", "revoked", "deleted"}
Origins == {"none", "code", "device"} \X Nat
UserRow == [role : {"admin", "user", "guest"}, host : Nat, expires : Nat]
Row == [user : Nat, status : Status, at : Nat, expires : Nat]
RefreshRow == [user : Nat, family : Nat, origin : Origins, status : Status, at : Nat, expires : Nat]
AccessRow == [user : Nat, parent : Nat, status : Status, at : Nat, expires : Nat, late : BOOLEAN]
GuestCodeRow == [user : Nat, status : Status, at : Nat, expires : Nat, uses : Nat, max : Nat]

TableNames == {"users", "sessions", "codes", "devices", "refresh", "access", "guestCodes"}
IsTables(d) == d = [n \in TableNames |-> d[n]]

UsersOK(d) ==
    /\ DOMAIN d.users \subseteq Nat /\ d.users \in [DOMAIN d.users -> UserRow]
    /\ \E n \in Nat : \A u \in DOMAIN d.users : u <= n

TablesOK(d) ==
    /\ IsTables(d) /\ UsersOK(d)
    /\ d.sessions \in Seq(Row) /\ d.codes \in Seq(Row) /\ d.devices \in Seq(Row)
    /\ d.refresh \in Seq(RefreshRow) /\ d.access \in Seq(AccessRow)
    /\ d.guestCodes \in Seq(GuestCodeRow)

\* A code from which a family was started, or is about to be, cannot start another.
Spent(d, o) ==
    \/ o[1] = "code" /\ o[2] \in DOMAIN d.codes /\ d.codes[o[2]].status # "live"
    \/ o[1] = "device" /\ o[2] \in DOMAIN d.devices /\ d.devices[o[2]].status \notin {"live", "approved"}

\* An access token belongs to the account of the refresh token it was derived from.
AccessOwned(d) ==
    \A a \in DOMAIN d.access : d.access[a].parent # Never =>
        d.access[a].parent \in DOMAIN d.refresh /\ d.refresh[d.access[a].parent].user = d.access[a].user

\* What every statement does: rows stay where they are, and a refresh token's
\* account, family and origin, and what is spent, are for ever.
Extends(d, e) ==
    /\ DOMAIN d.devices \subseteq DOMAIN e.devices
    /\ DOMAIN d.refresh \subseteq DOMAIN e.refresh
    /\ \A t \in DOMAIN d.refresh : /\ e.refresh[t].user = d.refresh[t].user
                                   /\ e.refresh[t].family = d.refresh[t].family
                                   /\ e.refresh[t].origin = d.refresh[t].origin
    /\ \A o \in Origins : Spent(d, o) => Spent(e, o)

\* What every statement does that mints no token: none is revived, and no refresh
\* token dies without the access tokens derived from it.
Fades(d, e) ==
    /\ Extends(d, e)
    /\ DOMAIN e.refresh = DOMAIN d.refresh /\ DOMAIN e.access = DOMAIN d.access
    /\ \A t \in DOMAIN d.refresh :
         d.refresh[t].status # "live" => e.refresh[t].status # "live" /\ e.refresh[t].at = d.refresh[t].at
    /\ \A a \in DOMAIN d.access :
         /\ e.access[a].user = d.access[a].user /\ e.access[a].parent = d.access[a].parent
         /\ e.access[a].late = d.access[a].late
         /\ e.access[a].status = "live" =>
              /\ d.access[a].status = "live"
              /\ \A t \in DOMAIN d.refresh :
                   (t = d.access[a].parent /\ d.refresh[t].status = "live") => e.refresh[t].status = "live"

\* A statement on the other tables only.
SameTokens(d, e) ==
    /\ IsTables(e) /\ e.codes = d.codes /\ e.devices = d.devices
    /\ e.refresh = d.refresh /\ e.access = d.access

\* Such a statement revives nothing and strikes nothing.
LEMMA SameTokensFade == ASSUME NEW d, NEW e, SameTokens(d, e) PROVE Fades(d, e)
BY DEF SameTokens, Fades, Extends, Spent

\* The next row id is one above the greatest there is.
LEMMA NextUserIdType ==
    ASSUME NEW d, TablesOK(d)
    PROVE  NextUserId(d) \in Nat
<1> DEFINE D == DOMAIN d.users
<1>1. D \subseteq Nat /\ \E n \in Nat : \A u \in D : u <= n
  BY DEF TablesOK, UsersOK
<1> HIDE DEF D
<1>2. CASE D = {}
  <2>1. d.users \in [D -> UserRow]
    BY DEF TablesOK, UsersOK, D
  <2>2. d.users = <<>>
    BY <1>2, <2>1
  <2> QED BY <2>2 DEF NextUserId, Owner
<1>3. CASE D # {}
  <2>1. \E u \in D : \A v \in D : v <= u
    BY <1>1, <1>3, NatMax
  <2>2. (CHOOSE u \in D : \A v \in D : v <= u) \in D
    BY <2>1
  <2> QED BY <1>1, <2>2 DEF NextUserId, Owner, D
<1> QED BY <1>2, <1>3

\* INSERT INTO users, with the next row id.
LEMMA InsertUserOK ==
    ASSUME NEW d, TablesOK(d), NEW role \in {"admin", "user", "guest"}, NEW host \in Nat, NEW until \in Nat,
           NEW e, e = InsertUser(d, role, host, until)
    PROVE  TablesOK(e) /\ Fades(d, e)
<1> DEFINE id == NextUserId(d)
           row == [role |-> role, host |-> host, expires |-> until]
<1>1. /\ SameTokens(d, e) /\ e.sessions = d.sessions /\ e.guestCodes = d.guestCodes
      /\ e.users = [u \in DOMAIN d.users \cup {id} |-> IF u = id THEN row ELSE d.users[u]]
  BY DEF InsertUser, TablesOK, SameTokens, IsTables, TableNames
<1>2. id \in Nat /\ row \in UserRow
  BY NextUserIdType DEF UserRow
<1> HIDE DEF id, row
<1>3. UsersOK(e)
  <2>1. PICK n \in Nat : \A u \in DOMAIN d.users : u <= n
    BY DEF TablesOK, UsersOK
  <2>2. DOMAIN e.users \subseteq Nat /\ e.users \in [DOMAIN e.users -> UserRow]
    BY <1>1, <1>2 DEF TablesOK, UsersOK
  <2>3. \A u \in DOMAIN e.users : u <= n + id
    BY <1>1, <1>2, <2>1 DEF TablesOK, UsersOK
  <2>4. n + id \in Nat
    BY <1>2
  <2> QED BY <2>2, <2>3, <2>4 DEF UsersOK
<1> QED BY <1>1, <1>3, SameTokensFade DEF TablesOK, SameTokens

\* The effect of Stamp, with the rows it matches as a set.
Stamped(held, hit, status, at) ==
    [i \in DOMAIN held |->
        IF held[i].status = "live" /\ i \in hit
        THEN [held[i] EXCEPT !.status = status, !.at = at] ELSE held[i]]

\* A table in which live rows got another status is a table.
LEMMA StampedRows ==
    ASSUME NEW held \in Seq(Row), NEW status \in Status, NEW at \in Nat, NEW hit
    PROVE  Stamped(held, hit, status, at) \in Seq(Row)
<1> DEFINE new == Stamped(held, hit, status, at)
<1>1. DOMAIN new = DOMAIN held /\ new = [i \in DOMAIN new |-> new[i]]
  BY DEF Stamped
<1>2. \A i \in DOMAIN held : held[i] \in Row
  BY SeqFacts
<1>3. ASSUME NEW i \in DOMAIN held PROVE [held[i] EXCEPT !.status = status, !.at = at] \in Row
  BY <1>2 DEF Row
<1>4. \A i \in DOMAIN new : new[i] \in Row
  BY <1>1, <1>2, <1>3 DEF Stamped
<1> HIDE DEF new
<1>5. new \in Seq(Row)
  BY <1>1, <1>4, RowsFacts
<1> QED BY <1>5 DEF new

\* The same for the refresh tokens,
LEMMA StampedRefresh ==
    ASSUME NEW held \in Seq(RefreshRow), NEW status \in Status, NEW at \in Nat, NEW hit
    PROVE  Stamped(held, hit, status, at) \in Seq(RefreshRow)
<1> DEFINE new == Stamped(held, hit, status, at)
<1>1. DOMAIN new = DOMAIN held /\ new = [i \in DOMAIN new |-> new[i]]
  BY DEF Stamped
<1>2. \A i \in DOMAIN held : held[i] \in RefreshRow
  BY SeqFacts
<1>3. ASSUME NEW i \in DOMAIN held PROVE [held[i] EXCEPT !.status = status, !.at = at] \in RefreshRow
  BY <1>2 DEF RefreshRow
<1>4. \A i \in DOMAIN new : new[i] \in RefreshRow
  BY <1>1, <1>2, <1>3 DEF Stamped
<1> HIDE DEF new
<1>5. new \in Seq(RefreshRow)
  BY <1>1, <1>4, RowsFacts
<1> QED BY <1>5 DEF new

\* for the access tokens,
LEMMA StampedAccess ==
    ASSUME NEW held \in Seq(AccessRow), NEW status \in Status, NEW at \in Nat, NEW hit
    PROVE  Stamped(held, hit, status, at) \in Seq(AccessRow)
<1> DEFINE new == Stamped(held, hit, status, at)
<1>1. DOMAIN new = DOMAIN held /\ new = [i \in DOMAIN new |-> new[i]]
  BY DEF Stamped
<1>2. \A i \in DOMAIN held : held[i] \in AccessRow
  BY SeqFacts
<1>3. ASSUME NEW i \in DOMAIN held PROVE [held[i] EXCEPT !.status = status, !.at = at] \in AccessRow
  BY <1>2 DEF AccessRow
<1>4. \A i \in DOMAIN new : new[i] \in AccessRow
  BY <1>1, <1>2, <1>3 DEF Stamped
<1> HIDE DEF new
<1>5. new \in Seq(AccessRow)
  BY <1>1, <1>4, RowsFacts
<1> QED BY <1>5 DEF new

\* and for the guest codes.
LEMMA StampedGuestCodes ==
    ASSUME NEW held \in Seq(GuestCodeRow), NEW status \in Status, NEW at \in Nat, NEW hit
    PROVE  Stamped(held, hit, status, at) \in Seq(GuestCodeRow)
<1> DEFINE new == Stamped(held, hit, status, at)
<1>1. DOMAIN new = DOMAIN held /\ new = [i \in DOMAIN new |-> new[i]]
  BY DEF Stamped
<1>2. \A i \in DOMAIN held : held[i] \in GuestCodeRow
  BY SeqFacts
<1>3. ASSUME NEW i \in DOMAIN held PROVE [held[i] EXCEPT !.status = status, !.at = at] \in GuestCodeRow
  BY <1>2 DEF GuestCodeRow
<1>4. \A i \in DOMAIN new : new[i] \in GuestCodeRow
  BY <1>1, <1>2, <1>3 DEF Stamped
<1> HIDE DEF new
<1>5. new \in Seq(GuestCodeRow)
  BY <1>1, <1>4, RowsFacts
<1> QED BY <1>5 DEF new

\* A stamp changes a refresh token's status and its time, and no other column.
LEMMA StampedRefreshFields ==
    ASSUME NEW held \in Seq(RefreshRow), NEW status \in Status, NEW at \in Nat, NEW hit, NEW i \in DOMAIN held,
           NEW new, new = Stamped(held, hit, status, at)[i]
    PROVE  /\ new.user = held[i].user /\ new.family = held[i].family /\ new.origin = held[i].origin
           /\ new.status = IF held[i].status = "live" /\ i \in hit THEN status ELSE held[i].status
           /\ new.at = IF held[i].status = "live" /\ i \in hit THEN at ELSE held[i].at
<1>1. PICK row \in RefreshRow : row = held[i]
  BY SeqFacts
<1>2. new = IF row.status = "live" /\ i \in hit THEN [row EXCEPT !.status = status, !.at = at] ELSE row
  BY <1>1, Zenon DEF Stamped
<1>3. /\ new.user = row.user /\ new.family = row.family /\ new.origin = row.origin
      /\ new.status = IF row.status = "live" /\ i \in hit THEN status ELSE row.status
      /\ new.at = IF row.status = "live" /\ i \in hit THEN at ELSE row.at
  BY <1>2 DEF RefreshRow
<1> QED BY <1>1, <1>3

\* The statements on sessions leave the tokens alone.
LEMMA SessionsOK ==
    ASSUME NEW d, TablesOK(d), NEW u \in Nat, NEW s, NEW now_ \in Nat,
           NEW e, e \in {CreateSession(d, u, now_), RevokeSession(d, s), RevokeAllSessionsForUser(d, u)}
    PROVE  TablesOK(e) /\ Fades(d, e)
<1>1. SameTokens(d, e) /\ e.users = d.users /\ e.guestCodes = d.guestCodes
  BY DEF CreateSession, RevokeSession, RevokeAllSessionsForUser, TablesOK, SameTokens, IsTables, TableNames
<1>0. "revoked" \in Status /\ 0 \in Nat /\ d.sessions \in Seq(Row)
  BY DEF Status, TablesOK
<1>2. e.sessions \in Seq(Row)
  <2>1. CASE e = CreateSession(d, u, now_)
    <3>1. e.sessions = Append(d.sessions, [user |-> u, status |-> "live", at |-> 0, expires |-> now_ + SessionTTL])
      BY <2>1 DEF CreateSession, TablesOK, IsTables, TableNames
    <3>2. [user |-> u, status |-> "live", at |-> 0, expires |-> now_ + SessionTTL] \in Row
      BY TTLs DEF Row, Status
    <3> QED BY <3>1, <3>2, AppendFacts DEF TablesOK
  <2>2. CASE e = RevokeSession(d, s)
    <3>1. e.sessions = Stamped(d.sessions, {s}, "revoked", 0)
      BY <2>2 DEF RevokeSession, Stamp, Stamped, TablesOK, IsTables, TableNames
    <3> QED BY <1>0, <3>1, StampedRows
  <2>3. CASE e = RevokeAllSessionsForUser(d, u)
    <3> DEFINE hit == {i \in DOMAIN d.sessions : d.sessions[i].user = u}
    <3>1. e.sessions = Stamped(d.sessions, hit, "revoked", 0)
      BY <2>3 DEF RevokeAllSessionsForUser, Stamp, Stamped, TablesOK, IsTables, TableNames
    <3> HIDE DEF hit
    <3> QED BY <1>0, <3>1, StampedRows
  <2> QED BY <2>1, <2>2, <2>3
<1> QED BY <1>1, <1>2, SameTokensFade DEF TablesOK, SameTokens, UsersOK

\* So does the redeeming or revoking of a guest code,
LEMMA GuestCodesOK ==
    ASSUME NEW d, TablesOK(d), NEW u \in Nat, NEW g \in DOMAIN d.guestCodes, NEW max \in Nat, NEW now_ \in Nat,
           NEW e, e \in {RedeemGuestCode(d, g), RevokeGuestCode(d, u, g)}
    PROVE  TablesOK(e) /\ Fades(d, e)
<1>1. SameTokens(d, e) /\ e.users = d.users /\ e.sessions = d.sessions
  BY DEF RedeemGuestCode, RevokeGuestCode, TablesOK, SameTokens, IsTables, TableNames
<1>0. "revoked" \in Status /\ 0 \in Nat /\ d.guestCodes \in Seq(GuestCodeRow)
  BY DEF Status, TablesOK
<1>2. e.guestCodes \in Seq(GuestCodeRow)
  <2>1. CASE e = RedeemGuestCode(d, g)
    <3>1. e.guestCodes = [d.guestCodes EXCEPT ![g] = [d.guestCodes[g] EXCEPT !.uses = @ + 1]]
      BY <2>1 DEF RedeemGuestCode, TablesOK, IsTables, TableNames
    <3>2. \A i \in DOMAIN d.guestCodes : d.guestCodes[i] \in GuestCodeRow
      BY SeqFacts DEF TablesOK
    <3>3. [d.guestCodes[g] EXCEPT !.uses = @ + 1] \in GuestCodeRow
      BY <3>2 DEF GuestCodeRow
    <3>4. \A i \in DOMAIN d.guestCodes : e.guestCodes[i] \in GuestCodeRow
      BY <3>1, <3>2, <3>3
    <3> QED BY <3>1, <3>4, RowsFacts DEF TablesOK
  <2>2. CASE e = RevokeGuestCode(d, u, g)
    <3> DEFINE hit == {i \in DOMAIN d.guestCodes : i = g /\ d.guestCodes[i].user = u}
    <3>1. e.guestCodes = Stamped(d.guestCodes, hit, "revoked", 0)
      BY <2>2 DEF RevokeGuestCode, Stamp, Stamped, TablesOK, IsTables, TableNames
    <3> HIDE DEF hit
    <3> QED BY <1>0, <3>1, StampedGuestCodes
  <2> QED BY <2>1, <2>2
<1> QED BY <1>1, <1>2, SameTokensFade DEF TablesOK, SameTokens, UsersOK

\* and the making of one.
LEMMA CreateGuestCodeOK ==
    ASSUME NEW d, TablesOK(d), NEW u \in Nat, NEW max \in Nat, NEW now_ \in Nat,
           NEW e, e = CreateGuestCode(d, u, max, now_)
    PROVE  TablesOK(e) /\ Fades(d, e)
<1> DEFINE row == [user |-> u, status |-> "live", at |-> 0, expires |-> now_ + CodeTTL, uses |-> 0, max |-> max]
<1>1. /\ SameTokens(d, e) /\ e.users = d.users /\ e.sessions = d.sessions
      /\ e.guestCodes = Append(d.guestCodes, row)
  BY DEF CreateGuestCode, TablesOK, SameTokens, IsTables, TableNames
<1>2. row \in GuestCodeRow
  BY TTLs DEF GuestCodeRow, Status
<1> HIDE DEF row
<1>3. e.guestCodes \in Seq(GuestCodeRow)
  BY <1>1, <1>2, AppendFacts DEF TablesOK
<1> QED BY <1>1, <1>3, SameTokensFade DEF TablesOK, SameTokens, UsersOK

\* A statement on the codes only: what is spent stays so.
LEMMA CodesFade ==
    ASSUME NEW d, NEW e, e.refresh = d.refresh, e.access = d.access,
           \A c \in DOMAIN d.codes : /\ c \in DOMAIN e.codes
                                     /\ d.codes[c].status # "live" => e.codes[c].status # "live",
           \A c \in DOMAIN d.devices :
             /\ c \in DOMAIN e.devices
             /\ d.devices[c].status \notin {"live", "approved"} => e.devices[c].status \notin {"live", "approved"}
    PROVE  Fades(d, e)
BY DEF Fades, Extends, Spent

\* A new authorisation code spends none.
LEMMA CreateAuthCodeOK ==
    ASSUME NEW d, TablesOK(d), NEW u \in Nat, NEW now_ \in Nat, NEW e, e = CreateAuthCode(d, u, now_)
    PROVE  TablesOK(e) /\ Fades(d, e)
<1> DEFINE row == [user |-> u, status |-> "live", at |-> 0, expires |-> now_ + CodeTTL]
<1>1. /\ IsTables(e) /\ e.users = d.users /\ e.sessions = d.sessions /\ e.guestCodes = d.guestCodes
      /\ e.devices = d.devices /\ e.refresh = d.refresh /\ e.access = d.access
      /\ e.codes = Append(d.codes, row)
  BY DEF CreateAuthCode, TablesOK, IsTables, TableNames
<1>2. row \in Row
  BY TTLs DEF Row, Status
<1> HIDE DEF row
<1>3. /\ e.codes \in Seq(Row)
      /\ \A c \in DOMAIN d.codes : c \in DOMAIN e.codes /\ e.codes[c] = d.codes[c]
  BY <1>1, <1>2, AppendFacts, SeqFacts, SMTT(30) DEF TablesOK
<1>13. UsersOK(e)
  BY <1>1 DEF TablesOK, UsersOK
<1>4. TablesOK(e)
  BY <1>1, <1>3, <1>13 DEF TablesOK
<1>5. Fades(d, e)
  BY <1>1, <1>3, CodesFade
<1> QED BY <1>4, <1>5

\* A new device code spends none.
LEMMA CreateDeviceCodeOK ==
    ASSUME NEW d, TablesOK(d), NEW now_ \in Nat, NEW e, e = CreateDeviceCode(d, now_)
    PROVE  TablesOK(e) /\ Fades(d, e) /\ Len(d.devices) + 1 \in DOMAIN e.devices
<1> DEFINE row == [user |-> Never, status |-> "live", at |-> 0, expires |-> now_ + CodeTTL]
<1>1. /\ IsTables(e) /\ e.users = d.users /\ e.sessions = d.sessions /\ e.guestCodes = d.guestCodes
      /\ e.codes = d.codes /\ e.refresh = d.refresh /\ e.access = d.access
      /\ e.devices = Append(d.devices, row)
  BY DEF CreateDeviceCode, TablesOK, IsTables, TableNames
<1>2. row \in Row
  BY TTLs DEF Row, Status, Never
<1> HIDE DEF row
<1>3. /\ e.devices \in Seq(Row)
      /\ \A c \in DOMAIN d.devices : c \in DOMAIN e.devices /\ e.devices[c] = d.devices[c]
      /\ Len(d.devices) + 1 \in DOMAIN e.devices
  BY <1>1, <1>2, AppendFacts, SeqFacts DEF TablesOK
<1>13. UsersOK(e)
  BY <1>1 DEF TablesOK, UsersOK
<1>4. TablesOK(e)
  BY <1>1, <1>3, <1>13 DEF TablesOK
<1>5. Fades(d, e)
  BY <1>1, <1>3, CodesFade
<1> QED BY <1>3, <1>4, <1>5

\* The exchange spends the authorisation code it accepts.
LEMMA ConsumeAuthCodeOK ==
    ASSUME NEW d, TablesOK(d), NEW c \in DOMAIN d.codes, NEW e, e = ConsumeAuthCode(d, c)
    PROVE  TablesOK(e) /\ Fades(d, e) /\ Spent(e, <<"code", c>>)
<1>1. /\ IsTables(e) /\ e.users = d.users /\ e.sessions = d.sessions /\ e.guestCodes = d.guestCodes
      /\ e.devices = d.devices /\ e.refresh = d.refresh /\ e.access = d.access
      /\ e.codes = Stamped(d.codes, {c}, "consumed", 0)
  BY DEF ConsumeAuthCode, Stamp, Stamped, TablesOK, IsTables, TableNames
<1>2. "consumed" \in Status /\ 0 \in Nat /\ d.codes \in Seq(Row)
  BY DEF Status, TablesOK
<1>3. e.codes \in Seq(Row)
  BY <1>1, <1>2, StampedRows
<1>4. \A i \in DOMAIN d.codes : d.codes[i] \in Row
  BY <1>2, SeqFacts
<1>5. /\ DOMAIN e.codes = DOMAIN d.codes
      /\ \A i \in DOMAIN d.codes : d.codes[i].status # "live" => e.codes[i].status # "live"
      /\ e.codes[c].status # "live"
  BY <1>1, <1>4, ZenonT(40) DEF Stamped, Row
<1>6. TablesOK(e)
  BY <1>1, <1>3 DEF TablesOK, UsersOK
<1>7. Fades(d, e)
  BY <1>1, <1>5, CodesFade
<1> QED BY <1>5, <1>6, <1>7 DEF Spent

\* Approving or denying a device code does not bring a spent one back.
LEMMA DeviceDecisionOK ==
    ASSUME NEW d, TablesOK(d), NEW c \in DOMAIN d.devices, NEW u \in Nat, NEW approve \in BOOLEAN, NEW now_,
           NEW e, e = SetDeviceDecision(d, c, approve, u, now_)
    PROVE  TablesOK(e) /\ Fades(d, e)
<1>0. \A i \in DOMAIN d.devices : d.devices[i] \in Row
  BY SeqFacts DEF TablesOK
<1>1. CASE e = d
  BY <1>1, SameTokensFade DEF TablesOK, SameTokens
<1>2. CASE e # d
  <2> DEFINE row == IF approve THEN [d.devices[c] EXCEPT !.status = "approved", !.user = u]
                               ELSE [d.devices[c] EXCEPT !.status = "denied"]
  <2>1. /\ IsTables(e) /\ e.users = d.users /\ e.sessions = d.sessions /\ e.guestCodes = d.guestCodes
        /\ e.codes = d.codes /\ e.refresh = d.refresh /\ e.access = d.access
        /\ e.devices = [d.devices EXCEPT ![c] = row]
        /\ d.devices[c].status = "live"
    BY <1>2 DEF SetDeviceDecision, TablesOK, IsTables, TableNames
  <2>2. row \in Row
    BY <1>0 DEF Row, Status
  <2> HIDE DEF row
  <2>3. DOMAIN e.devices = DOMAIN d.devices /\ \A i \in DOMAIN d.devices : e.devices[i] = IF i = c THEN row ELSE d.devices[i]
    BY <2>1
  <2>4. e.devices \in Seq(Row)
    BY <1>0, <2>1, <2>2, <2>3, RowsFacts DEF TablesOK
  <2>5. TablesOK(e)
    BY <2>1, <2>4 DEF TablesOK, UsersOK
  <2>6. Fades(d, e)
    BY <2>1, <2>3, CodesFade
  <2> QED BY <2>5, <2>6
<1> QED BY <1>1, <1>2

\* The claim spends the device code it accepts.
LEMMA ClaimDeviceCodeOK ==
    ASSUME NEW d, TablesOK(d), NEW c \in DOMAIN d.devices, NEW e, e = ClaimDeviceCode(d, c)
    PROVE  TablesOK(e) /\ Fades(d, e) /\ Spent(e, <<"device", c>>)
<1>0. \A i \in DOMAIN d.devices : d.devices[i] \in Row
  BY SeqFacts DEF TablesOK
<1> DEFINE row == [d.devices[c] EXCEPT !.status = "consumed"]
<1>1. /\ IsTables(e) /\ e.users = d.users /\ e.sessions = d.sessions /\ e.guestCodes = d.guestCodes
      /\ e.codes = d.codes /\ e.refresh = d.refresh /\ e.access = d.access
      /\ e.devices = [d.devices EXCEPT ![c] = row]
  BY DEF ClaimDeviceCode, TablesOK, IsTables, TableNames
<1>2. row \in Row /\ row.status = "consumed"
  BY <1>0 DEF Row, Status
<1> HIDE DEF row
<1>3. DOMAIN e.devices = DOMAIN d.devices /\ \A i \in DOMAIN d.devices : e.devices[i] = IF i = c THEN row ELSE d.devices[i]
  BY <1>1
<1>4. e.devices \in Seq(Row)
  BY <1>0, <1>1, <1>2, <1>3, RowsFacts DEF TablesOK
<1>5. TablesOK(e)
  BY <1>1, <1>4 DEF TablesOK, UsersOK
<1>6. Fades(d, e)
  BY <1>1, <1>2, <1>3, CodesFade
<1> QED BY <1>2, <1>3, <1>5, <1>6 DEF Spent

\* The statement leaves the life of every token outside ts alone.
Spares(d, e, ts) == \A t \in DOMAIN d.refresh \ ts : e.refresh[t].status = d.refresh[t].status

\* A revocation: the refresh tokens of ts die, and the access tokens of as with
\* them, among which are all those derived from ts.
LEMMA RevocationOK ==
    ASSUME NEW d, TablesOK(d), NEW ts, NEW as, NEW now_ \in Nat, NEW e,
           /\ IsTables(e) /\ e.users = d.users /\ e.sessions = d.sessions /\ e.guestCodes = d.guestCodes
           /\ e.codes = d.codes /\ e.devices = d.devices
           /\ e.refresh = Stamped(d.refresh, ts, "revoked", now_)
           /\ e.access = Stamped(d.access, as, "revoked", 0),
           \A a \in DOMAIN d.access : d.access[a].parent \in DOMAIN d.refresh \cap ts => a \in as
    PROVE  TablesOK(e) /\ Fades(d, e) /\ Spares(d, e, ts)
<1>1. "revoked" \in Status /\ 0 \in Nat /\ d.refresh \in Seq(RefreshRow) /\ d.access \in Seq(AccessRow)
  BY DEF Status, TablesOK
<1>2. e.refresh \in Seq(RefreshRow) /\ e.access \in Seq(AccessRow)
  BY <1>1, StampedRefresh, StampedAccess
<1>4. /\ DOMAIN e.refresh = DOMAIN d.refresh
      /\ \A t \in DOMAIN d.refresh :
           /\ e.refresh[t].user = d.refresh[t].user /\ e.refresh[t].family = d.refresh[t].family
           /\ e.refresh[t].origin = d.refresh[t].origin
           /\ e.refresh[t].status = IF d.refresh[t].status = "live" /\ t \in ts THEN "revoked" ELSE d.refresh[t].status
           /\ e.refresh[t].at = IF d.refresh[t].status = "live" /\ t \in ts THEN now_ ELSE d.refresh[t].at
  <2>1. DOMAIN e.refresh = DOMAIN d.refresh
    BY DEF Stamped
  <2> QED BY <1>1, <2>1, StampedRefreshFields
<1>5. /\ DOMAIN e.access = DOMAIN d.access
      /\ \A a \in DOMAIN d.access :
           /\ e.access[a].user = d.access[a].user /\ e.access[a].parent = d.access[a].parent
           /\ e.access[a].late = d.access[a].late
           /\ e.access[a].status = IF d.access[a].status = "live" /\ a \in as THEN "revoked" ELSE d.access[a].status
  <2>1. DOMAIN e.access = DOMAIN d.access
    BY DEF Stamped
  <2> SUFFICES ASSUME NEW a \in DOMAIN d.access, NEW new, new = e.access[a]
               PROVE  /\ new.user = d.access[a].user /\ new.parent = d.access[a].parent
                      /\ new.late = d.access[a].late
                      /\ new.status = IF d.access[a].status = "live" /\ a \in as THEN "revoked" ELSE d.access[a].status
    BY <2>1
  <2>2. PICK row \in AccessRow : row = d.access[a]
    BY <1>1, SeqFacts
  <2>3. new = IF row.status = "live" /\ a \in as THEN [row EXCEPT !.status = "revoked", !.at = 0] ELSE row
    BY <2>2, Zenon DEF Stamped
  <2>4. /\ new.user = row.user /\ new.parent = row.parent /\ new.late = row.late
        /\ new.status = IF row.status = "live" /\ a \in as THEN "revoked" ELSE row.status
    BY <2>3 DEF AccessRow
  <2> QED BY <2>2, <2>4
<1>6. TablesOK(e)
  BY <1>2 DEF TablesOK, UsersOK
<1>7. Extends(d, e)
  BY <1>4 DEF Extends, Spent
<1>8. Fades(d, e)
  BY <1>4, <1>5, <1>7, ZenonT(40) DEF Fades
<1> QED BY <1>4, <1>6, <1>8 DEF Spares

\* A rotation revokes one token and what was derived from it.
LEMMA ConsumeRefreshTokenOK ==
    ASSUME NEW d, TablesOK(d), NEW t \in DOMAIN d.refresh, NEW now_ \in Nat, NEW e, e = ConsumeRefreshToken(d, t, now_)
    PROVE  /\ TablesOK(e) /\ Fades(d, e) /\ e.refresh[t].status # "live"
           /\ \A s \in DOMAIN d.refresh \ {t} : e.refresh[s].status = d.refresh[s].status
<1> DEFINE ts == {t}
           as == {a \in DOMAIN d.access : d.access[a].parent \in {t}}
<1>1. /\ IsTables(e) /\ e.users = d.users /\ e.sessions = d.sessions /\ e.guestCodes = d.guestCodes
      /\ e.codes = d.codes /\ e.devices = d.devices
      /\ e.refresh = Stamped(d.refresh, ts, "revoked", now_)
      /\ e.access = Stamped(d.access, as, "revoked", 0)
  BY DEF ConsumeRefreshToken, RevokeDerived, Stamp, Stamped, TablesOK, IsTables, TableNames
<1>2. \A a \in DOMAIN d.access : d.access[a].parent \in DOMAIN d.refresh \cap ts => a \in as
  OBVIOUS
<1> HIDE DEF as, ts
<1>3. TablesOK(e) /\ Fades(d, e) /\ Spares(d, e, ts)
  BY <1>1, <1>2, RevocationOK
<1>4. "revoked" \in Status /\ d.refresh \in Seq(RefreshRow)
  BY DEF Status, TablesOK
<1>5. PICK new : new = Stamped(d.refresh, ts, "revoked", now_)[t]
  OBVIOUS
<1>6. new.status = IF d.refresh[t].status = "live" /\ t \in ts THEN "revoked" ELSE d.refresh[t].status
  BY <1>4, <1>5, StampedRefreshFields
<1>7. e.refresh[t].status # "live"
  BY <1>1, <1>5, <1>6 DEF ts
<1> QED BY <1>3, <1>7 DEF Spares, ts

\* Reuse revokes a family, and no token outside it.
LEMMA RevokeFamilyOK ==
    ASSUME NEW d, TablesOK(d), NEW f, NEW now_ \in Nat, NEW e, e = RevokeFamily(d, f, now_)
    PROVE  /\ TablesOK(e) /\ Fades(d, e)
           /\ \A t \in DOMAIN d.refresh : d.refresh[t].family # f => e.refresh[t].status = d.refresh[t].status
<1> DEFINE ts == {t \in DOMAIN d.refresh : d.refresh[t].family = f}
           as == {a \in DOMAIN d.access : d.access[a].parent \in ts}
<1>1. /\ IsTables(e) /\ e.users = d.users /\ e.sessions = d.sessions /\ e.guestCodes = d.guestCodes
      /\ e.codes = d.codes /\ e.devices = d.devices
      /\ e.refresh = Stamped(d.refresh, ts, "revoked", now_)
      /\ e.access = Stamped(d.access, as, "revoked", 0)
  BY DEF RevokeFamily, RevokeDerived, Stamp, Stamped, TablesOK, IsTables, TableNames
<1>2. \A a \in DOMAIN d.access : d.access[a].parent \in DOMAIN d.refresh \cap ts => a \in as
  OBVIOUS
<1>3. \A t \in DOMAIN d.refresh : d.refresh[t].family # f => t \in DOMAIN d.refresh \ ts
  OBVIOUS
<1> HIDE DEF as, ts
<1>4. TablesOK(e) /\ Fades(d, e) /\ Spares(d, e, ts)
  BY <1>1, <1>2, RevocationOK
<1> QED BY <1>3, <1>4 DEF Spares

\* A sign-out everywhere revokes the tokens of an account: those derived from its
\* refresh tokens are its own (AccessOwned).
LEMMA RevokeAllTokensOK ==
    ASSUME NEW d, TablesOK(d), AccessOwned(d), NEW u, NEW now_ \in Nat, NEW e, e = RevokeAllTokensForUser(d, u, now_)
    PROVE  TablesOK(e) /\ Fades(d, e)
<1> DEFINE ts == {t \in DOMAIN d.refresh : d.refresh[t].user = u}
           as == {a \in DOMAIN d.access : d.access[a].user = u}
<1>0. ~(Never \in DOMAIN d.refresh)
  BY SeqFacts DEF TablesOK, Never
<1>1. /\ IsTables(e) /\ e.users = d.users /\ e.sessions = d.sessions /\ e.guestCodes = d.guestCodes
      /\ e.codes = d.codes /\ e.devices = d.devices
      /\ e.refresh = Stamped(d.refresh, ts, "revoked", now_)
      /\ e.access = Stamped(d.access, as, "revoked", 0)
  BY DEF RevokeAllTokensForUser, Stamp, Stamped, TablesOK, IsTables, TableNames
<1>2. \A a \in DOMAIN d.access : d.access[a].parent \in DOMAIN d.refresh \cap ts => a \in as
  BY <1>0 DEF AccessOwned
<1> HIDE DEF as, ts
<1> QED BY <1>1, <1>2, RevocationOK

\* ON DELETE CASCADE: the rows of the accounts that go.
Dropped(held, all) ==
    [i \in DOMAIN held |-> IF held[i].user \in all THEN [held[i] EXCEPT !.status = "deleted"] ELSE held[i]]

\* Tables whose rows are dropped are tables.
LEMMA DroppedRows ==
    ASSUME NEW all
    PROVE  /\ \A held \in Seq(Row) : Dropped(held, all) \in Seq(Row)
           /\ \A held \in Seq(RefreshRow) : Dropped(held, all) \in Seq(RefreshRow)
           /\ \A held \in Seq(AccessRow) : Dropped(held, all) \in Seq(AccessRow)
           /\ \A held \in Seq(GuestCodeRow) : Dropped(held, all) \in Seq(GuestCodeRow)
<1>0. "deleted" \in Status
  BY DEF Status
<1>1. ASSUME NEW T, NEW held \in Seq(T), \A i \in DOMAIN held : [held[i] EXCEPT !.status = "deleted"] \in T
      PROVE  Dropped(held, all) \in Seq(T)
  <2>1. \A i \in DOMAIN held : held[i] \in T
    BY SeqFacts
  <2>2. /\ DOMAIN Dropped(held, all) = DOMAIN held
        /\ Dropped(held, all) = [i \in DOMAIN Dropped(held, all) |-> Dropped(held, all)[i]]
        /\ \A i \in DOMAIN held : Dropped(held, all)[i] \in T
    BY <1>1, <2>1 DEF Dropped
  <2> QED BY <2>2, RowsFacts
<1>2. ASSUME NEW held \in Seq(Row), NEW i \in DOMAIN held PROVE [held[i] EXCEPT !.status = "deleted"] \in Row
  <2>1. held[i] \in Row
    BY SeqFacts
  <2> QED BY <1>0, <2>1 DEF Row
<1>3. ASSUME NEW held \in Seq(RefreshRow), NEW i \in DOMAIN held PROVE [held[i] EXCEPT !.status = "deleted"] \in RefreshRow
  <2>1. held[i] \in RefreshRow
    BY SeqFacts
  <2> QED BY <1>0, <2>1 DEF RefreshRow
<1>4. ASSUME NEW held \in Seq(AccessRow), NEW i \in DOMAIN held PROVE [held[i] EXCEPT !.status = "deleted"] \in AccessRow
  <2>1. held[i] \in AccessRow
    BY SeqFacts
  <2> QED BY <1>0, <2>1 DEF AccessRow
<1>5. ASSUME NEW held \in Seq(GuestCodeRow), NEW i \in DOMAIN held PROVE [held[i] EXCEPT !.status = "deleted"] \in GuestCodeRow
  <2>1. held[i] \in GuestCodeRow
    BY SeqFacts
  <2> QED BY <1>0, <2>1 DEF GuestCodeRow
<1> QED BY <1>1, <1>2, <1>3, <1>4, <1>5

\* Deleting accounts takes their access tokens with their refresh tokens.
LEMMA DeleteUsersOK ==
    ASSUME NEW d, TablesOK(d), AccessOwned(d), NEW gone, NEW e, e = DeleteUsers(d, gone)
    PROVE  TablesOK(e) /\ Fades(d, e)
<1> DEFINE all == gone \cup {u \in DOMAIN d.users : d.users[u].host \in gone}
<1>1. /\ IsTables(e) /\ e.users = [u \in DOMAIN d.users \ all |-> d.users[u]]
      /\ e.sessions = Dropped(d.sessions, all) /\ e.codes = Dropped(d.codes, all)
      /\ e.devices = Dropped(d.devices, all) /\ e.refresh = Dropped(d.refresh, all)
      /\ e.access = Dropped(d.access, all) /\ e.guestCodes = Dropped(d.guestCodes, all)
  BY DEF DeleteUsers, Dropped, IsTables, TableNames
<1> HIDE DEF all
<1>2. UsersOK(e)
  BY <1>1 DEF TablesOK, UsersOK
<1>3. TablesOK(e)
  BY <1>1, <1>2, DroppedRows DEF TablesOK
<1>4. /\ \A t \in DOMAIN d.refresh : d.refresh[t] \in RefreshRow
      /\ \A a \in DOMAIN d.access : d.access[a] \in AccessRow
      /\ \A c \in DOMAIN d.codes : d.codes[c] \in Row
      /\ \A c \in DOMAIN d.devices : d.devices[c] \in Row
  BY SeqFacts DEF TablesOK
<1>5. /\ DOMAIN e.refresh = DOMAIN d.refresh
      /\ \A t \in DOMAIN d.refresh :
           /\ e.refresh[t].user = d.refresh[t].user /\ e.refresh[t].family = d.refresh[t].family
           /\ e.refresh[t].origin = d.refresh[t].origin
           /\ e.refresh[t].status = IF d.refresh[t].user \in all THEN "deleted" ELSE d.refresh[t].status
           /\ e.refresh[t].at = d.refresh[t].at
  <2>1. \A t \in DOMAIN d.refresh :
          e.refresh[t] = IF d.refresh[t].user \in all THEN [d.refresh[t] EXCEPT !.status = "deleted"]
                         ELSE d.refresh[t]
    BY <1>1 DEF Dropped
  <2>2. DOMAIN e.refresh = DOMAIN d.refresh
    BY <1>1 DEF Dropped
  <2> QED BY <1>4, <2>1, <2>2 DEF RefreshRow
<1>6. /\ DOMAIN e.access = DOMAIN d.access
      /\ \A a \in DOMAIN d.access :
           /\ e.access[a].user = d.access[a].user /\ e.access[a].parent = d.access[a].parent
           /\ e.access[a].late = d.access[a].late
           /\ e.access[a].status = IF d.access[a].user \in all THEN "deleted" ELSE d.access[a].status
  BY <1>1, <1>4 DEF Dropped, AccessRow
<1>7. /\ DOMAIN e.codes = DOMAIN d.codes /\ DOMAIN e.devices = DOMAIN d.devices
      /\ \A c \in DOMAIN d.codes : e.codes[c].status \in {d.codes[c].status, "deleted"}
      /\ \A c \in DOMAIN d.devices : e.devices[c].status \in {d.devices[c].status, "deleted"}
  BY <1>1, <1>4 DEF Dropped, Row
<1>8. Extends(d, e)
  BY <1>5, <1>7 DEF Extends, Spent
<1>9. ASSUME NEW a \in DOMAIN d.access, e.access[a].status = "live", NEW t \in DOMAIN d.refresh,
             t = d.access[a].parent, d.refresh[t].status = "live"
      PROVE  e.refresh[t].status = "live"
  <2>1. t # Never
    BY SeqFacts DEF TablesOK, Never
  <2>2. d.refresh[t].user = d.access[a].user
    BY <1>9, <2>1 DEF AccessOwned
  <2> QED BY <1>5, <1>6, <1>9, <2>2
<1>10. Fades(d, e)
  BY <1>5, <1>6, <1>8, <1>9 DEF Fades
<1> QED BY <1>3, <1>10

\* Token n is new, and the only one that is.
AddsRefresh(d, e, n, u, f, o) ==
    /\ TablesOK(e) /\ Extends(d, e) /\ AccessOwned(e) /\ e.access = d.access
    /\ n \in Nat \ {0} /\ n \notin DOMAIN d.refresh /\ DOMAIN e.refresh = DOMAIN d.refresh \cup {n}
    /\ \A t \in DOMAIN d.refresh : e.refresh[t] = d.refresh[t]
    /\ e.refresh[n].user = u /\ e.refresh[n].family = (IF f = Never THEN n ELSE f)
    /\ e.refresh[n].origin = o /\ e.refresh[n].status = "live"

\* INSERT INTO oauth_refresh_tokens: a family is named after its first token.
LEMMA MintRefreshTokenOK ==
    ASSUME NEW d, TablesOK(d), AccessOwned(d), NEW u \in Nat, NEW f \in Nat, NEW o \in Origins, NEW now_ \in Nat,
           NEW e, e = MintRefreshToken(d, u, f, o, now_), NEW n, n = Len(d.refresh) + 1
    PROVE  AddsRefresh(d, e, n, u, f, o)
<1> DEFINE row == [user |-> u, family |-> IF f = Never THEN Len(d.refresh) + 1 ELSE f,
                   origin |-> o, status |-> "live", at |-> 0, expires |-> now_ + RefreshTTL]
<1>1. /\ IsTables(e) /\ e.users = d.users /\ e.sessions = d.sessions /\ e.guestCodes = d.guestCodes
      /\ e.codes = d.codes /\ e.devices = d.devices /\ e.access = d.access
      /\ e.refresh = Append(d.refresh, row)
  BY DEF MintRefreshToken, TablesOK, IsTables, TableNames
<1>2. Len(d.refresh) \in Nat /\ DOMAIN d.refresh = 1 .. Len(d.refresh)
  BY SeqFacts DEF TablesOK
<1>3. /\ row \in RefreshRow /\ row.user = u /\ row.origin = o /\ row.status = "live"
      /\ row.family = IF f = Never THEN n ELSE f
  BY <1>2, TTLs DEF RefreshRow, Status
<1> HIDE DEF row
<1>4. /\ e.refresh \in Seq(RefreshRow) /\ DOMAIN e.refresh = 1 .. n
      /\ \A i \in 1 .. n : e.refresh[i] = IF i = n THEN row ELSE d.refresh[i]
  BY <1>1, <1>3, AppendFacts DEF TablesOK
<1>5. /\ n \in Nat \ {0} /\ n \notin DOMAIN d.refresh /\ DOMAIN e.refresh = DOMAIN d.refresh \cup {n}
      /\ \A t \in DOMAIN d.refresh : e.refresh[t] = d.refresh[t]
      /\ e.refresh[n] = row
  BY <1>2, <1>4, SMTT(30)
<1>13. UsersOK(e)
  BY <1>1 DEF TablesOK, UsersOK
<1>6. TablesOK(e)
  BY <1>1, <1>4, <1>13 DEF TablesOK
<1>7. Extends(d, e)
  BY <1>1, <1>5 DEF Extends, Spent
<1>8. AccessOwned(e)
  BY <1>1, <1>5 DEF AccessOwned
<1> QED BY <1>1, <1>3, <1>5, <1>6, <1>7, <1>8 DEF AddsRefresh

\* INSERT INTO oauth_access_tokens: one whose parent was revoked in between is
\* marked late.
LEMMA MintAccessTokenOK ==
    ASSUME NEW d, TablesOK(d), AccessOwned(d), NEW u \in Nat, NEW parent \in DOMAIN d.refresh \cup {Never},
           NEW ttl \in Nat, NEW now_ \in Nat, NEW e, e = MintAccessToken(d, u, parent, ttl, now_),
           parent # Never => d.refresh[parent].user = u
    PROVE  /\ TablesOK(e) /\ Extends(d, e) /\ AccessOwned(e)
           /\ e.codes = d.codes /\ e.devices = d.devices /\ e.refresh = d.refresh
           /\ \A a \in DOMAIN e.access :
                \/ a \in DOMAIN d.access /\ e.access[a] = d.access[a]
                \/ /\ e.access[a].parent # Never /\ ~e.access[a].late =>
                        d.refresh[e.access[a].parent].status = "live"
<1> DEFINE row == [user |-> u, parent |-> parent, status |-> "live", at |-> 0, expires |-> now_ + ttl,
                   late |-> parent # Never /\ d.refresh[parent].status # "live"]
           n == Len(d.access) + 1
<1>1. /\ IsTables(e) /\ e.users = d.users /\ e.sessions = d.sessions /\ e.guestCodes = d.guestCodes
      /\ e.codes = d.codes /\ e.devices = d.devices /\ e.refresh = d.refresh
      /\ e.access = Append(d.access, row)
  BY DEF MintAccessToken, TablesOK, IsTables, TableNames
<1>2. Len(d.access) \in Nat /\ DOMAIN d.access = 1 .. Len(d.access) /\ n = Len(d.access) + 1
  BY SeqFacts DEF TablesOK
<1>12. parent \in Nat
  BY SeqFacts DEF TablesOK, Never
<1> DEFINE dead == parent # Never /\ d.refresh[parent].status # "live"
<1>10. dead \in BOOLEAN /\ (~dead /\ parent # Never => d.refresh[parent].status = "live")
  OBVIOUS
<1>11. row = [user |-> u, parent |-> parent, status |-> "live", at |-> 0, expires |-> now_ + ttl, late |-> dead]
  OBVIOUS
<1> HIDE DEF row, dead
<1>14. now_ + ttl \in Nat
  OBVIOUS
<1>15. row.user = u /\ row.parent = parent /\ row.late = dead
  BY <1>11
<1>3. row \in AccessRow /\ row.user = u /\ row.parent = parent /\ row.late = dead
  BY <1>10, <1>11, <1>12, <1>14, <1>15 DEF AccessRow, Status
<1>4. /\ e.access \in Seq(AccessRow) /\ DOMAIN e.access = 1 .. n
      /\ \A i \in 1 .. n : e.access[i] = IF i = n THEN row ELSE d.access[i]
  BY <1>1, <1>3, AppendFacts DEF TablesOK
<1> HIDE DEF n
<1>5. /\ n \notin DOMAIN d.access /\ DOMAIN e.access = DOMAIN d.access \cup {n}
      /\ \A t \in DOMAIN d.access : e.access[t] = d.access[t]
      /\ e.access[n] = row
  BY <1>2, <1>4, SMTT(30)
<1>13. UsersOK(e)
  BY <1>1 DEF TablesOK, UsersOK
<1>6. TablesOK(e)
  BY <1>1, <1>4, <1>13 DEF TablesOK
<1>7. Extends(d, e)
  BY <1>1 DEF Extends, Spent
<1>8. AccessOwned(e)
  BY <1>1, <1>3, <1>5 DEF AccessOwned
<1>9. ASSUME NEW a \in DOMAIN e.access, a = n
      PROVE  e.access[a].parent # Never /\ ~e.access[a].late => d.refresh[e.access[a].parent].status = "live"
  BY <1>3, <1>5, <1>9, <1>10
<1> QED BY <1>1, <1>5, <1>6, <1>7, <1>8, <1>9

\* Ownership survives whatever mints nothing.
LEMMA FadesOwned == ASSUME NEW d, NEW e, Fades(d, e), AccessOwned(d) PROVE AccessOwned(e)
BY DEF Fades, Extends, AccessOwned

-----------------------------------------------------------------------------
(* Requests, invocations and the token file refer to rows that exist. *)

Whats ==
    {"idle", "refused", "pair", "guest", "pending", "session", "code", "approve", "deny", "claim", "reuse",
     "mintRefresh", "mintAccess", "insertGuest", "mintGuest", "resetSessions", "resetTokens"}
Request == [what : Whats, user : Nat, item : Nat, family : Nat, origin : Origins]
Pcs == {"rest", "poll", "polling", "joining", "loaded", "rotating", "logout", "delete"}
Invocation == [pc : Pcs, item : Nat, at : Nat]
TokenFile == [refresh : Nat, until : Nat, kind : {"none", "device", "guest"}]

ReqOK(d, x) ==
    /\ x \in Request
    /\ x.what \in {"approve", "deny", "claim"} => x.item \in DOMAIN d.devices
    /\ x.what \in {"reuse", "mintAccess", "pair"} => x.item \in DOMAIN d.refresh
    /\ x.what = "mintAccess" => d.refresh[x.item].user = x.user

ProcOK(d, x) ==
    /\ x \in Invocation
    /\ x.pc \in {"poll", "polling"} => x.item \in DOMAIN d.devices
    /\ x.pc \in {"loaded", "rotating"} => x.item \in DOMAIN d.refresh
    /\ x.pc = "logout" => x.item \in DOMAIN d.refresh \cup {Never}

FileOK(d, x) ==
    /\ x \in TokenFile
    /\ x.refresh \in DOMAIN d.refresh \cup {Never}
    /\ x.kind = "device" => x.refresh \in DOMAIN d.refresh

BaseInv ==
    /\ now \in Nat /\ bound \in Profiles /\ TablesOK(db) /\ AccessOwned(db)
    /\ req \in [Slots -> Request] /\ \A r \in Slots : ReqOK(db, req[r])
    /\ proc \in [Procs -> Invocation] /\ \A p \in Procs : ProcOK(db, proc[p])
    /\ FileOK(db, file)

\* A step that leaves the tables as Extends says keeps what it does not touch.
LEMMA BaseStep ==
    ASSUME BaseInv, TablesOK(db'), Extends(db, db'), AccessOwned(db'),
           now' \in Nat, bound' = bound,
           req' \in [Slots -> Request], \A r \in Slots : req'[r] = req[r] \/ ReqOK(db', req'[r]),
           proc' \in [Procs -> Invocation], \A p \in Procs : proc'[p] = proc[p] \/ ProcOK(db', proc'[p]),
           file' = file \/ FileOK(db', file')
    PROVE  BaseInv'
<1>1. \A r \in Slots : ReqOK(db', req'[r])
  BY DEF BaseInv, ReqOK, Extends
<1>2. \A p \in Procs : ProcOK(db', proc'[p])
  BY DEF BaseInv, ProcOK, Extends
<1>3. FileOK(db', file')
  BY DEF BaseInv, FileOK, Extends
<1> QED BY <1>1, <1>2, <1>3 DEF BaseInv

\* What a step that mints nothing does: no statement revives a token, and no
\* request begins to mint.
Quiet ==
    /\ Fades(db, db')
    /\ \A r \in Slots : req'[r].what = "mintRefresh" => req'[r] = req[r]

\* The same for a step of one request that leaves the tables faded.
LEMMA RequestStep ==
    ASSUME BaseInv, NEW r \in Slots, NEW x, ReqOK(db', x), Becomes(r, x), x.what # "mintRefresh",
           TablesOK(db'), Fades(db, db'), now' = now, bound' = bound,
           proc' \in [Procs -> Invocation], \A p \in Procs : proc'[p] = proc[p] \/ ProcOK(db', proc'[p]),
           file' = file \/ FileOK(db', file')
    PROVE  BaseInv' /\ Quiet
<1>1. AccessOwned(db') /\ Extends(db, db')
  BY FadesOwned DEF BaseInv, Fades
<1>6. req \in [Slots -> Request] /\ x \in Request /\ req' = [req EXCEPT ![r] = x]
  BY DEF Becomes, BaseInv, ReqOK
<1>2. /\ req' \in [Slots -> Request] /\ \A q \in Slots : req'[q] = req[q] \/ (q = r /\ req'[q] = x)
  BY <1>6
<1>3. now' \in Nat /\ \A q \in Slots : req'[q] = req[q] \/ ReqOK(db', req'[q])
  BY <1>2 DEF BaseInv
<1>4. BaseInv'
  BY <1>1, <1>2, <1>3, BaseStep
<1>5. Quiet
  BY <1>2 DEF Quiet
<1> QED BY <1>4, <1>5

\* The same for a step that leaves the requests alone.
LEMMA PlainStep ==
    ASSUME BaseInv, req' = req, TablesOK(db'), Fades(db, db'), now' \in Nat, bound' = bound,
           proc' \in [Procs -> Invocation], \A p \in Procs : proc'[p] = proc[p] \/ ProcOK(db', proc'[p]),
           file' = file \/ FileOK(db', file')
    PROVE  BaseInv' /\ Quiet
<1>1. AccessOwned(db') /\ Extends(db, db')
  BY FadesOwned DEF BaseInv, Fades
<1>2. req' \in [Slots -> Request]
  BY DEF BaseInv
<1>3. BaseInv'
  BY <1>1, <1>2, BaseStep
<1> QED BY <1>3 DEF Quiet

\* Leaving the tables alone mints nothing.
LEMMA SameTablesFade == ASSUME NEW d PROVE Fades(d, d)
BY DEF Fades, Extends

\* The requests, invocations and files the handlers write down.
LEMMA ConstantRecords ==
    /\ \A d : ReqOK(d, Idle) /\ ReqOK(d, Refused) /\ ProcOK(d, Resting) /\ FileOK(d, NoFile)
    /\ Idle.what = "idle" /\ Refused.what = "refused" /\ Idle.origin \in Origins
<1>1. Idle \in Request /\ Refused \in Request /\ Idle.what = "idle" /\ Refused.what = "refused"
      /\ Idle.origin \in Origins
  BY DEF Request, Whats, Idle, Refused, Never, Origins
<1>2. /\ Resting \in Invocation /\ Resting.pc = "rest"
      /\ NoFile \in TokenFile /\ NoFile.kind = "none" /\ NoFile.refresh = Never
  BY DEF Invocation, Pcs, TokenFile, Resting, NoFile, Never
<1>3. ASSUME NEW d PROVE ReqOK(d, Idle) /\ ReqOK(d, Refused)
  BY <1>1 DEF ReqOK
<1>4. ASSUME NEW d PROVE ProcOK(d, Resting) /\ FileOK(d, NoFile)
  BY <1>2 DEF ProcOK, FileOK
<1> QED BY <1>1, <1>3, <1>4

\* What Doing and Answered write down,
LEMMA DoingType ==
    ASSUME NEW what \in Whats, NEW u \in Nat, NEW item \in Nat, NEW f \in Nat, NEW o \in Origins
    PROVE  /\ Doing(what, u, item, f, o) \in Request /\ Doing(what, u, item, f, o).what = what
           /\ Doing(what, u, item, f, o).item = item /\ Doing(what, u, item, f, o).user = u
           /\ Doing(what, u, item, f, o).family = f /\ Doing(what, u, item, f, o).origin = o
BY DEF Doing, Request

\* outside the minting of a pair,
LEMMA PlainDoing ==
    ASSUME NEW what \in Whats, NEW u \in Nat, NEW item \in Nat
    PROVE  LET x == Doing(what, u, item, Never, Idle.origin)
           IN  x \in Request /\ x.what = what /\ x.item = item /\ x.user = u
BY ConstantRecords DEF Doing, Request, Never

\* and as an answer.
LEMMA AnsweredType ==
    ASSUME NEW what \in Whats, NEW item \in Nat
    PROVE  /\ Answered(what, item) \in Request /\ Answered(what, item).what = what
           /\ Answered(what, item).item = item
BY DEF Answered, Request, Idle, Never, Origins

\* The rows a handler reads.
RowsTyped ==
    /\ \A s \in DOMAIN db.sessions : db.sessions[s].user \in Nat
    /\ \A c \in DOMAIN db.codes : c \in Nat /\ db.codes[c].user \in Nat
    /\ \A c \in DOMAIN db.devices : c \in Nat /\ db.devices[c].user \in Nat
    /\ \A t \in DOMAIN db.refresh : /\ t \in Nat \ {0} /\ db.refresh[t].user \in Nat
                                    /\ db.refresh[t].family \in Nat /\ db.refresh[t].origin \in Origins
    /\ \A g \in DOMAIN db.guestCodes : g \in Nat /\ db.guestCodes[g].user \in Nat
    /\ DOMAIN db.users \subseteq Nat /\ Len(db.devices) \in Nat /\ Len(db.access) \in Nat

\* They are typed, being rows of the tables.
LEMMA RowsHaveTypes == BaseInv => RowsTyped
<1> SUFFICES ASSUME BaseInv PROVE RowsTyped
  OBVIOUS
<1>1. \A s \in DOMAIN db.sessions : db.sessions[s].user \in Nat
  <2>1. Len(db.sessions) \in Nat /\ DOMAIN db.sessions = 1 .. Len(db.sessions) /\ \A i \in DOMAIN db.sessions : db.sessions[i] \in Row
    BY SeqFacts DEF BaseInv, TablesOK
  <2> QED BY <2>1 DEF Row
<1>2. \A c \in DOMAIN db.codes : c \in Nat /\ db.codes[c].user \in Nat
  <2>1. Len(db.codes) \in Nat /\ DOMAIN db.codes = 1 .. Len(db.codes) /\ \A i \in DOMAIN db.codes : db.codes[i] \in Row
    BY SeqFacts DEF BaseInv, TablesOK
  <2> QED BY <2>1 DEF Row
<1>3. \A c \in DOMAIN db.devices : c \in Nat /\ db.devices[c].user \in Nat
  <2>1. Len(db.devices) \in Nat /\ DOMAIN db.devices = 1 .. Len(db.devices) /\ \A i \in DOMAIN db.devices : db.devices[i] \in Row
    BY SeqFacts DEF BaseInv, TablesOK
  <2> QED BY <2>1 DEF Row
<1>4. \A t \in DOMAIN db.refresh : /\ t \in Nat \ {0} /\ db.refresh[t].user \in Nat
                                   /\ db.refresh[t].family \in Nat /\ db.refresh[t].origin \in Origins
  <2>1. Len(db.refresh) \in Nat /\ DOMAIN db.refresh = 1 .. Len(db.refresh) /\ \A i \in DOMAIN db.refresh : db.refresh[i] \in RefreshRow
    BY SeqFacts DEF BaseInv, TablesOK
  <2> QED BY <2>1 DEF RefreshRow
<1>5. \A g \in DOMAIN db.guestCodes : g \in Nat /\ db.guestCodes[g].user \in Nat
  <2>1. Len(db.guestCodes) \in Nat /\ DOMAIN db.guestCodes = 1 .. Len(db.guestCodes) /\ \A i \in DOMAIN db.guestCodes : db.guestCodes[i] \in GuestCodeRow
    BY SeqFacts DEF BaseInv, TablesOK
  <2> QED BY <2>1 DEF GuestCodeRow
<1>6. DOMAIN db.users \subseteq Nat /\ Len(db.devices) \in Nat /\ Len(db.access) \in Nat
  BY SeqFacts DEF BaseInv, TablesOK, UsersOK
<1> QED BY <1>1, <1>2, <1>3, <1>4, <1>5, <1>6 DEF RowsTyped

\* Everything but the tables and the requests stays.
Elsewhere == UNCHANGED <<now, bound, file, proc>>

\* A step on the tables alone.
LEMMA TablesStep ==
    ASSUME BaseInv, Elsewhere, req' = req, TablesOK(db'), Fades(db, db')
    PROVE  BaseInv' /\ Quiet
<1>1. now' \in Nat /\ bound' = bound /\ proc' \in [Procs -> Invocation] /\ proc' = proc /\ file' = file
  BY DEF BaseInv, Elsewhere
<1> QED BY <1>1, PlainStep

\* A step of a handler: the tables and one request.
LEMMA HandlerStep ==
    ASSUME BaseInv, Elsewhere, NEW r \in Slots, NEW x, ReqOK(db', x), Becomes(r, x), x.what # "mintRefresh",
           TablesOK(db'), Fades(db, db')
    PROVE  BaseInv' /\ Quiet
<1>1. now' = now /\ bound' = bound /\ proc' \in [Procs -> Invocation] /\ proc' = proc /\ file' = file
  BY DEF BaseInv, Elsewhere
<1> QED BY <1>1, RequestStep

\* No command of the administrator, sweep or tick of the clock mints.
LEMMA AdministrationStep == ASSUME BaseInv, Administration PROVE BaseInv' /\ Quiet
<1> USE DEF Frame
<1>0. RowsTyped /\ TablesOK(db) /\ AccessOwned(db) /\ now \in Nat /\ bound \in Profiles
  BY RowsHaveTypes DEF BaseInv
<1>1. Elsewhere
  BY DEF Elsewhere, Administration, ServerOnly, Excusing, Setup, CreateUser, SweepGuests, MintGuestCode,
         WithdrawGuestCode, Logout, AuthorizePromptLogin, ResetPassword, DeleteUser, Revoke, GatewayRestart
<1>2. CASE Setup
  <2>1. db' = InsertUser(db, "admin", Never, Never) /\ req' = req
    BY <1>2 DEF Setup, SetMasterPassword
  <2>2. TablesOK(db') /\ Fades(db, db')
    BY <1>0, <2>1, InsertUserOK DEF Never
  <2> QED BY <1>1, <2>1, <2>2, TablesStep
<1>3. CASE CreateUser
  <2>1. db' = InsertUser(db, "user", Never, Never) /\ req' = req
    BY <1>3 DEF CreateUser
  <2>2. TablesOK(db') /\ Fades(db, db')
    BY <1>0, <2>1, InsertUserOK DEF Never
  <2> QED BY <1>1, <2>1, <2>2, TablesStep
<1>4. CASE SweepGuests
  <2>1. db' = DeleteUsers(db, ExpiredGuests(db, now)) /\ req' = req
    BY <1>4 DEF SweepGuests
  <2>2. TablesOK(db') /\ Fades(db, db')
    BY <1>0, <2>1, DeleteUsersOK
  <2> QED BY <1>1, <2>1, <2>2, TablesStep
<1>5. ASSUME NEW u \in DOMAIN db.users, MintGuestCode(u) PROVE BaseInv' /\ Quiet
  <2>1. db' = CreateGuestCode(db, u, bound.uses, now) /\ req' = req /\ u \in Nat /\ bound.uses \in Nat
    BY <1>0, <1>5, ProfilesStart DEF MintGuestCode, RowsTyped
  <2>2. TablesOK(db') /\ Fades(db, db')
    BY <1>0, <2>1, CreateGuestCodeOK
  <2> QED BY <1>1, <2>1, <2>2, TablesStep
<1>6. ASSUME NEW g \in DOMAIN db.guestCodes, WithdrawGuestCode(g) PROVE BaseInv' /\ Quiet
  <2>1. db' = RevokeGuestCode(db, db.guestCodes[g].user, g) /\ req' = req /\ db.guestCodes[g].user \in Nat
    BY <1>0, <1>6 DEF WithdrawGuestCode, RowsTyped
  <2>2. TablesOK(db') /\ Fades(db, db')
    BY <1>0, <2>1, GuestCodesOK
  <2> QED BY <1>1, <2>1, <2>2, TablesStep
<1>7. ASSUME NEW s \in DOMAIN db.sessions, Logout(s) \/ AuthorizePromptLogin(s) PROVE BaseInv' /\ Quiet
  <2>1. db' = RevokeSession(db, s) /\ req' = req
    BY <1>7 DEF Logout, AuthorizePromptLogin
  <2>2. TablesOK(db') /\ Fades(db, db')
    BY <1>0, <2>1, SessionsOK
  <2> QED BY <1>1, <2>1, <2>2, TablesStep
<1>8. ASSUME NEW r \in Browsers, NEW u \in DOMAIN db.users, ResetPassword(r, u) PROVE BaseInv' /\ Quiet
  <2> DEFINE x == Doing("resetSessions", u, Never, Never, Idle.origin)
  <2>1. Becomes(r, x) /\ db' = db /\ r \in Slots
    BY <1>8, ActorsAreSlots DEF ResetPassword
  <2>0. "resetSessions" \in Whats /\ u \in Nat /\ Never \in Nat
    BY <1>0 DEF RowsTyped, Never, Whats
  <2>2. x \in Request /\ x.what = "resetSessions"
    BY <2>0, PlainDoing
  <2> HIDE DEF x
  <2>3. ReqOK(db', x) /\ x.what # "mintRefresh" /\ TablesOK(db') /\ Fades(db, db')
    BY <1>0, <2>1, <2>2, SameTablesFade DEF ReqOK
  <2> QED BY <1>1, <2>1, <2>3, HandlerStep
<1>9. ASSUME NEW u \in DOMAIN db.users, DeleteUser(u) PROVE BaseInv' /\ Quiet
  <2>1. db' = DeleteUsers(db, {u}) /\ req' = req
    BY <1>9 DEF DeleteUser
  <2>2. TablesOK(db') /\ Fades(db, db')
    BY <1>0, <2>1, DeleteUsersOK
  <2> QED BY <1>1, <2>1, <2>2, TablesStep
<1>10. ASSUME NEW t \in DOMAIN db.refresh, Revoke(t) PROVE BaseInv' /\ Quiet
  <2>1. db' = ConsumeRefreshToken(db, t, now) /\ req' = req
    BY <1>10 DEF Revoke, RevokeRefreshToken
  <2>2. TablesOK(db') /\ Fades(db, db')
    BY <1>0, <2>1, ConsumeRefreshTokenOK
  <2> QED BY <1>1, <2>1, <2>2, TablesStep
<1>11. CASE GatewayRestart
  <2>1. /\ db' = db /\ now' = now /\ bound' = bound /\ proc' = proc /\ file' = file
        /\ req' = [r \in Slots |-> IF req[r].what \in InFlight THEN Refused ELSE req[r]]
    BY <1>1, <1>11 DEF GatewayRestart, Elsewhere
  <2>2. TablesOK(db') /\ Extends(db, db') /\ AccessOwned(db') /\ Fades(db, db')
    BY <1>0, <2>1, SameTablesFade DEF Fades
  <2>3. \A r \in Slots : req'[r] = req[r] \/ req'[r] = Refused
    BY <2>1
  <2>4. req' \in [Slots -> Request] /\ \A r \in Slots : req'[r] = req[r] \/ ReqOK(db', req'[r])
    BY <2>1, <2>3, ConstantRecords DEF BaseInv, ReqOK
  <2>5. now' \in Nat /\ proc' \in [Procs -> Invocation]
    BY <2>1 DEF BaseInv
  <2>6. BaseInv'
    BY <2>1, <2>2, <2>4, <2>5, BaseStep
  <2> QED BY <2>2, <2>3, <2>6, ConstantRecords DEF Quiet
<1> QED
  BY <1>2, <1>3, <1>4, <1>5, <1>6, <1>7, <1>8, <1>9, <1>10, <1>11 DEF Administration

-----------------------------------------------------------------------------
(* The steps that mint, by what they do to tables and requests. *)

Others(r) == \A q \in Slots \ {r} : req'[q] = req[q]

\* A code starts a family: it is spent by the step that accepts it.
StartsFamily(r, o) ==
    /\ Fades(db, db') /\ o \in Origins /\ ~Spent(db, o) /\ Spent(db', o) /\ Others(r)
    /\ req'[r].what = "mintRefresh" /\ req'[r].family = Never /\ req'[r].origin = o

\* A refresh token is replaced: it is dead once its successor is to be minted.
Replaces(r, t) ==
    /\ Fades(db, db') /\ Others(r)
    /\ db.refresh[t].status = "live" /\ db'.refresh[t].status # "live"
    /\ req'[r].what = "mintRefresh"
    /\ req'[r].family = db.refresh[t].family /\ req'[r].origin = db.refresh[t].origin

\* The refresh token of a pair is inserted.
InsertsRefresh(r, n) ==
    /\ Extends(db, db') /\ Others(r) /\ req[r].what = "mintRefresh" /\ req'[r].what # "mintRefresh"
    /\ n \in Nat \ {0} /\ n \notin DOMAIN db.refresh /\ DOMAIN db'.refresh = DOMAIN db.refresh \cup {n}
    /\ \A t \in DOMAIN db.refresh : db'.refresh[t] = db.refresh[t]
    /\ db'.refresh[n].family = (IF req[r].family = Never THEN n ELSE req[r].family)
    /\ db'.refresh[n].origin = req[r].origin /\ db'.refresh[n].status = "live"
    /\ db'.access = db.access

\* An access token is inserted.
InsertsAccess ==
    /\ Extends(db, db') /\ db'.refresh = db.refresh
    /\ \A r \in Slots : req'[r].what = "mintRefresh" => req'[r] = req[r]
    /\ \A a \in DOMAIN db'.access :
         \/ a \in DOMAIN db.access /\ db'.access[a] = db.access[a]
         \/ /\ db'.access[a].parent # Never /\ ~db'.access[a].late =>
                 db.refresh[db'.access[a].parent].status = "live"

Shape ==
    \/ Quiet
    \/ \E r \in Slots, o \in Origins : StartsFamily(r, o)
    \/ \E r \in Slots, t \in DOMAIN db.refresh : Replaces(r, t)
    \/ \E r \in Slots, n \in Nat : InsertsRefresh(r, n)
    \/ InsertsAccess

\* One request changes, and with it its own invocation at most.
LEMMA OneRequest ==
    ASSUME BaseInv, NEW r \in Slots, NEW x, ReqOK(db', x), Becomes(r, x),
           TablesOK(db'), Extends(db, db'), AccessOwned(db'), now' = now, bound' = bound,
           proc' \in [Procs -> Invocation], \A p \in Procs : proc'[p] = proc[p] \/ ProcOK(db', proc'[p]),
           file' = file \/ FileOK(db', file')
    PROVE  BaseInv' /\ req'[r] = x /\ Others(r)
<1>1. req \in [Slots -> Request] /\ x \in Request /\ req' = [req EXCEPT ![r] = x]
  BY DEF Becomes, BaseInv, ReqOK
<1>2. req' \in [Slots -> Request] /\ req'[r] = x /\ Others(r)
  BY <1>1 DEF Others
<1>3. now' \in Nat /\ \A q \in Slots : req'[q] = req[q] \/ ReqOK(db', req'[q])
  BY <1>2 DEF BaseInv, Others
<1> QED BY <1>2, <1>3, BaseStep

\* POST /oauth/token with a refresh token, by whoever holds one.
LEMMA RefreshStep ==
    ASSUME BaseInv, NEW r \in Slots, NEW t \in DOMAIN db.refresh, Refresh(r, t),
           proc' \in [Procs -> Invocation], \A p \in Procs : proc'[p] = proc[p] \/ ProcOK(db, proc'[p]), file' = file
    PROVE  BaseInv' /\ Shape
<1>0. /\ RowsTyped /\ TablesOK(db) /\ AccessOwned(db) /\ now \in Nat /\ now' = now /\ bound' = bound
      /\ t \in Nat /\ db.refresh[t].user \in Nat /\ db.refresh[t].family \in Nat /\ db.refresh[t].origin \in Origins
      /\ Never \in Nat /\ "mintRefresh" \in Whats /\ "reuse" \in Whats
  BY RowsHaveTypes DEF BaseInv, RowsTyped, Refresh, Frame, Whats, Never
<1>1. CASE LiveRefresh(db, t, now)
  <2> DEFINE x == Doing("mintRefresh", db.refresh[t].user, Never, db.refresh[t].family, db.refresh[t].origin)
  <2>1. db' = ConsumeRefreshToken(db, t, now) /\ Becomes(r, x) /\ db.refresh[t].status = "live"
    BY <1>1 DEF Refresh, LiveRefresh
  <2>2. /\ x \in Request /\ x.what = "mintRefresh"
        /\ x.family = db.refresh[t].family /\ x.origin = db.refresh[t].origin
    BY <1>0 DEF Doing, Request
  <2> HIDE DEF x
  <2>3. TablesOK(db') /\ Fades(db, db') /\ db'.refresh[t].status # "live"
    BY <1>0, <2>1, ConsumeRefreshTokenOK
  <2>4. Extends(db, db') /\ AccessOwned(db')
    BY <1>0, <2>3, FadesOwned DEF Fades
  <2>5. ReqOK(db', x)
    BY <2>2 DEF ReqOK
  <2>6. \A p \in Procs : proc'[p] = proc[p] \/ ProcOK(db', proc'[p])
    BY <2>4 DEF ProcOK, Extends
  <2>7. BaseInv' /\ req'[r] = x /\ Others(r)
    BY <1>0, <2>1, <2>3, <2>4, <2>5, <2>6, OneRequest
  <2>8. Replaces(r, t)
    BY <2>1, <2>2, <2>3, <2>7 DEF Replaces
  <2> QED BY <2>7, <2>8 DEF Shape
<1>2. CASE ~LiveRefresh(db, t, now)
  <2> DEFINE x == Doing("reuse", Never, t, Never, Idle.origin)
  <2>1. db' = db /\ Becomes(r, x)
    BY <1>2 DEF Refresh
  <2>2. x \in Request /\ x.what = "reuse" /\ x.item = t
    BY <1>0, PlainDoing
  <2> HIDE DEF x
  <2>3. TablesOK(db') /\ Fades(db, db') /\ ReqOK(db', x) /\ x.what # "mintRefresh"
    BY <1>0, <2>1, <2>2, SameTablesFade DEF ReqOK
  <2> QED BY <1>0, <2>1, <2>3, RequestStep DEF Shape
<1> QED BY <1>1, <1>2

\* A poll, by an invocation or by a duplicate of its request.
LEMMA PollStep ==
    ASSUME BaseInv, NEW r \in Slots, NEW d \in DOMAIN db.devices, PollDevice(r, d),
           proc' \in [Procs -> Invocation], \A p \in Procs : proc'[p] = proc[p] \/ ProcOK(db, proc'[p]), file' = file
    PROVE  BaseInv' /\ Quiet
<1>0. /\ TablesOK(db) /\ now' = now /\ bound' = bound /\ db' = db /\ d \in Nat
      /\ Never \in Nat /\ "pending" \in Whats /\ "claim" \in Whats
  BY RowsHaveTypes DEF BaseInv, RowsTyped, PollDevice, Frame, Whats, Never
<1>1. /\ Answered("pending", d) \in Request /\ Answered("pending", d).what = "pending"
      /\ Doing("claim", Never, d, Never, Idle.origin) \in Request
      /\ Doing("claim", Never, d, Never, Idle.origin).what = "claim"
      /\ Doing("claim", Never, d, Never, Idle.origin).item = d
  BY <1>0, AnsweredType, PlainDoing
<1>2. PICK x : /\ Becomes(r, x)
               /\ x \in {Answered("pending", d), Doing("claim", Never, d, Never, Idle.origin), Refused}
  BY DEF PollDevice
<1>3. ReqOK(db', x) /\ x.what # "mintRefresh"
  BY <1>0, <1>1, <1>2, ConstantRecords DEF ReqOK
<1>4. TablesOK(db') /\ Fades(db, db')
  BY <1>0, SameTablesFade
<1> QED BY <1>0, <1>2, <1>3, <1>4, RequestStep

\* A guest code is redeemed, from a browser or by an invocation.
LEMMA RedeemStep ==
    ASSUME BaseInv, NEW r \in Slots, NEW g \in DOMAIN db.guestCodes, Redeem(r, g),
           proc' \in [Procs -> Invocation], \A p \in Procs : proc'[p] = proc[p] \/ ProcOK(db, proc'[p]), file' = file
    PROVE  BaseInv' /\ Quiet
<1>0. /\ TablesOK(db) /\ now' = now /\ bound' = bound /\ g \in Nat /\ db.guestCodes[g].user \in Nat
      /\ "insertGuest" \in Whats
  BY RowsHaveTypes DEF BaseInv, RowsTyped, Redeem, Frame, Whats
<1> DEFINE y == Doing("insertGuest", db.guestCodes[g].user, g, Never, Idle.origin)
<1>1. y \in Request /\ y.what = "insertGuest"
  BY <1>0, PlainDoing
<1>2. \/ db' = RedeemGuestCode(db, g) /\ Becomes(r, y)
      \/ db' = db /\ Becomes(r, Refused)
  BY DEF Redeem
<1> HIDE DEF y
<1>3. TablesOK(db') /\ Fades(db, db')
  <2>1. CASE db' = RedeemGuestCode(db, g)
    BY <1>0, <2>1, GuestCodesOK
  <2>2. CASE db' = db
    BY <1>0, <2>2, SameTablesFade
  <2> QED BY <1>2, <2>1, <2>2
<1>4. PICK x : Becomes(r, x) /\ x \in {y, Refused}
  BY <1>2
<1>5. ReqOK(db', x) /\ x.what # "mintRefresh"
  BY <1>1, <1>4, ConstantRecords DEF ReqOK
<1>6. \A p \in Procs : proc'[p] = proc[p] \/ ProcOK(db', proc'[p])
  BY <1>3 DEF ProcOK, Fades, Extends
<1> QED BY <1>0, <1>3, <1>4, <1>5, <1>6, RequestStep

-----------------------------------------------------------------------------
(* The handlers' own steps. *)

\* What a browser sends first: a login, an authorization, a decision.
LEMMA BrowserAsks ==
    ASSUME BaseInv, Elsewhere, NEW r \in Slots, db' = db, NEW what \in {"session", "code", "approve", "deny"},
           NEW u \in Nat, NEW i \in Nat, Becomes(r, Doing(what, u, i, Never, Idle.origin)),
           what \in {"approve", "deny"} => i \in DOMAIN db.devices
    PROVE  BaseInv' /\ Quiet
<1> DEFINE x == Doing(what, u, i, Never, Idle.origin)
<1>1. x \in Request /\ x.what = what /\ x.item = i
  BY PlainDoing DEF Whats
<1> HIDE DEF x
<1>2. ReqOK(db', x) /\ Becomes(r, x) /\ x.what # "mintRefresh"
  BY <1>1 DEF ReqOK, x
<1>3. TablesOK(db') /\ Fades(db, db')
  BY SameTablesFade DEF BaseInv
<1> QED BY <1>2, <1>3, HandlerStep

\* An authorization code is redeemed, or burned.
LEMMA ExchangeStep ==
    ASSUME BaseInv, Elsewhere, NEW r \in Slots, NEW c \in DOMAIN db.codes, Exchange(r, c)
    PROVE  BaseInv' /\ Shape
<1>0. /\ RowsTyped /\ TablesOK(db) /\ AccessOwned(db) /\ c \in Nat /\ db.codes[c].user \in Nat
      /\ Never \in Nat /\ "mintRefresh" \in Whats
  BY RowsHaveTypes DEF BaseInv, RowsTyped, Whats, Never
<1> DEFINE x == Doing("mintRefresh", db.codes[c].user, Never, Never, <<"code", c>>)
           o == <<"code", c>>
<1>1. /\ db' = ConsumeAuthCode(db, c) /\ db.codes[c].status = "live"
      /\ Becomes(r, x) \/ Becomes(r, Refused)
  BY DEF Exchange, CodeRedeemable
<1>2. o \in Origins /\ o[1] = "code" /\ o[2] = c
  BY <1>0 DEF Origins
<1>3. x \in Request /\ x.what = "mintRefresh" /\ x.family = Never /\ x.origin = o
  BY <1>0, <1>2 DEF Doing, Request
<1> HIDE DEF x, o
<1>4. TablesOK(db') /\ Fades(db, db') /\ Spent(db', o)
  BY <1>0, <1>1, ConsumeAuthCodeOK DEF o
<1>5. CASE Becomes(r, Refused)
  <2>1. ReqOK(db', Refused) /\ Refused.what # "mintRefresh"
    BY ConstantRecords
  <2> QED BY <1>4, <1>5, <2>1, HandlerStep DEF Shape
<1>6. CASE Becomes(r, x)
  <2>1. Extends(db, db') /\ AccessOwned(db') /\ ReqOK(db', x)
    BY <1>0, <1>3, <1>4, FadesOwned DEF Fades, ReqOK
  <2>2. now' = now /\ bound' = bound /\ proc' \in [Procs -> Invocation] /\ proc' = proc /\ file' = file
    BY DEF BaseInv, Elsewhere
  <2>3. BaseInv' /\ req'[r] = x /\ Others(r)
    BY <1>4, <1>6, <2>1, <2>2, OneRequest
  <2>4. ~Spent(db, o)
    BY <1>1, <1>2 DEF Spent
  <2>5. StartsFamily(r, o)
    BY <1>2, <1>3, <1>4, <2>3, <2>4 DEF StartsFamily
  <2> QED BY <1>2, <2>3, <2>5 DEF Shape
<1> QED BY <1>1, <1>5, <1>6

\* An approved device code is claimed, or not any more.
LEMMA ClaimStep ==
    ASSUME BaseInv, Elsewhere, NEW r \in Slots, Claim(r)
    PROVE  BaseInv' /\ Shape
<1> DEFINE d == req[r].item
           x == Doing("mintRefresh", db.devices[d].user, Never, Never, <<"device", d>>)
           o == <<"device", d>>
<1>0. /\ RowsTyped /\ TablesOK(db) /\ AccessOwned(db) /\ d \in DOMAIN db.devices
      /\ d \in Nat /\ db.devices[d].user \in Nat
      /\ Never \in Nat /\ "mintRefresh" \in Whats
  BY RowsHaveTypes DEF BaseInv, RowsTyped, Whats, Never, Claim, ReqOK
<1>1. \/ db' = ClaimDeviceCode(db, d) /\ db.devices[d].status = "approved" /\ Becomes(r, x)
      \/ db' = db /\ Becomes(r, Refused)
  BY DEF Claim, DeviceClaimable
<1>2. o \in Origins /\ o[1] = "device" /\ o[2] = d
  BY <1>0 DEF Origins
<1>3. x \in Request /\ x.what = "mintRefresh" /\ x.family = Never /\ x.origin = o
  BY <1>0, <1>2 DEF Doing, Request
<1> HIDE DEF x, o, d
<1>5. CASE db' = db /\ Becomes(r, Refused)
  <2>1. ReqOK(db', Refused) /\ Refused.what # "mintRefresh"
    BY ConstantRecords
  <2>2. TablesOK(db') /\ Fades(db, db')
    BY <1>0, <1>5, SameTablesFade
  <2> QED BY <1>5, <2>1, <2>2, HandlerStep DEF Shape
<1>6. CASE db' = ClaimDeviceCode(db, d) /\ db.devices[d].status = "approved" /\ Becomes(r, x)
  <2>0. TablesOK(db') /\ Fades(db, db') /\ Spent(db', o)
    BY <1>0, <1>6, ClaimDeviceCodeOK DEF o
  <2>1. Extends(db, db') /\ AccessOwned(db') /\ ReqOK(db', x)
    BY <1>0, <1>3, <2>0, FadesOwned DEF Fades, ReqOK
  <2>2. now' = now /\ bound' = bound /\ proc' \in [Procs -> Invocation] /\ proc' = proc /\ file' = file
    BY DEF BaseInv, Elsewhere
  <2>3. BaseInv' /\ req'[r] = x /\ Others(r)
    BY <1>6, <2>0, <2>1, <2>2, OneRequest
  <2>4. ~Spent(db, o)
    BY <1>2, <1>6 DEF Spent
  <2>5. StartsFamily(r, o)
    BY <1>2, <1>3, <2>0, <2>3, <2>4 DEF StartsFamily
  <2> QED BY <1>2, <2>3, <2>5 DEF Shape
<1> QED BY <1>1, <1>5, <1>6

\* mint_pair's first insert.
LEMMA MintRefreshStep ==
    ASSUME BaseInv, Elsewhere, NEW r \in Slots, MintRefresh(r)
    PROVE  BaseInv' /\ Shape
<1> DEFINE n == Len(db.refresh) + 1
           x == [req[r] EXCEPT !.what = "mintAccess", !.item = n]
<1>0. /\ TablesOK(db) /\ AccessOwned(db) /\ now \in Nat /\ req[r] \in Request /\ req[r].what = "mintRefresh"
      /\ "mintAccess" \in Whats
      /\ now' = now /\ bound' = bound /\ proc' \in [Procs -> Invocation] /\ proc' = proc /\ file' = file
  BY DEF BaseInv, Elsewhere, MintRefresh, Whats
<1>1. req[r].user \in Nat /\ req[r].family \in Nat /\ req[r].origin \in Origins
  BY <1>0 DEF Request
<1>2. \/ db' = MintRefreshToken(db, req[r].user, req[r].family, req[r].origin, now) /\ Becomes(r, x)
      \/ db' = db /\ Becomes(r, Refused)
  BY DEF MintRefresh
<1>3. n = Len(db.refresh) + 1 /\ n \in Nat
  BY SeqFacts DEF BaseInv, TablesOK
<1>4. x \in Request /\ x.what = "mintAccess" /\ x.item = n /\ x.user = req[r].user
  BY <1>0, <1>3 DEF Request
<1> HIDE DEF n, x
<1>5. CASE db' = db /\ Becomes(r, Refused)
  <2>1. ReqOK(db', Refused) /\ Refused.what # "mintRefresh"
    BY ConstantRecords
  <2>2. TablesOK(db') /\ Fades(db, db')
    BY <1>0, <1>5, SameTablesFade
  <2> QED BY <1>5, <2>1, <2>2, HandlerStep DEF Shape
<1>6. CASE db' = MintRefreshToken(db, req[r].user, req[r].family, req[r].origin, now) /\ Becomes(r, x)
  <2>1. /\ TablesOK(db') /\ Extends(db, db') /\ AccessOwned(db') /\ db'.access = db.access
        /\ n \in Nat \ {0} /\ n \notin DOMAIN db.refresh /\ DOMAIN db'.refresh = DOMAIN db.refresh \cup {n}
        /\ \A t \in DOMAIN db.refresh : db'.refresh[t] = db.refresh[t]
        /\ db'.refresh[n].user = req[r].user
        /\ db'.refresh[n].family = (IF req[r].family = Never THEN n ELSE req[r].family)
        /\ db'.refresh[n].origin = req[r].origin /\ db'.refresh[n].status = "live"
    <3> DEFINE u == req[r].user
               f == req[r].family
               o == req[r].origin
    <3>1. u \in Nat /\ f \in Nat /\ o \in Origins /\ db' = MintRefreshToken(db, u, f, o, now)
      BY <1>1, <1>6
    <3> HIDE DEF u, f, o
    <3>2. AddsRefresh(db, db', n, u, f, o)
      BY <1>0, <1>3, <3>1, MintRefreshTokenOK
    <3> QED BY <3>2 DEF u, f, o, AddsRefresh
  <2>2. ReqOK(db', x)
    BY <1>4, <2>1 DEF ReqOK
  <2>3. BaseInv' /\ req'[r] = x /\ Others(r)
    BY <1>0, <1>6, <2>1, <2>2, OneRequest
  <2>4. InsertsRefresh(r, n)
    BY <1>0, <1>4, <2>1, <2>3 DEF InsertsRefresh
  <2> QED BY <2>1, <2>3, <2>4 DEF Shape
<1> QED BY <1>2, <1>5, <1>6

\* An access token is inserted for a pair, or for a guest.
LEMMA AccessStep ==
    ASSUME BaseInv, Elsewhere, NEW r \in Slots, NEW u \in Nat, NEW parent \in DOMAIN db.refresh \cup {Never},
           parent # Never => db.refresh[parent].user = u, NEW ttl \in Nat,
           db' = MintAccessToken(db, u, parent, ttl, now),
           NEW x, Becomes(r, x), x \in Request, x.what \in {"pair", "guest"},
           x.what = "pair" => x.item \in DOMAIN db.refresh
    PROVE  BaseInv' /\ Shape
<1>0. /\ TablesOK(db) /\ AccessOwned(db) /\ now \in Nat
      /\ now' = now /\ bound' = bound /\ proc' \in [Procs -> Invocation] /\ proc' = proc /\ file' = file
  BY DEF BaseInv, Elsewhere
<1>1. /\ TablesOK(db') /\ Extends(db, db') /\ AccessOwned(db') /\ db'.refresh = db.refresh
      /\ \A a \in DOMAIN db'.access :
           \/ a \in DOMAIN db.access /\ db'.access[a] = db.access[a]
           \/ /\ db'.access[a].parent # Never /\ ~db'.access[a].late =>
                   db.refresh[db'.access[a].parent].status = "live"
  <2>1. TablesOK(db') /\ Extends(db, db') /\ AccessOwned(db') /\ db'.refresh = db.refresh
    BY <1>0, MintAccessTokenOK
  <2> DEFINE e == db'
  <2>2. e = MintAccessToken(db, u, parent, ttl, now)
    OBVIOUS
  <2> HIDE DEF e
  <2>3. \A a \in DOMAIN e.access :
           \/ a \in DOMAIN db.access /\ e.access[a] = db.access[a]
           \/ /\ e.access[a].parent # Never /\ ~e.access[a].late =>
                   db.refresh[e.access[a].parent].status = "live"
    BY <1>0, <2>2, MintAccessTokenOK
  <2> QED BY <2>1, <2>3 DEF e
<1>2. ReqOK(db', x)
  BY <1>1 DEF ReqOK
<1>3. BaseInv' /\ req'[r] = x /\ Others(r)
  BY <1>0, <1>1, <1>2, OneRequest
<1>4. \A q \in Slots : req'[q].what = "mintRefresh" => req'[q] = req[q]
  BY <1>3 DEF Others
<1>5. InsertsAccess
  BY <1>1, <1>4 DEF InsertsAccess
<1> QED BY <1>3, <1>5 DEF Shape

\* mint_pair's second insert, and the guest's only one.
LEMMA MintAccessStep ==
    ASSUME BaseInv, Elsewhere, NEW r \in Slots, MintAccess(r) \/ MintGuest(r)
    PROVE  BaseInv' /\ Shape
<1>0. /\ TablesOK(db) /\ req[r] \in Request /\ ReqOK(db, req[r]) /\ req[r].user \in Nat /\ RowsTyped
      /\ AccessTTL \in Nat /\ GuestTTL \in Nat /\ "pair" \in Whats /\ "guest" \in Whats
  BY RowsHaveTypes, TTLs DEF BaseInv, ReqOK, Request, Whats
<1>1. CASE db' = db /\ Becomes(r, Refused)
  <2>1. ReqOK(db', Refused) /\ Refused.what # "mintRefresh"
    BY ConstantRecords
  <2>2. TablesOK(db') /\ Fades(db, db')
    BY <1>0, <1>1, SameTablesFade
  <2> QED BY <1>1, <2>1, <2>2, HandlerStep DEF Shape
<1>2. ASSUME MintAccess(r), ~(db' = db /\ Becomes(r, Refused)) PROVE BaseInv' /\ Shape
  <2> DEFINE t == req[r].item
             x == Answered("pair", t)
  <2>1. /\ t \in DOMAIN db.refresh /\ db.refresh[t].user = req[r].user /\ t \in Nat \ {0}
        /\ db' = MintAccessToken(db, req[r].user, t, AccessTTL, now) /\ Becomes(r, x)
    BY <1>0, <1>2 DEF MintAccess, ReqOK, RowsTyped
  <2>2. x \in Request /\ x.what = "pair" /\ x.item = t
    BY <1>0, <2>1, AnsweredType
  <2> HIDE DEF x, t
  <2> QED BY <1>0, <2>1, <2>2, AccessStep
<1>3. ASSUME MintGuest(r), ~(db' = db /\ Becomes(r, Refused)) PROVE BaseInv' /\ Shape
  <2> DEFINE i == Len(db.access) + 1
             x == Answered("guest", i)
  <2>1. db' = MintAccessToken(db, req[r].user, Never, GuestTTL, now) /\ Becomes(r, x) /\ i \in Nat
    BY <1>0, <1>3 DEF MintGuest, RowsTyped
  <2>2. x \in Request /\ x.what = "guest"
    BY <1>0, <2>1, AnsweredType
  <2> HIDE DEF x, i
  <2> QED BY <1>0, <2>1, <2>2, AccessStep
<1> QED BY <1>1, <1>2, <1>3

\* The other steps of a handler: they mint no token.
LEMMA QuietHandlers ==
    ASSUME BaseInv, Elsewhere, NEW r \in Slots,
           \/ OpenSession(r) \/ IssueCode(r) \/ RecordDecision(r) \/ InsertGuest(r)
           \/ ResetRevokesSessions(r) \/ ResetRevokesTokens(r) \/ StoreFails(r) \/ DetectReuse(r)
           \/ Discarded(r)
    PROVE  BaseInv' /\ Quiet
<1>0. /\ TablesOK(db) /\ AccessOwned(db) /\ now \in Nat /\ req[r] \in Request /\ ReqOK(db, req[r]) /\ RowsTyped
      /\ req[r].user \in Nat /\ req[r].item \in Nat
  BY RowsHaveTypes DEF BaseInv, ReqOK, Request
<1>1. /\ ReqOK(db', Idle) /\ Idle.what # "mintRefresh" /\ ReqOK(db', Refused) /\ Refused.what # "mintRefresh"
  BY ConstantRecords
<1>2. Fades(db, db)
  BY SameTablesFade
<1>3. CASE OpenSession(r)
  <2>1. Becomes(r, Idle) /\ db' \in {db, CreateSession(db, req[r].user, now)}
    BY <1>3 DEF OpenSession
  <2>2. TablesOK(db') /\ Fades(db, db')
    BY <1>0, <1>2, <2>1, SessionsOK
  <2> QED BY <1>1, <2>1, <2>2, HandlerStep
<1>4. CASE IssueCode(r)
  <2>1. Becomes(r, Idle) /\ db' \in {db, CreateAuthCode(db, req[r].user, now)}
    BY <1>4 DEF IssueCode
  <2>2. TablesOK(db') /\ Fades(db, db')
    BY <1>0, <1>2, <2>1, CreateAuthCodeOK
  <2> QED BY <1>1, <2>1, <2>2, HandlerStep
<1>5. CASE RecordDecision(r)
  <2> DEFINE d == req[r].item
             yes == (req[r].what = "approve")
             u == req[r].user
  <2>1. Becomes(r, Idle) /\ db' \in {db, SetDeviceDecision(db, d, yes, u, now)} /\ d \in DOMAIN db.devices
        /\ u \in Nat /\ yes \in BOOLEAN
    BY <1>0, <1>5 DEF RecordDecision, ReqOK
  <2> HIDE DEF d, yes, u
  <2>2. TablesOK(db') /\ Fades(db, db')
    BY <1>0, <1>2, <2>1, DeviceDecisionOK
  <2> QED BY <1>1, <2>1, <2>2, HandlerStep
<1>6. CASE InsertGuest(r)
  <2> DEFINE u == req[r].user
             m == now + GuestTTL
             k == NextUserId(db)
             i == req[r].item
             x == Doing("mintGuest", k, i, Never, Idle.origin)
  <2>1. /\ \/ db' = InsertUser(db, "guest", u, m) /\ Becomes(r, x)
           \/ db' = db /\ Becomes(r, Refused)
        /\ u \in Nat /\ m \in Nat /\ k \in Nat /\ "mintGuest" \in Whats /\ i \in Nat
    BY <1>0, <1>6, NextUserIdType, TTLs DEF InsertGuest, Whats
  <2> HIDE DEF u, m, k, i
  <2>2. x \in Request /\ x.what = "mintGuest"
    BY <2>1, PlainDoing
  <2> HIDE DEF x
  <2>3. ReqOK(db', x)
    BY <2>2 DEF ReqOK
  <2>4. TablesOK(db') /\ Fades(db, db')
    BY <1>0, <1>2, <2>1, InsertUserOK
  <2>5. x.what # "mintRefresh" /\ (Becomes(r, x) \/ Becomes(r, Refused))
    BY <2>1, <2>2
  <2> QED BY <1>1, <2>3, <2>4, <2>5, HandlerStep
<1>7. CASE ResetRevokesSessions(r)
  <2> DEFINE x == [req[r] EXCEPT !.what = "resetTokens"]
  <2>1. Becomes(r, x) /\ db' \in {db, RevokeAllSessionsForUser(db, req[r].user)}
    BY <1>7 DEF ResetRevokesSessions
  <2>2. x \in Request /\ x.what = "resetTokens"
    BY <1>0 DEF Request, Whats
  <2> HIDE DEF x
  <2>3. TablesOK(db') /\ Fades(db, db')
    BY <1>0, <1>2, <2>1, SessionsOK
  <2>4. ReqOK(db', x) /\ x.what # "mintRefresh"
    BY <2>2 DEF ReqOK
  <2> QED BY <2>1, <2>3, <2>4, HandlerStep
<1>8. CASE ResetRevokesTokens(r)
  <2>1. Becomes(r, Idle) /\ db' \in {db, RevokeAllTokensForUser(db, req[r].user, now)}
    BY <1>8 DEF ResetRevokesTokens
  <2>2. TablesOK(db') /\ Fades(db, db')
    BY <1>0, <1>2, <2>1, RevokeAllTokensOK
  <2> QED BY <1>1, <2>1, <2>2, HandlerStep
<1>9. CASE StoreFails(r)
  <2>1. Becomes(r, Refused) /\ TablesOK(db') /\ Fades(db, db')
    BY <1>0, <1>2, <1>9 DEF StoreFails
  <2> QED BY <1>1, <2>1, HandlerStep
<1>10. CASE DetectReuse(r)
  <2> DEFINE f == db.refresh[req[r].item].family
  <2>1. Becomes(r, Refused) /\ db' \in {db, RevokeFamily(db, f, now)} /\ f \in Nat
    BY <1>0, <1>10 DEF DetectReuse, ReqOK, RowsTyped
  <2> HIDE DEF f
  <2>2. TablesOK(db') /\ Fades(db, db')
    BY <1>0, <1>2, <2>1, RevokeFamilyOK
  <2> QED BY <1>1, <2>1, <2>2, HandlerStep
<1>11. CASE Discarded(r)
  <2>1. Becomes(r, Idle) /\ TablesOK(db') /\ Fades(db, db')
    BY <1>0, <1>2, <1>11 DEF Discarded
  <2> QED BY <1>1, <2>1, HandlerStep
<1> QED BY <1>3, <1>4, <1>5, <1>6, <1>7, <1>8, <1>9, <1>10, <1>11

-----------------------------------------------------------------------------
(* The invocations. *)

\* What the request of an invocation may be doing while the invocation waits.
Awaited ==
    [poll     |-> {"idle"},
     loaded   |-> {"idle"},
     polling  |-> {"pending", "claim", "mintRefresh", "mintAccess", "pair", "refused"},
     joining  |-> {"insertGuest", "mintGuest", "guest", "refused"},
     rotating |-> {"mintRefresh", "mintAccess", "pair", "reuse", "refused"},
     rest     |-> Whats, logout |-> Whats, delete |-> Whats]

Matched == \A p \in Procs : req[p].what \in Awaited[proc[p].pc]

\* A step of an invocation is quiet, or asks for the rotation of the token it loaded.
LEMMA CliStepShape ==
    ASSUME BaseInv, Matched, NEW p \in Procs, CliStep(p)
    PROVE  BaseInv' /\ Shape
<1> USE DEF Frame
<1>0. /\ TablesOK(db) /\ AccessOwned(db) /\ now \in Nat /\ RowsTyped /\ p \in Slots /\ Never \in Nat
      /\ proc \in [Procs -> Invocation] /\ proc[p] \in Invocation /\ ProcOK(db, proc[p])
      /\ req[p] \in Request /\ ReqOK(db, req[p]) /\ FileOK(db, file) /\ file \in TokenFile
      /\ proc[p].item \in Nat /\ proc[p].at \in Nat /\ file.refresh \in Nat
      /\ CodeTTL \in Nat /\ AccessTTL \in Nat /\ GuestTTL \in Nat
  BY RowsHaveTypes, ActorsAreSlots, TTLs DEF BaseInv, ProcOK, Invocation, ReqOK, FileOK, TokenFile, Never
<1>1. Fades(db, db)
  BY SameTablesFade
<1>2. ASSUME NEW x, Goes(p, x), ProcOK(db, x)
      PROVE  proc' \in [Procs -> Invocation] /\ \A q \in Procs : proc'[q] = proc[q] \/ ProcOK(db, proc'[q])
  <2>1. x \in Invocation /\ proc' = [proc EXCEPT ![p] = x]
    BY <1>2 DEF Goes, ProcOK
  <2> QED BY <1>0, <1>2, <2>1
<1>3. ProcOK(db, Resting) /\ ProcOK(db', Resting)
  BY ConstantRecords
<1>4. ASSUME NEW pc \in Pcs, NEW i \in Nat, NEW t \in Nat
      PROVE  /\ Working(pc, i, t) \in Invocation /\ Working(pc, i, t).pc = pc /\ Working(pc, i, t).item = i
  BY DEF Working, Invocation
<1>5. ASSUME NEW pc \in Pcs
      PROVE  LET x == [proc[p] EXCEPT !.pc = pc] IN x \in Invocation /\ x.pc = pc /\ x.item = proc[p].item
  BY <1>0 DEF Invocation
<1>6. CASE LoginStarts(p)
  <2> DEFINE n == Len(db.devices) + 1
             m == now + CodeTTL
             x == Working("poll", n, m)
  <2>1. /\ db' = CreateDeviceCode(db, now) /\ Goes(p, x) /\ n = Len(db.devices) + 1
        /\ now' = now /\ req' = req /\ bound' = bound /\ file' = file
        /\ n \in Nat /\ m \in Nat /\ "poll" \in Pcs
    BY <1>0, <1>6 DEF LoginStarts, AuthorizeDevice, RowsTyped, Pcs
  <2> HIDE DEF n, m
  <2>2. TablesOK(db') /\ Fades(db, db') /\ n \in DOMAIN db'.devices
    BY <1>0, <2>1, CreateDeviceCodeOK
  <2>3. x \in Invocation /\ x.pc = "poll" /\ x.item = n
    BY <1>4, <2>1
  <2> HIDE DEF x
  <2>4. ProcOK(db', x)
    BY <2>2, <2>3 DEF ProcOK
  <2>5. proc' \in [Procs -> Invocation] /\ \A q \in Procs : proc'[q] = proc[q] \/ ProcOK(db', proc'[q])
    BY <1>0, <2>1, <2>3, <2>4 DEF Goes
  <2>6. now' \in Nat
    BY <1>0, <2>1
  <2> QED BY <2>1, <2>2, <2>5, <2>6, PlainStep DEF Shape
<1>7. CASE LoginPolls(p)
  <2> DEFINE x == [proc[p] EXCEPT !.pc = "polling"]
  <2>1. /\ PollDevice(p, proc[p].item) /\ Goes(p, x) /\ file' = file /\ proc[p].item \in DOMAIN db.devices
    BY <1>0, <1>7 DEF LoginPolls, ProcOK
  <2>2. x \in Invocation /\ x.pc = "polling" /\ x.item = proc[p].item
    BY <1>5 DEF Pcs
  <2> HIDE DEF x
  <2>3. ProcOK(db, x)
    BY <2>1, <2>2 DEF ProcOK
  <2>4. proc' \in [Procs -> Invocation] /\ \A q \in Procs : proc'[q] = proc[q] \/ ProcOK(db, proc'[q])
    BY <1>2, <2>1, <2>3
  <2> QED BY <1>0, <2>1, <2>4, PollStep DEF Shape
<1>8. ASSUME NEW g \in DOMAIN db.guestCodes, GuestJoins(p, g) PROVE BaseInv' /\ Shape
  <2> DEFINE x == Working("joining", Never, now)
  <2>1. Redeem(p, g) /\ Goes(p, x) /\ file' = file
    BY <1>8 DEF GuestJoins
  <2>2. x \in Invocation /\ x.pc = "joining"
    BY <1>0, <1>4 DEF Pcs
  <2> HIDE DEF x
  <2>3. ProcOK(db, x)
    BY <2>2 DEF ProcOK
  <2>4. proc' \in [Procs -> Invocation] /\ \A q \in Procs : proc'[q] = proc[q] \/ ProcOK(db, proc'[q])
    BY <1>2, <2>1, <2>3
  <2> QED BY <1>0, <2>1, <2>4, RedeemStep DEF Shape
<1>9. CASE Rotates(p)
  <2> DEFINE x == [proc[p] EXCEPT !.pc = "rotating"]
  <2>1. /\ Refresh(p, proc[p].item) /\ Goes(p, x) /\ file' = file /\ proc[p].item \in DOMAIN db.refresh
    BY <1>0, <1>9 DEF Rotates, ProcOK
  <2>2. x \in Invocation /\ x.pc = "rotating" /\ x.item = proc[p].item
    BY <1>5 DEF Pcs
  <2> HIDE DEF x
  <2>3. ProcOK(db, x)
    BY <2>1, <2>2 DEF ProcOK
  <2>4. proc' \in [Procs -> Invocation] /\ \A q \in Procs : proc'[q] = proc[q] \/ ProcOK(db, proc'[q])
    BY <1>2, <2>1, <2>3
  <2> QED BY <1>0, <2>1, <2>4, RefreshStep
<1>10. CASE Receives(p)
  <2>1. /\ db' = db /\ now' = now /\ bound' = bound /\ Becomes(p, Idle)
        /\ Goes(p, IF req[p].what = "pending" THEN [proc[p] EXCEPT !.pc = "poll"] ELSE Resting)
        /\ proc[p].pc \in {"polling", "joining", "rotating"}
    BY <1>10 DEF Receives
  <2>2. ReqOK(db', Idle) /\ Idle.what # "mintRefresh" /\ TablesOK(db') /\ Fades(db, db')
    BY <1>0, <1>1, <2>1, ConstantRecords
  <2>3. proc' \in [Procs -> Invocation] /\ \A q \in Procs : proc'[q] = proc[q] \/ ProcOK(db', proc'[q])
    <3>1. CASE req[p].what = "pending"
      <4> DEFINE x == [proc[p] EXCEPT !.pc = "poll"]
      <4>1. x \in Invocation /\ x.pc = "poll" /\ x.item = proc[p].item /\ Goes(p, x)
        BY <1>5, <2>1, <3>1 DEF Pcs
      <4> HIDE DEF x
      <4>2. proc[p].item \in DOMAIN db.devices
        BY <1>0, <2>1, <3>1 DEF Matched, Awaited, ProcOK
      <4>3. ProcOK(db, x)
        BY <4>1, <4>2 DEF ProcOK
      <4> QED BY <1>2, <2>1, <4>1, <4>3
    <3>2. CASE req[p].what # "pending"
      BY <1>2, <1>3, <2>1, <3>2
    <3> QED BY <3>1, <3>2
  <2>4. file' = file \/ FileOK(db', file')
    <3>1. CASE req[p].what = "pair"
      <4> DEFINE f == [refresh |-> req[p].item, until |-> now + AccessTTL, kind |-> "device"]
      <4>1. file' = f /\ req[p].item \in DOMAIN db.refresh /\ req[p].item \in Nat
        BY <1>0, <1>10, <3>1 DEF Receives, ReqOK, RowsTyped
      <4>2. f \in TokenFile /\ f.refresh = req[p].item /\ f.kind = "device"
        BY <1>0, <4>1 DEF TokenFile
      <4> HIDE DEF f
      <4> QED BY <2>1, <4>1, <4>2 DEF FileOK
    <3>2. CASE req[p].what = "guest"
      <4> DEFINE f == [refresh |-> Never, until |-> now + GuestTTL, kind |-> "guest"]
      <4>1. file' = f
        BY <1>10, <3>2 DEF Receives
      <4>2. f \in TokenFile /\ f.refresh = Never /\ f.kind = "guest"
        BY <1>0 DEF TokenFile
      <4> HIDE DEF f
      <4> QED BY <2>1, <4>1, <4>2 DEF FileOK
    <3>3. CASE req[p].what \in {"pending", "refused"}
      BY <1>10, <3>3 DEF Receives
    <3> QED BY <1>10, <3>1, <3>2, <3>3 DEF Receives
  <2> QED BY <1>0, <2>1, <2>2, <2>3, <2>4, RequestStep DEF Shape
<1>11. CASE LoginLapses(p) \/ AnswerLost(p)
  <2>1. /\ db' = db /\ now' \in Nat /\ bound' = bound /\ req' = req /\ Goes(p, Resting) /\ file' = file
    BY <1>0, <1>11 DEF LoginLapses, AnswerLost, serverVars
  <2>2. proc' \in [Procs -> Invocation] /\ \A q \in Procs : proc'[q] = proc[q] \/ ProcOK(db', proc'[q])
    BY <1>2, <1>3, <2>1
  <2>3. TablesOK(db') /\ Fades(db, db')
    BY <1>0, <1>1, <2>1
  <2> QED BY <2>1, <2>2, <2>3, PlainStep DEF Shape
<1>12. CASE LoadsStale(p) \/ LogoutLoads(p)
  <2> DEFINE i == file.refresh
  <2>1. PICK pc \in Pcs : /\ Goes(p, Working(pc, i, now))
                          /\ pc = "logout" \/ (pc = "loaded" /\ file.kind = "device")
    BY <1>12 DEF LoadsStale, LogoutLoads, Pcs
  <2>2. db' = db /\ now' \in Nat /\ bound' = bound /\ req' = req /\ file' = file
    BY <1>0, <1>12 DEF LoadsStale, LogoutLoads, serverVars
  <2>3. /\ i \in Nat /\ i \in DOMAIN db.refresh \cup {Never}
        /\ file.kind = "device" => i \in DOMAIN db.refresh
    BY <1>0 DEF FileOK
  <2> DEFINE x == Working(pc, i, now)
  <2> HIDE DEF i
  <2>4. x \in Invocation /\ x.pc = pc /\ x.item = i
    BY <1>0, <1>4, <2>3
  <2> HIDE DEF x
  <2>5. ProcOK(db, x) /\ Goes(p, x)
    BY <2>1, <2>3, <2>4 DEF ProcOK, x
  <2>6. proc' \in [Procs -> Invocation] /\ \A q \in Procs : proc'[q] = proc[q] \/ ProcOK(db', proc'[q])
    BY <1>2, <2>2, <2>5
  <2>7. TablesOK(db') /\ Fades(db, db')
    BY <1>0, <1>1, <2>2
  <2> QED BY <2>2, <2>6, <2>7, PlainStep DEF Shape
<1>13. CASE LogoutRevokes(p)
  <2> DEFINE x == [proc[p] EXCEPT !.pc = "delete"]
             t == proc[p].item
  <2>1. /\ db' = db \/ (t # Never /\ db' = ConsumeRefreshToken(db, t, now))
        /\ Goes(p, x) /\ now' = now /\ bound' = bound /\ req' = req /\ file' = file
        /\ t \in DOMAIN db.refresh \cup {Never}
    BY <1>0, <1>13 DEF LogoutRevokes, RevokeRefreshToken, ProcOK
  <2>2. x \in Invocation /\ x.pc = "delete"
    BY <1>5 DEF Pcs
  <2> HIDE DEF x, t
  <2>3. ProcOK(db, x)
    BY <2>2 DEF ProcOK
  <2>4. TablesOK(db') /\ Fades(db, db')
    BY <1>0, <1>1, <2>1, ConsumeRefreshTokenOK
  <2>5. proc' \in [Procs -> Invocation] /\ \A q \in Procs : proc'[q] = proc[q] \/ ProcOK(db, proc'[q])
    BY <1>2, <2>1, <2>3
  <2>6. now' \in Nat /\ \A q \in Procs : proc'[q] = proc[q] \/ ProcOK(db', proc'[q])
    BY <1>0, <2>1, <2>4, <2>5 DEF ProcOK, Fades, Extends
  <2> QED BY <2>1, <2>4, <2>5, <2>6, PlainStep DEF Shape
<1>14. CASE LogoutDeletes(p)
  <2>1. /\ db' = db /\ now' \in Nat /\ bound' = bound /\ req' = req /\ Goes(p, Resting) /\ file' = NoFile
    BY <1>0, <1>14 DEF LogoutDeletes, serverVars
  <2>2. proc' \in [Procs -> Invocation] /\ \A q \in Procs : proc'[q] = proc[q] \/ ProcOK(db', proc'[q])
    BY <1>2, <1>3, <2>1
  <2>3. TablesOK(db') /\ Fades(db, db') /\ FileOK(db', file')
    BY <1>0, <1>1, <2>1, ConstantRecords
  <2> QED BY <2>1, <2>2, <2>3, PlainStep DEF Shape
<1> QED BY <1>6, <1>7, <1>8, <1>9, <1>10, <1>11, <1>12, <1>13, <1>14 DEF CliStep

\* The steps of requests one by one: what follows what.
Follows ==
    [idle |-> {}, refused |-> {"idle"}, pair |-> {"idle"}, guest |-> {"idle"}, pending |-> {"idle"},
     session |-> {"idle", "refused"}, code |-> {"idle", "refused"},
     approve |-> {"idle", "refused"}, deny |-> {"idle", "refused"},
     claim |-> {"mintRefresh", "refused"}, reuse |-> {"refused"},
     mintRefresh |-> {"mintAccess", "refused"}, mintAccess |-> {"pair", "refused"},
     insertGuest |-> {"mintGuest", "refused"}, mintGuest |-> {"guest", "refused"},
     resetSessions |-> {"resetTokens"}, resetTokens |-> {"idle"}]

\* A step of the gateway in one request leaves every invocation waiting for what it waits for.
LEMMA MatchedStep ==
    ASSUME BaseInv, Matched, [Next]_vars
    PROVE  Matched'
<1>0. /\ req \in [Slots -> Request] /\ proc \in [Procs -> Invocation] /\ Procs \subseteq Slots
      /\ Procs \cap Browsers = {} /\ \A r \in Slots : req[r].what \in Whats
      /\ Idle.what = "idle" /\ Refused.what = "refused"
  BY ActorsAreSlots, ConstantRecords DEF BaseInv, Request
<1>1. ASSUME proc' = proc, \A p \in Procs : req'[p] = req[p]
      PROVE  Matched'
  BY <1>1 DEF Matched
<1>2. ASSUME NEW r \in Slots, proc' = proc, NEW x, Becomes(r, x), x.what \in Follows[req[r].what],
             req[r].what \in {"pair", "guest", "pending", "refused"} => (r \in Procs => proc[r].pc = "rest")
      PROVE  Matched'
  <2>1. \A p \in Procs : req'[p] = IF p = r THEN x ELSE req[p]
    BY <1>0, <1>2 DEF Becomes
  <2>2. \A p \in Procs : proc[p].pc \in Pcs
    BY <1>0 DEF Invocation
  <2>3. SUFFICES ASSUME r \in Procs PROVE x.what \in Awaited[proc[r].pc]
    BY <1>2, <2>1 DEF Matched
  <2>4. req[r].what \in Whats /\ req[r].what \in Awaited[proc[r].pc] /\ proc[r].pc \in Pcs
    BY <1>0, <2>2, <2>3 DEF Matched
  <2> QED BY <1>2, <2>3, <2>4 DEF Awaited, Follows, Whats, Pcs
<1>3. ASSUME NEW p \in Procs, NEW y, Goes(p, y), \A q \in Slots \ {p} : req'[q] = req[q], req'[p].what \in Awaited[y.pc]
      PROVE  Matched'
  BY <1>0, <1>3 DEF Matched, Goes
<1>4. ASSUME NEW p \in Procs, CliStep(p) PROVE Matched'
  <2> USE DEF Frame
  <2>0. /\ proc[p] \in Invocation /\ p \in Slots /\ Resting.pc = "rest" /\ req[p].what \in Whats
        /\ \A x : Becomes(p, x) => req'[p] = x /\ \A q \in Slots \ {p} : req'[q] = req[q]
        /\ \A pc \in Pcs : [proc[p] EXCEPT !.pc = pc].pc = pc
        /\ \A pc \in Pcs : \A i, t : Working(pc, i, t).pc = pc
    BY <1>0 DEF Becomes, Resting, Invocation, Working
  <2>1. CASE LoginStarts(p) \/ LoadsStale(p) \/ LogoutLoads(p)
    <3>1. PICK pc, i, t : /\ pc \in {"poll", "loaded", "logout"} /\ Goes(p, Working(pc, i, t))
                          /\ req' = req /\ req[p] = Idle
      BY <2>1 DEF LoginStarts, LoadsStale, LogoutLoads, serverVars
    <3>2. Working(pc, i, t).pc = pc /\ req'[p].what \in Awaited[pc]
      BY <1>0, <2>0, <3>1 DEF Awaited, Pcs, Whats
    <3> QED BY <1>3, <3>1, <3>2
  <2>2. CASE LoginPolls(p) \/ Rotates(p)
    <3>1. PICK pc \in {"polling", "rotating"} :
            /\ Goes(p, [proc[p] EXCEPT !.pc = pc])
            /\ pc = "polling" => PollDevice(p, proc[p].item)
            /\ pc = "rotating" => Refresh(p, proc[p].item)
      BY <2>2 DEF LoginPolls, Rotates
    <3>2. PICK x : Becomes(p, x) /\ x.what \in Awaited[pc]
      <4>1. CASE pc = "polling"
        <5>1. \A x \in {Answered("pending", proc[p].item), Doing("claim", Never, proc[p].item, Never, Idle.origin), Refused} :
                  x.what \in Awaited.polling
          <6>1. Answered("pending", proc[p].item).what = "pending" /\ Doing("claim", Never, proc[p].item, Never, Idle.origin).what = "claim"
            BY DEF Answered, Doing, Idle
          <6>2. {"pending", "claim", "refused"} \subseteq Awaited.polling
            BY DEF Awaited
          <6> QED BY <1>0, <6>1, <6>2
        <5>2. \E x \in {Answered("pending", proc[p].item), Doing("claim", Never, proc[p].item, Never, Idle.origin), Refused} :
                  Becomes(p, x)
          BY <3>1, <4>1 DEF PollDevice
        <5> QED BY <4>1, <5>1, <5>2
      <4>2. CASE pc = "rotating"
        BY <3>1, <4>2 DEF Refresh, Doing, Awaited
      <4> QED BY <3>1, <4>1, <4>2
    <3>3. [proc[p] EXCEPT !.pc = pc].pc = pc
      BY <2>0 DEF Pcs
    <3> QED BY <1>3, <2>0, <3>1, <3>2, <3>3
  <2>3. ASSUME NEW g \in DOMAIN db.guestCodes, GuestJoins(p, g) PROVE Matched'
    <3>1. Goes(p, Working("joining", Never, now)) /\ Redeem(p, g)
      BY <2>3 DEF GuestJoins
    <3>2. PICK x : Becomes(p, x) /\ x.what \in Awaited.joining
      BY <1>0, <3>1 DEF Redeem, Doing, Awaited
    <3>3. Working("joining", Never, now).pc = "joining"
      BY DEF Working
    <3> QED BY <1>3, <2>0, <3>1, <3>2, <3>3
  <2>4. CASE LoginLapses(p) \/ AnswerLost(p) \/ LogoutDeletes(p)
    <3>1. Goes(p, Resting) /\ req' = req
      BY <2>4 DEF LoginLapses, AnswerLost, LogoutDeletes, serverVars
    <3>2. req'[p].what \in Awaited[Resting.pc]
      BY <2>0, <3>1 DEF Awaited
    <3> QED BY <1>3, <3>1, <3>2
  <2>5. CASE LogoutRevokes(p)
    <3>1. Goes(p, [proc[p] EXCEPT !.pc = "delete"]) /\ req' = req
      BY <2>5 DEF LogoutRevokes
    <3>2. [proc[p] EXCEPT !.pc = "delete"].pc = "delete"
      BY <2>0 DEF Pcs
    <3>3. req'[p].what \in Awaited.delete
      BY <2>0, <3>1 DEF Awaited
    <3> QED BY <1>3, <3>1, <3>2, <3>3
  <2>6. CASE Receives(p)
    <3>1. /\ Becomes(p, Idle) /\ \/ Goes(p, [proc[p] EXCEPT !.pc = "poll"])
                                 \/ Goes(p, Resting)
      BY <2>6 DEF Receives
    <3>2. [proc[p] EXCEPT !.pc = "poll"].pc = "poll" /\ req'[p].what = "idle" /\ \A q \in Slots \ {p} : req'[q] = req[q]
      BY <1>0, <2>0, <3>1 DEF Pcs
    <3>3. "idle" \in Awaited["poll"] /\ "idle" \in Awaited["rest"]
      BY DEF Awaited, Whats
    <3> QED BY <1>3, <2>0, <3>1, <3>2, <3>3
  <2> QED BY <1>4, <2>1, <2>2, <2>3, <2>4, <2>5, <2>6 DEF CliStep
<1>5. ASSUME NEW r \in Slots, r \notin Procs, proc' = proc, NEW x, Becomes(r, x) PROVE Matched'
  BY <1>0, <1>1, <1>5 DEF Becomes
<1>6. ASSUME NEW r \in Browsers, BrowserStep(r) /\ ServerOnly PROVE Matched'
  <2>1. \E x : Becomes(r, x)
    BY <1>6 DEF BrowserStep, Login, Authorize, Decide, Exchange, PollDevice, Refresh, Redeem
  <2> QED BY <1>0, <1>5, <1>6, <2>1, ActorsAreSlots DEF ServerOnly
<1>7. ASSUME NEW r \in Slots, ServerStep(r) \/ ResetRevokesSessions(r) \/ ResetRevokesTokens(r) \/ StoreFails(r) \/ DetectReuse(r),
             proc' = proc
      PROVE  Matched'
  <2>1. PICK x : Becomes(r, x) /\ x.what \in Follows[req[r].what] /\ req[r].what \notin {"pair", "guest", "pending", "refused"}
    <3>1. req[r] \in Request
      BY <1>0
    <3>2. CASE OpenSession(r) \/ IssueCode(r) \/ RecordDecision(r) \/ ResetRevokesTokens(r) \/ DetectReuse(r)
      <4>1. \/ req[r].what \in {"session", "code", "approve", "deny", "resetTokens"} /\ Becomes(r, Idle)
            \/ req[r].what = "reuse" /\ Becomes(r, Refused)
        BY <3>2 DEF OpenSession, IssueCode, RecordDecision, ResetRevokesTokens, DetectReuse
      <4> QED BY <1>0, <4>1 DEF Follows
    <3>3. CASE Claim(r) \/ InsertGuest(r)
      <4>1. PICK x : /\ Becomes(r, x)
                     /\ \/ req[r].what = "claim" /\ x.what \in {"mintRefresh", "refused"}
                        \/ req[r].what = "insertGuest" /\ x.what \in {"mintGuest", "refused"}
        BY <1>0, <3>3 DEF Claim, InsertGuest, Doing
      <4> QED BY <4>1 DEF Follows
    <3>4. CASE MintRefresh(r) \/ ResetRevokesSessions(r)
      <4>1. /\ [req[r] EXCEPT !.what = "mintAccess", !.item = Len(db.refresh) + 1].what = "mintAccess"
            /\ [req[r] EXCEPT !.what = "resetTokens"].what = "resetTokens"
        BY <3>1 DEF Request
      <4>2. PICK x : /\ Becomes(r, x)
                     /\ \/ req[r].what = "mintRefresh" /\ x.what \in {"mintAccess", "refused"}
                        \/ req[r].what = "resetSessions" /\ x.what = "resetTokens"
        BY <1>0, <3>4, <4>1 DEF MintRefresh, ResetRevokesSessions
      <4> QED BY <4>2 DEF Follows
    <3>5. CASE MintAccess(r) \/ MintGuest(r)
      <4>1. \A i : Answered("pair", i).what = "pair" /\ Answered("guest", i).what = "guest"
        BY DEF Answered, Idle
      <4>2. PICK x : /\ Becomes(r, x)
                     /\ \/ req[r].what = "mintAccess" /\ x.what \in {"pair", "refused"}
                        \/ req[r].what = "mintGuest" /\ x.what \in {"guest", "refused"}
        BY <1>0, <3>5, <4>1 DEF MintAccess, MintGuest
      <4> QED BY <4>2 DEF Follows
    <3>6. CASE StoreFails(r)
      BY <1>0, <3>6 DEF StoreFails, Follows, InFlight
    <3> QED BY <1>7, <3>2, <3>3, <3>4, <3>5, <3>6 DEF ServerStep
  <2> QED BY <1>2, <1>7, <2>1
<1>8. ASSUME NEW r \in Slots, Discarded(r) PROVE Matched'
  <2>1. /\ Becomes(r, Idle) /\ proc' = proc /\ req[r].what \in {"pair", "guest", "pending", "refused"}
        /\ r \in Procs => proc[r].pc = "rest"
    BY <1>8 DEF Discarded, Resting
  <2>2. Idle.what \in Follows[req[r].what]
    BY <1>0, <2>1 DEF Follows
  <2> QED BY <1>2, <2>1, <2>2
<1>9. CASE Administration
  <2>1. proc' = proc
    BY <1>9 DEF Administration, ServerOnly, Excusing
  <2>2. CASE req' = req
    BY <1>1, <2>1, <2>2
  <2>3. CASE GatewayRestart
    <3>1. \A p \in Procs : req'[p] = req[p] \/ (req[p].what \in InFlight /\ req'[p] = Refused)
      BY <1>0, <2>3 DEF GatewayRestart
    <3>2. \A p \in Procs : proc[p].pc \in Pcs
      BY <1>0 DEF Invocation
    <3>3. ASSUME NEW p \in Procs, req[p].what \in InFlight PROVE "refused" \in Awaited[proc[p].pc]
      BY <3>2, <3>3 DEF Matched, Awaited, Pcs, InFlight, Whats
    <3> QED BY <1>0, <2>1, <3>1, <3>3 DEF Matched
  <2>4. ASSUME NEW r \in Browsers, NEW u \in DOMAIN db.users, ResetPassword(r, u) PROVE Matched'
    BY <1>0, <1>5, <2>1, <2>4, ActorsAreSlots DEF ResetPassword
  <2> QED BY <1>9, <2>2, <2>3, <2>4 DEF Administration, Setup, CreateUser, MintGuestCode, WithdrawGuestCode, Logout,
                AuthorizePromptLogin, SweepGuests, DeleteUser, Revoke
<1>10. CASE UNCHANGED vars
  BY <1>1, <1>10 DEF vars, serverVars
<1>11. CASE Tick /\ ServerOnly
  BY <1>1, <1>11 DEF Tick, ServerOnly
<1> QED BY <1>4, <1>6, <1>7, <1>8, <1>9, <1>10, <1>11 DEF Next, Excusing

\* Every step has one of the shapes.
LEMMA NextShape ==
    ASSUME BaseInv, Matched, [Next]_vars
    PROVE  BaseInv' /\ Shape
<1>0. /\ TablesOK(db) /\ AccessOwned(db) /\ now \in Nat /\ proc \in [Procs -> Invocation] /\ RowsTyped
      /\ Browsers \subseteq Slots /\ Procs \subseteq Slots
  BY RowsHaveTypes, ActorsAreSlots DEF BaseInv
<1>1. ASSUME NEW p \in Procs, CliStep(p) PROVE BaseInv' /\ Shape
  BY <1>1, CliStepShape
<1>2. ASSUME NEW r \in Browsers, BrowserStep(r), ServerOnly PROVE BaseInv' /\ Shape
  <2>0. /\ Elsewhere /\ r \in Slots /\ file' = file /\ Never \in Nat
        /\ proc' \in [Procs -> Invocation] /\ \A p \in Procs : proc'[p] = proc[p] \/ ProcOK(db, proc'[p])
    BY <1>0, <1>2 DEF Elsewhere, ServerOnly, BrowserStep, Login, Authorize, Decide, Exchange, PollDevice,
                      Refresh, Redeem, Frame, Never
  <2>1. ASSUME NEW u \in DOMAIN db.users, Login(r, u) PROVE BaseInv' /\ Shape
    <3>1. u \in Nat /\ db' = db /\ Becomes(r, Doing("session", u, Never, Never, Idle.origin))
      BY <1>0, <2>1 DEF RowsTyped, Login
    <3> QED BY <2>0, <3>1, BrowserAsks DEF Shape
  <2>2. ASSUME NEW s \in DOMAIN db.sessions, Authorize(r, s) PROVE BaseInv' /\ Shape
    <3> DEFINE u == db.sessions[s].user
    <3>1. u \in Nat /\ db' = db /\ Becomes(r, Doing("code", u, Never, Never, Idle.origin))
      BY <1>0, <2>2 DEF RowsTyped, Authorize
    <3> HIDE DEF u
    <3> QED BY <2>0, <3>1, BrowserAsks DEF Shape
  <2>3. ASSUME NEW s \in DOMAIN db.sessions, NEW d \in DOMAIN db.devices, NEW what \in {"approve", "deny"},
               Decide(r, s, d, what)
        PROVE  BaseInv' /\ Shape
    <3> DEFINE u == db.sessions[s].user
    <3>1. u \in Nat /\ d \in Nat /\ db' = db /\ Becomes(r, Doing(what, u, d, Never, Idle.origin))
      BY <1>0, <2>3 DEF RowsTyped, Decide
    <3> HIDE DEF u
    <3> QED BY <2>0, <3>1, BrowserAsks DEF Shape
  <2>4. ASSUME NEW c \in DOMAIN db.codes, Exchange(r, c) PROVE BaseInv' /\ Shape
    BY <2>0, <2>4, ExchangeStep
  <2>5. ASSUME NEW d \in DOMAIN db.devices, PollDevice(r, d) PROVE BaseInv' /\ Shape
    BY <2>0, <2>5, PollStep DEF Shape
  <2>6. ASSUME NEW t \in DOMAIN db.refresh, Refresh(r, t) PROVE BaseInv' /\ Shape
    BY <2>0, <2>6, RefreshStep
  <2>7. ASSUME NEW g \in DOMAIN db.guestCodes, Redeem(r, g) PROVE BaseInv' /\ Shape
    BY <2>0, <2>7, RedeemStep DEF Shape
  <2> QED BY <1>2, <2>1, <2>2, <2>3, <2>4, <2>5, <2>6, <2>7 DEF BrowserStep
<1>3. ASSUME NEW r \in Slots, UNCHANGED <<file, proc>>,
             ServerStep(r) \/ ResetRevokesSessions(r) \/ ResetRevokesTokens(r) \/ StoreFails(r) \/ DetectReuse(r)
      PROVE  BaseInv' /\ Shape
  <2>0. Elsewhere
    BY <1>3 DEF Elsewhere, ServerStep, OpenSession, IssueCode, RecordDecision, Claim, MintRefresh, MintAccess,
                InsertGuest, MintGuest, ResetRevokesSessions, ResetRevokesTokens, StoreFails, DetectReuse, Frame
  <2>1. CASE Claim(r)
    BY <2>0, <2>1, ClaimStep
  <2>2. CASE MintRefresh(r)
    BY <2>0, <2>2, MintRefreshStep
  <2>3. CASE MintAccess(r) \/ MintGuest(r)
    BY <2>0, <2>3, MintAccessStep
  <2>4. CASE \/ OpenSession(r) \/ IssueCode(r) \/ RecordDecision(r) \/ InsertGuest(r)
             \/ ResetRevokesSessions(r) \/ ResetRevokesTokens(r) \/ StoreFails(r) \/ DetectReuse(r)
    BY <2>0, <2>4, QuietHandlers DEF Shape
  <2> QED BY <1>3, <2>1, <2>2, <2>3, <2>4 DEF ServerStep
<1>4. ASSUME NEW r \in Slots, Discarded(r) PROVE BaseInv' /\ Shape
  <2>1. Elsewhere
    BY <1>4 DEF Elsewhere, Discarded, Frame
  <2> QED BY <1>4, <2>1, QuietHandlers DEF Shape
<1>5. CASE Administration
  BY <1>5, AdministrationStep DEF Shape
<1>6. CASE (Tick /\ ServerOnly) \/ UNCHANGED vars
  <2>1. now' \in Nat /\ bound' = bound /\ db' = db /\ req' = req /\ proc' = proc /\ file' = file
    BY <1>0, <1>6 DEF Tick, ServerOnly, vars, serverVars
  <2>2. TablesOK(db') /\ Fades(db, db') /\ proc' \in [Procs -> Invocation]
    BY <1>0, <2>1, SameTablesFade
  <2> QED BY <2>1, <2>2, PlainStep DEF Shape
<1> QED BY <1>1, <1>2, <1>3, <1>4, <1>5, <1>6 DEF Next, Excusing

\* The gateway starts with the accounts of its profile and nothing under way.
LEMMA InitBase == Init => BaseInv /\ Matched
<1> SUFFICES ASSUME Init PROVE BaseInv /\ Matched
  OBVIOUS
<1>1. /\ now \in Nat /\ bound \in Profiles /\ db = bound.start /\ file = NoFile
      /\ req = [r \in Slots |-> Idle] /\ proc = [p \in Procs |-> Resting]
  BY DEF Init, ServerInit
<1>2. /\ db \in [users : Seq([role : {"admin", "user", "guest"}, host : Nat, expires : Nat]),
                 sessions : Seq([user : Nat, status : {"live"}, at : {0}, expires : Nat]),
                 codes : {<<>>}, devices : {<<>>}, refresh : {<<>>}, access : {<<>>}, guestCodes : {<<>>}]
  BY <1>1, ProfilesStart
<1>3. /\ IsTables(db) /\ db.users \in Seq(UserRow)
      /\ db.sessions \in Seq([user : Nat, status : {"live"}, at : {0}, expires : Nat])
      /\ db.codes = <<>> /\ db.devices = <<>> /\ db.refresh = <<>> /\ db.access = <<>> /\ db.guestCodes = <<>>
  BY <1>2 DEF IsTables, TableNames, UserRow
<1>4. db.sessions \in Seq(Row)
  <2> DEFINE T == [user : Nat, status : {"live"}, at : {0}, expires : Nat]
  <2>1. T \subseteq Row
    BY DEF Row, Status
  <2>2. db.sessions \in Seq(T)
    BY <1>3
  <2> HIDE DEF T
  <2>3. Len(db.sessions) \in Nat /\ db.sessions \in [1 .. Len(db.sessions) -> T]
    BY <2>2, LenProperties
  <2>4. db.sessions \in [1 .. Len(db.sessions) -> Row]
    BY <2>1, <2>3
  <2> QED BY <2>3, <2>4
<1>5. UsersOK(db)
  <2>1. Len(db.users) \in Nat /\ DOMAIN db.users = 1 .. Len(db.users) /\ db.users \in [1 .. Len(db.users) -> UserRow]
    BY <1>3, LenProperties
  <2> QED BY <2>1 DEF UsersOK
<1>6. \A T : <<>> \in Seq(T)
  OBVIOUS
<1>7. TablesOK(db)
  BY <1>3, <1>4, <1>5, <1>6 DEF TablesOK
<1>8. AccessOwned(db)
  BY <1>3 DEF AccessOwned
<1>9. /\ ReqOK(db, Idle) /\ ProcOK(db, Resting) /\ FileOK(db, file) /\ Idle.what = "idle" /\ Resting.pc = "rest"
  BY <1>1, ConstantRecords DEF Resting
<1>10. Idle \in Request /\ Resting \in Invocation
  BY <1>9 DEF ReqOK, ProcOK
<1>11. BaseInv
  BY <1>1, <1>7, <1>8, <1>9, <1>10 DEF BaseInv
<1>12. Matched
  BY <1>1, <1>9, ActorsAreSlots DEF Matched, Awaited, Whats
<1> QED BY <1>11, <1>12

-----------------------------------------------------------------------------
(* The rotation chains. *)

Mints(r) == req[r].what = "mintRefresh"

\* A family is named after its first token, and comes from one spent code.
Families ==
    \A t \in DOMAIN db.refresh :
        LET f == db.refresh[t].family IN
        /\ f \in DOMAIN db.refresh /\ db.refresh[f].family = f
        /\ db.refresh[f].origin = db.refresh[t].origin /\ Spent(db, db.refresh[t].origin)

\* So does the token a handler is about to mint, in a new family or in one that exists.
Successors ==
    \A r \in Slots : Mints(r) =>
        /\ Spent(db, req[r].origin)
        /\ \/ req[r].family = Never
           \/ /\ req[r].family \in DOMAIN db.refresh /\ db.refresh[req[r].family].family = req[r].family
              /\ db.refresh[req[r].family].origin = req[r].origin

\* A family has one live token, or one being minted, and not both.
OneLive ==
    \A s, t \in DOMAIN db.refresh :
        (/\ db.refresh[s].family = db.refresh[t].family
         /\ db.refresh[s].status = "live" /\ db.refresh[t].status = "live") => s = t

OneMinting ==
    \A q, r \in Slots : (Mints(q) /\ Mints(r) /\ req[q].family = req[r].family /\ req[r].family # Never) => q = r

NotBoth ==
    \A r \in Slots, t \in DOMAIN db.refresh :
        (Mints(r) /\ req[r].family = db.refresh[t].family) => db.refresh[t].status # "live"

\* A code has one family, or is starting one, and not both.
OneFamily ==
    \A s, t \in DOMAIN db.refresh :
        db.refresh[s].origin = db.refresh[t].origin => db.refresh[s].family = db.refresh[t].family

OneStart ==
    \A q, r \in Slots :
        (/\ Mints(q) /\ Mints(r) /\ req[q].family = Never /\ req[r].family = Never
         /\ req[q].origin = req[r].origin) => q = r

StartOnce ==
    \A r \in Slots, t \in DOMAIN db.refresh :
        (Mints(r) /\ req[r].family = Never) => db.refresh[t].origin # req[r].origin

ChainInv ==
    /\ Families /\ Successors /\ OneLive /\ OneMinting /\ NotBoth
    /\ OneFamily /\ OneStart /\ StartOnce

\* What the parts of ChainInv have to know of a row and of a request.
ChainTypes ==
    /\ \A t \in DOMAIN db.refresh : t # Never /\ db.refresh[t].origin \in Origins
    /\ \A r \in Slots : req[r].origin \in Origins

\* They know it.
LEMMA TypesOfChains == BaseInv => ChainTypes
BY RowsHaveTypes DEF BaseInv, RowsTyped, ChainTypes, Request, Never

\* Tokens that only die, and requests that do not begin to mint, fork nothing.
LEMMA ChainQuiet ==
    ASSUME ChainTypes, ChainInv, Fades(db, db'), \A r \in Slots : req'[r].what = "mintRefresh" => req'[r] = req[r]
    PROVE  ChainInv'
<1>1. /\ DOMAIN db'.refresh = DOMAIN db.refresh
      /\ \A t \in DOMAIN db.refresh : /\ db'.refresh[t].family = db.refresh[t].family
                                      /\ db'.refresh[t].origin = db.refresh[t].origin
                                      /\ db'.refresh[t].status = "live" => db.refresh[t].status = "live"
      /\ \A o \in Origins : Spent(db, o) => Spent(db', o)
  BY DEF Fades, Extends
<1>2. \A r \in Slots : Mints(r)' => Mints(r) /\ req'[r] = req[r]
  BY DEF Mints
<1>3. Families'
  BY <1>1 DEF Families, ChainInv, ChainTypes
<1>4. Successors'
  BY <1>1, <1>2 DEF Successors, ChainInv, ChainTypes
<1>5. OneLive' /\ OneFamily'
  BY <1>1 DEF OneLive, OneFamily, ChainInv
<1>6. OneMinting' /\ OneStart'
  BY <1>2 DEF OneMinting, OneStart, ChainInv
<1>7. NotBoth' /\ StartOnce'
  BY <1>1, <1>2 DEF NotBoth, StartOnce, ChainInv
<1> QED BY <1>3, <1>4, <1>5, <1>6, <1>7 DEF ChainInv

\* A family is started by a code that was not spent, so by no other.
LEMMA ChainStarts ==
    ASSUME ChainTypes, ChainInv, NEW r \in Slots, NEW o \in Origins, StartsFamily(r, o)
    PROVE  ChainInv'
<1>1. /\ DOMAIN db'.refresh = DOMAIN db.refresh
      /\ \A t \in DOMAIN db.refresh : /\ db'.refresh[t].family = db.refresh[t].family
                                      /\ db'.refresh[t].origin = db.refresh[t].origin
                                      /\ db'.refresh[t].status = "live" => db.refresh[t].status = "live"
      /\ \A x \in Origins : Spent(db, x) => Spent(db', x)
  BY DEF StartsFamily, Fades, Extends
<1>2. /\ \A q \in Slots \ {r} : Mints(q)' => Mints(q) /\ req'[q] = req[q]
      /\ Mints(r)' /\ req'[r].family = Never /\ req'[r].origin = o /\ Spent(db', o) /\ ~Spent(db, o)
  BY DEF StartsFamily, Mints, Others
<1>8. /\ \A t \in DOMAIN db.refresh : db.refresh[t].origin # o /\ db.refresh[t].family # Never
      /\ \A q \in Slots : Mints(q) => req[q].origin # o
  BY <1>2 DEF ChainInv, Families, Successors, ChainTypes
<1>3. Families'
  BY <1>1 DEF Families, ChainInv, ChainTypes
<1>4. Successors'
  BY <1>1, <1>2 DEF Successors, ChainInv, ChainTypes
<1>5. OneLive' /\ OneFamily'
  BY <1>1 DEF OneLive, OneFamily, ChainInv
<1>6. OneMinting' /\ OneStart'
  BY <1>2, <1>8 DEF OneMinting, OneStart, ChainInv
<1>7. NotBoth' /\ StartOnce'
  BY <1>1, <1>2, <1>8 DEF NotBoth, StartOnce, ChainInv
<1> QED BY <1>3, <1>4, <1>5, <1>6, <1>7 DEF ChainInv

\* The token replaced was its family's live one, so nobody else was minting in
\* that family; now it is dead.
LEMMA ChainReplaces ==
    ASSUME ChainTypes, ChainInv, NEW r \in Slots, NEW t \in DOMAIN db.refresh, Replaces(r, t)
    PROVE  ChainInv'
<1> DEFINE f == db.refresh[t].family
<1>1. /\ DOMAIN db'.refresh = DOMAIN db.refresh
      /\ \A s \in DOMAIN db.refresh : /\ db'.refresh[s].family = db.refresh[s].family
                                      /\ db'.refresh[s].origin = db.refresh[s].origin
                                      /\ db'.refresh[s].status = "live" => db.refresh[s].status = "live"
      /\ \A x \in Origins : Spent(db, x) => Spent(db', x)
  BY DEF Replaces, Fades, Extends
<1>2. /\ \A q \in Slots \ {r} : Mints(q)' => Mints(q) /\ req'[q] = req[q]
      /\ Mints(r)' /\ req'[r].family = f /\ req'[r].origin = db.refresh[t].origin
      /\ db.refresh[t].status = "live" /\ db'.refresh[t].status # "live"
  BY DEF Replaces, Mints, Others
<1>8. /\ f \in DOMAIN db.refresh /\ f # Never /\ db.refresh[f].family = f /\ db.refresh[f].origin = db.refresh[t].origin
      /\ Spent(db, db.refresh[t].origin) /\ db.refresh[t].origin \in Origins
      /\ \A s \in DOMAIN db.refresh : (db.refresh[s].family = f /\ db.refresh[s].status = "live") => s = t
      /\ \A q \in Slots : Mints(q) => req[q].family # f
  BY <1>2 DEF ChainInv, Families, OneLive, NotBoth, ChainTypes
<1> HIDE DEF f
<1>3. Families'
  BY <1>1 DEF Families, ChainInv, ChainTypes
<1>4. Successors'
  BY <1>1, <1>2, <1>8 DEF Successors, ChainInv, ChainTypes
<1>5. OneLive' /\ OneFamily'
  BY <1>1 DEF OneLive, OneFamily, ChainInv
<1>6. OneMinting' /\ OneStart'
  BY <1>2, <1>8 DEF OneMinting, OneStart, ChainInv
<1>7. NotBoth' /\ StartOnce'
  BY <1>1, <1>2, <1>8 DEF NotBoth, StartOnce, ChainInv
<1> QED BY <1>3, <1>4, <1>5, <1>6, <1>7 DEF ChainInv

\* The token inserted is the one the request was minting.
LEMMA ChainInserts ==
    ASSUME ChainTypes, ChainInv, NEW r \in Slots, NEW n \in Nat, InsertsRefresh(r, n)
    PROVE  ChainInv'
<1> DEFINE f == db'.refresh[n].family
<1>1. /\ n # Never /\ n \notin DOMAIN db.refresh /\ DOMAIN db'.refresh = DOMAIN db.refresh \cup {n}
      /\ \A t \in DOMAIN db.refresh : db'.refresh[t] = db.refresh[t]
      /\ f = (IF req[r].family = Never THEN n ELSE req[r].family)
      /\ db'.refresh[n].origin = req[r].origin
      /\ \A x \in Origins : Spent(db, x) => Spent(db', x)
  BY DEF InsertsRefresh, Extends, Never
<1>2. /\ \A q \in Slots : Mints(q)' => Mints(q) /\ req'[q] = req[q] /\ q # r
      /\ Mints(r)
  BY DEF InsertsRefresh, Mints, Others
<1> HIDE DEF f
<1>3. Families'
  BY <1>1, <1>2 DEF Families, Successors, ChainInv, ChainTypes, f
<1>4. Successors'
  BY <1>1, <1>2 DEF Successors, ChainInv, ChainTypes
<1>8. /\ \A t \in DOMAIN db.refresh : db.refresh[t].family = f => db.refresh[t].status # "live"
      /\ \A t \in DOMAIN db.refresh : db.refresh[t].origin = req[r].origin => db.refresh[t].family = f
      /\ \A q \in Slots \ {r} : Mints(q) => req[q].family # f
      /\ \A q \in Slots \ {r} : (Mints(q) /\ req[q].family = Never) => req[q].origin # req[r].origin
  <2>1. CASE req[r].family = Never
    BY <1>1, <1>2, <2>1 DEF ChainInv, Families, Successors, OneStart, StartOnce
  <2>2. CASE req[r].family # Never
    BY <1>1, <1>2, <2>2 DEF ChainInv, Families, Successors, OneMinting, NotBoth, OneFamily, StartOnce
  <2> QED BY <2>1, <2>2
<1>5. OneLive' /\ OneFamily'
  BY <1>1, <1>8 DEF OneLive, OneFamily, ChainInv, f
<1>6. OneMinting' /\ OneStart'
  BY <1>2 DEF OneMinting, OneStart, ChainInv
<1>7. NotBoth' /\ StartOnce'
  BY <1>1, <1>2, <1>8 DEF NotBoth, StartOnce, ChainInv, f
<1> QED BY <1>3, <1>4, <1>5, <1>6, <1>7 DEF ChainInv

\* So the chains survive every step.
LEMMA ChainStep == ASSUME BaseInv, ChainInv, Shape PROVE ChainInv'
<1>0. ChainTypes
  BY TypesOfChains
<1>1. CASE Quiet
  BY <1>0, <1>1, ChainQuiet DEF Quiet
<1>2. CASE InsertsAccess
  <2>1. /\ db'.refresh = db.refresh /\ Extends(db, db')
        /\ \A r \in Slots : req'[r].what = "mintRefresh" => req'[r] = req[r]
    BY <1>2 DEF InsertsAccess
  <2>2. \A r \in Slots : Mints(r)' => Mints(r) /\ req'[r] = req[r]
    BY <2>1 DEF Mints
  <2>3. \A o \in Origins : Spent(db, o) => Spent(db', o)
    BY <2>1 DEF Extends
  <2> QED BY <1>0, <2>1, <2>2, <2>3 DEF ChainInv, ChainTypes, Families, Successors, OneLive, OneMinting, NotBoth,
                                        OneFamily, OneStart, StartOnce
<1> QED BY <1>0, <1>1, <1>2, ChainStarts, ChainReplaces, ChainInserts DEF Shape

\* Two sets of at most one member, one of them empty.
LEMMA AtMostOne ==
    ASSUME NEW S, NEW T, \A x, y \in S : x = y, \A x, y \in T : x = y, S = {} \/ T = {}
    PROVE  Cardinality(S) + Cardinality(T) <= 1
<1>1. ASSUME NEW U, \A x, y \in U : x = y
      PROVE  Cardinality(U) \in {0, 1} /\ (U = {} => Cardinality(U) = 0)
  <2>1. CASE U = {}
    BY <2>1, FS_EmptySet
  <2>2. CASE U # {}
    <3>1. PICK x \in U : U = {x}
      BY <1>1, <2>2
    <3>2. Cardinality(U) = 1
      BY <3>1, FS_Singleton
    <3> QED BY <2>2, <3>2
  <2> QED BY <2>1, <2>2
<1>2. Cardinality(S) \in {0, 1} /\ (S = {} => Cardinality(S) = 0)
  BY <1>1
<1>3. Cardinality(T) \in {0, 1} /\ (T = {} => Cardinality(T) = 0)
  BY <1>1
<1> QED BY <1>2, <1>3

\* The parts say what ChainNeverForks counts,
LEMMA ChainsDoNotFork == ASSUME BaseInv, ChainInv PROVE ChainNeverForks
<1>1. ASSUME NEW t \in DOMAIN db.refresh
      PROVE  Cardinality(LiveIn(db.refresh[t].family)) + Cardinality(Minting(db.refresh[t].family)) <= 1
  <2> DEFINE f == db.refresh[t].family
  <2>1. f \in DOMAIN db.refresh /\ f # Never
    BY TypesOfChains DEF ChainInv, Families, ChainTypes
  <2> HIDE DEF f
  <2>2. \A x, y \in LiveIn(f) : x = y
    BY DEF LiveIn, ChainInv, OneLive
  <2>3. \A x, y \in Minting(f) : x = y
    BY <2>1 DEF Minting, ChainInv, OneMinting, Mints
  <2>4. LiveIn(f) = {} \/ Minting(f) = {}
    BY DEF LiveIn, Minting, ChainInv, NotBoth, Mints
  <2>5. Cardinality(LiveIn(f)) + Cardinality(Minting(f)) <= 1
    BY <2>2, <2>3, <2>4, AtMostOne
  <2> QED BY <2>5 DEF f
<1> QED BY <1>1 DEF ChainNeverForks

\* and what CodeMintsOnce compares.
LEMMA CodesStartOnce == ASSUME BaseInv, ChainInv PROVE CodeMintsOnce
<1>1. ASSUME NEW o
      PROVE  Cardinality({db.refresh[t].family : t \in {t \in DOMAIN db.refresh : db.refresh[t].origin = o}})
                 + Cardinality({r \in Minting(Never) : req[r].origin = o}) <= 1
  <2> DEFINE S == {db.refresh[t].family : t \in {t \in DOMAIN db.refresh : db.refresh[t].origin = o}}
             T == {r \in Minting(Never) : req[r].origin = o}
  <2>1. \A x, y \in S : x = y
    BY DEF ChainInv, OneFamily
  <2>2. \A x, y \in T : x = y
    BY DEF Minting, ChainInv, OneStart, Mints
  <2>3. S = {} \/ T = {}
    BY DEF Minting, ChainInv, StartOnce, Mints
  <2> HIDE DEF S, T
  <2>4. Cardinality(S) + Cardinality(T) <= 1
    BY <2>1, <2>2, <2>3, AtMostOne
  <2> QED BY <2>4 DEF S, T
<1> QED BY <1>1 DEF CodeMintsOnce

\* An access token loses its parent only with its own life.
LEMMA AccessStays == ASSUME BaseInv, AccessDiesWithParent, Shape PROVE AccessDiesWithParent'
<1>1. SUFFICES ASSUME NEW a \in DOMAIN db'.access, db'.access[a].status = "live", db'.access[a].parent # Never,
                      ~db'.access[a].late
               PROVE  db'.refresh[db'.access[a].parent].status = "live"
  BY DEF AccessDiesWithParent
<1>2. \A b \in DOMAIN db.access : db.access[b].parent # Never => db.access[b].parent \in DOMAIN db.refresh
  BY DEF BaseInv, AccessOwned
<1>3. CASE Fades(db, db')
  <2>1. /\ a \in DOMAIN db.access /\ db'.access[a].parent = db.access[a].parent /\ db'.access[a].late = db.access[a].late
        /\ db.access[a].status = "live"
        /\ \A t \in DOMAIN db.refresh :
             (t = db.access[a].parent /\ db.refresh[t].status = "live") => db'.refresh[t].status = "live"
    BY <1>1, <1>3 DEF Fades
  <2>2. db.refresh[db.access[a].parent].status = "live"
    BY <1>1, <2>1 DEF AccessDiesWithParent
  <2> QED BY <1>1, <1>2, <2>1, <2>2
<1>4. ASSUME NEW r \in Slots, NEW n \in Nat, InsertsRefresh(r, n)
      PROVE  db'.refresh[db'.access[a].parent].status = "live"
  <2>1. db'.access = db.access /\ \A t \in DOMAIN db.refresh : db'.refresh[t] = db.refresh[t]
    BY <1>4 DEF InsertsRefresh
  <2> QED BY <1>1, <1>2, <2>1 DEF AccessDiesWithParent
<1>5. CASE InsertsAccess
  BY <1>1, <1>5 DEF InsertsAccess, AccessDiesWithParent
<1> QED BY <1>3, <1>4, <1>5 DEF Shape, Quiet, StartsFamily, Replaces

AccountsInv == BaseInv /\ Matched /\ ChainInv /\ AccessDiesWithParent

\* The invariant holds at every moment.
LEMMA AccountsInvariant == Spec => []AccountsInv
<1>1. Init => AccountsInv
  <2> SUFFICES ASSUME Init PROVE AccountsInv
    OBVIOUS
  <2>1. BaseInv /\ Matched
    BY InitBase
  <2>2. db.refresh = <<>> /\ db.access = <<>> /\ \A r \in Slots : req[r].what = "idle"
    BY ProfilesStart DEF Init, ServerInit, Idle
  <2>3. DOMAIN db.refresh = {} /\ DOMAIN db.access = {} /\ \A r \in Slots : ~Mints(r)
    BY <2>2 DEF Mints
  <2>4. ChainInv
    BY <2>3 DEF ChainInv, Families, Successors, OneLive, OneMinting, NotBoth, OneFamily, OneStart, StartOnce
  <2>5. AccessDiesWithParent
    BY <2>3 DEF AccessDiesWithParent
  <2> QED BY <2>1, <2>4, <2>5 DEF AccountsInv
<1>2. AccountsInv /\ [Next]_vars => AccountsInv'
  <2> SUFFICES ASSUME AccountsInv, [Next]_vars PROVE AccountsInv'
    OBVIOUS
  <2>1. BaseInv' /\ Shape
    BY NextShape DEF AccountsInv
  <2>2. Matched' /\ ChainInv' /\ AccessDiesWithParent'
    BY <2>1, MatchedStep, ChainStep, AccessStays DEF AccountsInv
  <2> QED BY <2>1, <2>2 DEF AccountsInv
<1> QED BY <1>1, <1>2, PTL DEF Spec

\* A family never has two live refresh tokens, nor one and another being minted,
\* however requests for a rotation of the same token interleave: the update that
\* consumes it matches a live row once.
THEOREM RotationChainsNeverFork == Spec => []ChainNeverForks
<1>1. AccountsInv => ChainNeverForks
  BY ChainsDoNotFork DEF AccountsInv
<1> QED BY <1>1, AccountsInvariant, PTL

\* An authorisation code and a device code start at most one family, however many
\* exchanges and polls present them at once.
THEOREM CodesMintOnce == Spec => []CodeMintsOnce
<1>1. AccountsInv => CodeMintsOnce
  BY CodesStartOnce DEF AccountsInv
<1> QED BY <1>1, AccountsInvariant, PTL

\* No live access token has a dead refresh token for a parent, except one that was
\* inserted after its parent had been revoked.
THEOREM AccessTokensDieWithTheirParent == Spec => []AccessDiesWithParent
<1>1. AccountsInv => AccessDiesWithParent
  BY DEF AccountsInv
<1> QED BY <1>1, AccountsInvariant, PTL

-----------------------------------------------------------------------------
(* The credential in the token file.  These parts say who may still spend a  *)
(* token: the file, an invocation that loaded it, or the answer that brings   *)
(* it; a token nobody holds yet cannot be replaced by anybody.                *)

Holding == {p \in Procs : proc[p].pc \in {"loaded", "rotating"}}
InHand == {p \in Procs : req[p].what \in {"mintAccess", "pair"}}
Carrying(p) == req[p].what \in {"mintRefresh", "mintAccess", "pair"}
FromDevice(t) == db.refresh[t].origin[1] = "device"
Live(t) == db.refresh[t].status = "live"
Replacing(q, t) == proc[q].pc = "rotating" /\ proc[q].item = t /\ Carrying(q)

\* What the command line holds came from a device code; browsers refresh the others.
DeviceOnly ==
    /\ file.kind = "device" => FromDevice(file.refresh)
    /\ \A p \in Holding : FromDevice(proc[p].item)
    /\ \A p \in Procs : req[p].what = "mintRefresh" => req[p].origin[1] = "device"
    /\ \A p \in InHand : FromDevice(req[p].item)

\* A token on its way to an invocation is held by nobody else.
Unheld ==
    \A p \in InHand : /\ file.refresh # req[p].item
                      /\ \A q \in Holding : proc[q].item # req[p].item
                      /\ \A q \in InHand : req[q].item = req[p].item => q = p

InTransit == \A p \in InHand : Live(req[p].item) \/ FamilyOf(req[p].item) \in excused

\* A reuse check an invocation still waits for is about the token it loaded.
OwnReuse ==
    \A p \in Procs : req[p].what = "reuse" =>
        \/ FamilyOf(req[p].item) \in excused
        \/ proc[p].pc = "rotating" /\ proc[p].item = req[p].item

\* A rotation stays in the family of the token it replaces.
OwnFamily ==
    \A p \in Procs : proc[p].pc = "rotating" =>
        /\ req[p].what = "mintRefresh" => req[p].family = FamilyOf(proc[p].item)
        /\ req[p].what \in {"mintAccess", "pair"} => FamilyOf(req[p].item) = FamilyOf(proc[p].item)

\* Who holds a replaced token loaded it no later than Quick after it was replaced,
\* or the invocation that replaced it is not back yet.
Replays ==
    \A r \in Holding :
        (~Live(proc[r].item) /\ FamilyOf(proc[r].item) \notin excused /\ ~Carrying(r)) =>
            \/ proc[r].at <= db.refresh[proc[r].item].at + Quick
            \/ \E q \in Procs \ {r} : Replacing(q, proc[r].item)

Loaded == \A p \in Holding : proc[p].at <= now

CredInv ==
    /\ DeviceOnly /\ Unheld /\ InTransit /\ OwnReuse /\ OwnFamily /\ Replays /\ Loaded
    /\ CredentialSurvives

\* The rows these parts speak of exist.
CredTypes ==
    /\ now \in Nat /\ Never \notin DOMAIN db.refresh
    /\ \A p \in Procs : proc[p].at \in Nat
    /\ \A t \in DOMAIN db.refresh : db.refresh[t].at \in Nat /\ FamilyOf(t) # Never
    /\ file.kind = "device" => file.refresh \in DOMAIN db.refresh
    /\ file.refresh \in DOMAIN db.refresh \cup {Never}
    /\ \A p \in Holding : proc[p].item \in DOMAIN db.refresh
    /\ \A p \in InHand : req[p].item \in DOMAIN db.refresh
    /\ \A p \in Procs : req[p].what = "reuse" => req[p].item \in DOMAIN db.refresh
    /\ \A p \in Procs : proc[p].pc = "loaded" => req[p].what = "idle"
    /\ \A p \in Procs : proc[p].pc = "rotating" =>
           req[p].what \in {"mintRefresh", "mintAccess", "pair", "reuse", "refused"}

\* They do.
LEMMA TypesOfCredentials == ASSUME BaseInv, Matched, ChainInv PROVE CredTypes
<1>1. /\ now \in Nat /\ \A p \in Procs : proc[p] \in Invocation /\ ProcOK(db, proc[p])
      /\ \A r \in Slots : ReqOK(db, req[r])
      /\ FileOK(db, file) /\ RowsTyped /\ Procs \subseteq Slots
  BY RowsHaveTypes, ActorsAreSlots DEF BaseInv
<1>2. \A t \in DOMAIN db.refresh : db.refresh[t].at \in Nat /\ t # Never
  <2>1. \A t \in DOMAIN db.refresh : db.refresh[t] \in RefreshRow
    BY SeqFacts DEF BaseInv, TablesOK
  <2> QED BY <1>1, <2>1 DEF RefreshRow, RowsTyped, Never
<1>3. \A t \in DOMAIN db.refresh : FamilyOf(t) # Never
  BY <1>2 DEF ChainInv, Families, FamilyOf
<1>4. \A p \in Procs : /\ proc[p].at \in Nat
                       /\ proc[p].pc \in {"loaded", "rotating"} => proc[p].item \in DOMAIN db.refresh
  BY <1>1 DEF Invocation, ProcOK
<1>5. \A p \in Procs : req[p].what \in {"mintAccess", "pair", "reuse"} => req[p].item \in DOMAIN db.refresh
  BY <1>1 DEF ReqOK
<1>6. \A p \in Procs : /\ proc[p].pc = "loaded" => req[p].what = "idle"
                       /\ proc[p].pc = "rotating" => req[p].what \in {"mintRefresh", "mintAccess", "pair", "reuse", "refused"}
  BY DEF Matched, Awaited
<1> QED BY <1>1, <1>2, <1>3, <1>4, <1>5, <1>6 DEF CredTypes, Holding, InHand, FileOK

-----------------------------------------------------------------------------
(* What most steps do to the credential: tokens only die, excused unless a   *)
(* browser held them, invocations only let go, requests only go on or fail.  *)

RowsLast ==
    \A t \in DOMAIN db.refresh :
        /\ t \in DOMAIN db'.refresh
        /\ db'.refresh[t].family = db.refresh[t].family /\ db'.refresh[t].origin = db.refresh[t].origin
        /\ ~Live(t) => ~Live(t)' /\ db'.refresh[t].at = db.refresh[t].at

DeathsExcused ==
    \A t \in DOMAIN db.refresh : (Live(t) /\ ~Live(t)') => FamilyOf(t) \in excused' \/ ~FromDevice(t)

\* The family of the token a request is to bring is excused.
Lost(p) ==
    /\ req[p].what = "mintRefresh" => req[p].family \in excused'
    /\ req[p].what \in {"mintAccess", "pair"} => FamilyOf(req[p].item) \in excused'

GoesOn(p) ==
    \/ req'[p] = req[p]
    \/ /\ req'[p].what \notin {"mintRefresh", "mintAccess", "pair", "reuse"}
       /\ proc[p].pc = "rotating" => Lost(p)
    \/ req[p].what = "mintAccess" /\ req'[p].what = "pair" /\ req'[p].item = req[p].item
    \/ req[p].what = "claim" /\ req'[p].what = "mintRefresh" /\ req'[p].origin[1] = "device"

LetsGo(p) ==
    \/ proc'[p] = proc[p]
    \/ /\ proc'[p].pc \notin {"loaded", "rotating"}
       /\ proc[p].pc = "rotating" => FamilyOf(proc[p].item) \in excused'

FileStays == file' = file \/ (file'.kind # "device" /\ file'.refresh = Never)

CredFrame ==
    /\ RowsLast /\ DeathsExcused /\ FileStays
    /\ excused \subseteq excused' /\ now' \in Nat /\ now <= now'
    /\ \A p \in Procs : GoesOn(p) /\ LetsGo(p)

\* A step of that kind keeps every part.
LEMMA CredFrameStep == ASSUME CredTypes, CredInv, CredFrame PROVE CredInv'
<1>1. \A p \in Holding' : p \in Holding /\ p \in Procs /\ proc'[p] = proc[p] /\ proc[p].item \in DOMAIN db.refresh
  BY DEF CredFrame, Holding, LetsGo, CredTypes
<1>2. \A p \in InHand' : p \in InHand /\ p \in Procs /\ req'[p].item = req[p].item /\ req[p].item \in DOMAIN db.refresh
  BY DEF CredFrame, InHand, GoesOn, CredTypes
<1>3. /\ \A t \in DOMAIN db.refresh : /\ FromDevice(t) => FromDevice(t)'
                                      /\ FamilyOf(t)' = FamilyOf(t)
      /\ \A t \in DOMAIN db.refresh : (FromDevice(t) /\ Live(t)) => Live(t)' \/ FamilyOf(t) \in excused'
      /\ \A t \in DOMAIN db.refresh : ~Live(t) => db'.refresh[t].at = db.refresh[t].at
      /\ \A f : f \in excused => f \in excused'
  BY DEF CredFrame, RowsLast, DeathsExcused, FromDevice, FamilyOf

\* A replacement under way stays under way, or its family is excused.
<1>4. ASSUME NEW q \in Procs, NEW t \in DOMAIN db.refresh, Replacing(q, t)
      PROVE  Replacing(q, t)' \/ FamilyOf(t) \in excused'
  <2>1. /\ proc[q].pc = "rotating" /\ proc[q].item = t /\ GoesOn(q) /\ LetsGo(q)
        /\ req[q].what \in {"mintRefresh", "mintAccess", "pair"}
    BY <1>4 DEF Replacing, Carrying, CredFrame
  <2>2. proc'[q] = proc[q] \/ FamilyOf(t) \in excused'
    BY <2>1 DEF LetsGo
  <2>3. req'[q].what \in {"mintRefresh", "mintAccess", "pair"} \/ FamilyOf(t) \in excused'
    <3>1. CASE Lost(q)
      BY <2>1, <3>1 DEF Lost, CredInv, OwnFamily
    <3>2. CASE ~Lost(q)
      BY <2>1, <3>2 DEF GoesOn
    <3> QED BY <3>1, <3>2
  <2> QED BY <2>1, <2>2, <2>3 DEF Replacing, Carrying
<1>5. DeviceOnly'
  <2>1. file'.kind = "device" => FromDevice(file.refresh)' /\ file' = file
    BY <1>3 DEF CredFrame, FileStays, CredInv, DeviceOnly, CredTypes
  <2>2. \A p \in Procs : req'[p].what = "mintRefresh" => req'[p].origin[1] = "device"
    BY DEF CredFrame, GoesOn, CredInv, DeviceOnly
  <2>3. \A p \in Holding' : FromDevice(proc[p].item)'
    BY <1>1, <1>3 DEF CredInv, DeviceOnly, FromDevice
  <2>4. \A p \in InHand' : FromDevice(req[p].item)'
    BY <1>2, <1>3 DEF CredInv, DeviceOnly, FromDevice
  <2> QED BY <2>1, <2>2, <2>3, <2>4 DEF DeviceOnly
<1>6. Unheld'
  <2>1. \A p \in InHand' : file'.refresh # req'[p].item
    BY <1>2 DEF CredFrame, FileStays, CredInv, Unheld, CredTypes
  <2> QED BY <1>1, <1>2, <2>1 DEF CredInv, Unheld
<1>7. InTransit'
  <2>1. ASSUME NEW p \in InHand'
        PROVE  db'.refresh[req'[p].item].status = "live" \/ db'.refresh[req'[p].item].family \in excused'
    <3>1. PICK t \in DOMAIN db.refresh : t = req[p].item /\ t = req'[p].item /\ p \in InHand
      BY <1>2, <2>1
    <3>2. FromDevice(t) /\ (Live(t) \/ FamilyOf(t) \in excused)
      BY <3>1 DEF CredInv, DeviceOnly, InTransit
    <3>3. Live(t)' \/ FamilyOf(t)' \in excused'
      BY <1>3, <3>2
    <3> QED BY <3>1, <3>3 DEF Live, FamilyOf
  <2> QED BY <2>1 DEF InTransit, Live, FamilyOf
<1>8. OwnReuse'
  <2>1. ASSUME NEW p \in Procs, req'[p].what = "reuse"
        PROVE  \/ db'.refresh[req'[p].item].family \in excused'
               \/ proc'[p].pc = "rotating" /\ proc'[p].item = req'[p].item
    <3>1. req'[p] = req[p] /\ LetsGo(p)
      BY <2>1 DEF CredFrame, GoesOn
    <3>2. PICK t \in DOMAIN db.refresh : t = req[p].item
      BY <2>1, <3>1 DEF CredTypes
    <3>3. FamilyOf(t) \in excused \/ (proc[p].pc = "rotating" /\ proc[p].item = t)
      BY <2>1, <3>1, <3>2 DEF CredInv, OwnReuse
    <3>4. FamilyOf(t)' \in excused' \/ (proc'[p].pc = "rotating" /\ proc'[p].item = t)
      BY <1>3, <3>1, <3>3 DEF LetsGo
    <3> QED BY <3>1, <3>2, <3>4 DEF FamilyOf
  <2> QED BY <2>1 DEF OwnReuse, FamilyOf
<1>9. OwnFamily'
  <2>1. ASSUME NEW p \in Procs, proc'[p].pc = "rotating"
        PROVE  /\ req'[p].what = "mintRefresh" => req'[p].family = db'.refresh[proc'[p].item].family
               /\ req'[p].what \in {"mintAccess", "pair"} =>
                     db'.refresh[req'[p].item].family = db'.refresh[proc'[p].item].family
    <3>1. /\ proc'[p] = proc[p] /\ proc[p].pc = "rotating" /\ p \in Holding /\ GoesOn(p)
          /\ req[p].what # "claim"
      BY <2>1 DEF CredFrame, LetsGo, Holding, CredTypes
    <3>2. PICK t \in DOMAIN db.refresh : t = proc[p].item
      BY <3>1 DEF CredTypes
    <3>3. /\ req[p].what = "mintRefresh" => req[p].family = FamilyOf(t)
          /\ req[p].what \in {"mintAccess", "pair"} => FamilyOf(req[p].item) = FamilyOf(t)
      BY <3>1, <3>2 DEF CredInv, OwnFamily
    <3>4. req'[p].what = "mintRefresh" => req'[p].family = FamilyOf(t)'
      BY <1>3, <3>1, <3>3 DEF GoesOn
    <3>5. ASSUME req'[p].what \in {"mintAccess", "pair"} PROVE db'.refresh[req'[p].item].family = FamilyOf(t)'
      <4>1. PICK y \in DOMAIN db.refresh : y = req[p].item /\ y = req'[p].item
        BY <1>2, <2>1, <3>5 DEF InHand
      <4>2. FamilyOf(y) = FamilyOf(t)
        BY <3>1, <3>3, <3>5, <4>1 DEF GoesOn
      <4> QED BY <1>3, <4>1, <4>2 DEF FamilyOf
    <3> QED BY <3>1, <3>2, <3>4, <3>5 DEF FamilyOf
  <2> QED BY <2>1 DEF OwnFamily, FamilyOf
<1>10. Replays'
  <2>1. ASSUME NEW r \in Holding', NEW t \in DOMAIN db.refresh, t = proc[r].item,
               ~Live(t)', FamilyOf(t) \notin excused', ~Carrying(r)'
        PROVE  proc[r].at <= db'.refresh[t].at + Quick \/ \E q \in Procs \ {r} : Replacing(q, t)'
    <3>1. r \in Holding /\ r \in Procs /\ proc'[r] = proc[r] /\ FromDevice(t)
      BY <1>1, <2>1 DEF CredInv, DeviceOnly
    <3>2. ~Live(t) /\ FamilyOf(t) \notin excused /\ db'.refresh[t].at = db.refresh[t].at
      BY <1>3, <2>1, <3>1
    <3>3. ~Carrying(r)
      <4>1. proc[r].pc = "loaded" \/ proc[r].pc = "rotating"
        BY <3>1 DEF Holding
      <4>2. proc[r].pc = "loaded" => ~Carrying(r)
        BY <3>1 DEF CredTypes, Carrying
      <4>3. (proc[r].pc = "rotating" /\ Carrying(r)) => Replacing(r, t)
        BY <2>1 DEF Replacing
      <4>4. ~Replacing(r, t)'
        BY <2>1 DEF Replacing
      <4> QED BY <1>4, <2>1, <3>1, <4>1, <4>2, <4>3, <4>4
    <3>4. proc[r].at <= db.refresh[t].at + Quick \/ \E q \in Procs \ {r} : Replacing(q, t)
      BY <2>1, <3>1, <3>2, <3>3 DEF CredInv, Replays
    <3> QED BY <1>4, <2>1, <3>2, <3>4
  <2>2. ASSUME NEW r \in Holding'
        PROVE  (~Live(proc[r].item)' /\ (FamilyOf(proc[r].item) \notin excused)' /\ ~Carrying(r)') =>
                  \/ proc'[r].at <= db'.refresh[proc'[r].item].at + Quick
                  \/ \E q \in Procs \ {r} : Replacing(q, proc[r].item)'
    <3>1. PICK t \in DOMAIN db.refresh : t = proc[r].item /\ proc'[r] = proc[r]
      BY <1>1, <2>2
    <3>2. FamilyOf(t)' = FamilyOf(t)
      BY <1>3
    <3>3. ASSUME ~Live(t)', FamilyOf(t)' \notin excused', ~Carrying(r)'
          PROVE  proc[r].at <= db'.refresh[t].at + Quick \/ \E q \in Procs \ {r} : Replacing(q, t)'
      BY <2>1, <3>1, <3>2, <3>3
    <3> QED BY <3>1, <3>3 DEF Live, FamilyOf, Replacing
  <2> QED BY <2>2 DEF Replays
<1>11. Loaded'
  <2>1. \A p \in Holding' : proc'[p].at <= now'
    BY <1>1 DEF CredInv, Loaded, CredFrame, CredTypes
  <2> QED BY <2>1 DEF Loaded
<1>12. CredentialSurvives'
  <2>1. ASSUME file'.kind = "device", (FamilyOf(file.refresh) \notin excused)'
        PROVE  \/ db'.refresh[file'.refresh].status = "live"
               \/ \E p \in Procs : Replacing(p, file.refresh)'
    <3>1. file' = file /\ file.kind = "device"
      BY <2>1 DEF CredFrame, FileStays
    <3>2. PICK t \in DOMAIN db.refresh : t = file.refresh
      BY <3>1 DEF CredTypes
    <3>3. FromDevice(t) /\ FamilyOf(t)' = FamilyOf(t) /\ FamilyOf(t) \notin excused'
      BY <1>3, <2>1, <3>1, <3>2 DEF CredInv, DeviceOnly, FamilyOf
    <3>4. Live(t) \/ \E p \in Procs : Replacing(p, t)
      BY <1>3, <3>1, <3>2, <3>3 DEF CredInv, CredentialSurvives, Live, Replacing, Carrying
    <3>5. Live(t)' \/ \E p \in Procs : Replacing(p, t)'
      BY <1>3, <1>4, <3>3, <3>4
    <3> QED BY <3>1, <3>2, <3>5 DEF Live, Replacing
  <2> QED BY <2>1 DEF CredentialSurvives, Replacing, Carrying
<1> QED BY <1>5, <1>6, <1>7, <1>8, <1>9, <1>10, <1>11, <1>12 DEF CredInv

-----------------------------------------------------------------------------
(* The five steps that do more: a token is loaded, replaced, replayed, its    *)
(* successor inserted, and brought to the file.                               *)

\* A token is loaded from the file, live or with a replacement on its way.
LEMMA CredLoads ==
    ASSUME CredTypes, CredInv, NEW p \in Procs, proc \in [Procs -> Invocation], LoadsStale(p)
    PROVE  CredInv'
<1> DEFINE t == file.refresh
<1>1. /\ db' = db /\ req' = req /\ now' = now /\ file' = file /\ excused' = excused
      /\ proc[p].pc = "rest" /\ file.kind = "device" /\ t \in DOMAIN db.refresh /\ FromDevice(t)
      /\ proc'[p].pc = "loaded" /\ proc'[p].item = t /\ proc'[p].at = now
      /\ \A q \in Procs \ {p} : proc'[q] = proc[q]
      /\ req[p].what = "idle"
  BY DEF LoadsStale, serverVars, Goes, Working, CredTypes, Resting, CredInv, DeviceOnly, Idle
<1> HIDE DEF t
<1>2. Holding' = Holding \cup {p} /\ InHand' = InHand /\ p \notin Holding /\ p \notin InHand
  BY <1>1 DEF Holding, InHand
<1>3. ASSUME NEW q \in Procs, NEW s, Replacing(q, s) PROVE Replacing(q, s)' /\ q # p
  BY <1>1, <1>3 DEF Replacing, Carrying
<1>4. DeviceOnly'
  BY <1>1, <1>2 DEF CredInv, DeviceOnly, FromDevice, Holding
<1>5. Unheld'
  BY <1>1, <1>2 DEF CredInv, Unheld, Holding, t
<1>6. InTransit'
  BY <1>1, <1>2 DEF CredInv, InTransit, Live, FamilyOf
<1>7. OwnReuse' /\ OwnFamily'
  BY <1>1 DEF CredInv, OwnReuse, OwnFamily, FamilyOf
<1>8. Replays'
  <2>1. ASSUME NEW r \in Holding', NEW s, s = proc'[r].item, ~Live(s), FamilyOf(s) \notin excused, ~Carrying(r)
        PROVE  proc'[r].at <= db.refresh[s].at + Quick \/ \E q \in Procs \ {r} : Replacing(q, s)'
    <3>1. CASE r = p
      <4>1. s = t
        BY <1>1, <2>1, <3>1
      <4>2. \E q \in Procs : Replacing(q, s)
        BY <1>1, <2>1, <4>1 DEF CredInv, CredentialSurvives, Live, Replacing, Carrying, t
      <4> QED BY <1>3, <3>1, <4>2
    <3>2. CASE r # p
      <4>1. r \in Holding /\ proc'[r] = proc[r]
        BY <1>1, <1>2, <2>1, <3>2 DEF Holding
      <4>2. proc[r].at <= db.refresh[s].at + Quick \/ \E q \in Procs \ {r} : Replacing(q, s)
        BY <2>1, <4>1 DEF CredInv, Replays
      <4> QED BY <1>3, <4>1, <4>2
    <3> QED BY <3>1, <3>2
  <2> QED BY <1>1, <2>1 DEF Replays, Live, FamilyOf, Carrying, Replacing
<1>9. Loaded'
  BY <1>1, <1>2 DEF CredInv, Loaded, Holding, CredTypes
<1>10. CredentialSurvives'
  <2>1. PICK s : s = file.refresh
    OBVIOUS
  <2>2. FamilyOf(s) \notin excused => Live(s) \/ \E q \in Procs : Replacing(q, s)
    BY <1>1, <2>1 DEF CredInv, CredentialSurvives, Live, Replacing, Carrying, t
  <2>3. FamilyOf(s) \notin excused => Live(s) \/ \E q \in Procs : Replacing(q, s)'
    BY <1>3, <2>2
  <2> QED BY <1>1, <2>1, <2>3 DEF CredentialSurvives, Live, FamilyOf, Replacing, Carrying
<1> QED BY <1>4, <1>5, <1>6, <1>7, <1>8, <1>9, <1>10 DEF CredInv

\* A live token is replaced by the invocation that loaded it.
LEMMA CredReplaces ==
    ASSUME CredTypes, CredInv, NEW p \in Procs, NEW t \in DOMAIN db.refresh, RowsLast,
           now' = now, file' = file, excused' = excused,
           proc[p].pc = "loaded", proc[p].item = t,
           proc'[p].pc = "rotating", proc'[p].item = t, proc'[p].at = proc[p].at,
           \A q \in Procs \ {p} : proc'[q] = proc[q] /\ req'[q] = req[q],
           \A s \in DOMAIN db.refresh \ {t} : db'.refresh[s].status = db.refresh[s].status,
           req'[p].what = "mintRefresh", req'[p].family = FamilyOf(t), req'[p].origin = db.refresh[t].origin
    PROVE  CredInv'
<1>1. /\ p \in Holding /\ Holding' = Holding /\ InHand' = InHand /\ p \notin InHand /\ req[p].what = "idle"
      /\ FromDevice(t)
  BY DEF Holding, InHand, CredTypes, CredInv, DeviceOnly
<1>2. /\ \A s \in DOMAIN db.refresh : /\ FromDevice(s) => FromDevice(s)'
                                      /\ FamilyOf(s)' = FamilyOf(s)
                                      /\ ~Live(s) => db'.refresh[s].at = db.refresh[s].at
      /\ \A s \in DOMAIN db.refresh \ {t} : Live(s)' <=> Live(s)
  BY DEF RowsLast, FromDevice, FamilyOf, Live
<1>3. ASSUME NEW q \in Procs, NEW s, Replacing(q, s) PROVE Replacing(q, s)' /\ q # p
  BY <1>3 DEF Replacing, Carrying
<1>4. Replacing(p, t)' /\ Carrying(p)'
  BY DEF Replacing, Carrying
<1>5. DeviceOnly'
  <2>1. file'.kind = "device" => FromDevice(file.refresh)'
    BY <1>2 DEF CredInv, DeviceOnly, CredTypes, FromDevice
  <2>2. \A q \in Holding' : FromDevice(proc[q].item)'
    BY <1>1, <1>2 DEF CredInv, DeviceOnly, CredTypes, FromDevice, Holding
  <2>3. \A q \in InHand' : FromDevice(req[q].item)'
    BY <1>1, <1>2 DEF CredInv, DeviceOnly, CredTypes, FromDevice, InHand
  <2>4. \A q \in Procs : req'[q].what = "mintRefresh" => req'[q].origin[1] = "device"
    BY <1>1 DEF CredInv, DeviceOnly, FromDevice
  <2> QED BY <2>1, <2>2, <2>3, <2>4 DEF DeviceOnly
<1>6. Unheld'
  <2>1. \A q \in InHand : q # p /\ req'[q] = req[q]
    BY <1>1 DEF InHand
  <2>2. \A q \in Holding : proc'[q].item = proc[q].item
    BY <1>1 DEF Holding
  <2> QED BY <1>1, <2>1, <2>2 DEF CredInv, Unheld
<1>7. InTransit'
  <2>1. ASSUME NEW q \in InHand
        PROVE  db'.refresh[req'[q].item].status = "live" \/ db'.refresh[req'[q].item].family \in excused
    <3>1. PICK y \in DOMAIN db.refresh : y = req[q].item /\ req'[q] = req[q] /\ y # t
      BY <1>1, <2>1 DEF CredInv, Unheld, CredTypes, InHand
    <3>2. Live(y) \/ FamilyOf(y) \in excused
      BY <2>1, <3>1 DEF CredInv, InTransit
    <3> QED BY <1>2, <3>1, <3>2 DEF Live, FamilyOf
  <2> QED BY <1>1, <2>1 DEF InTransit, Live, FamilyOf
<1>8. OwnReuse'
  <2>1. ASSUME NEW q \in Procs, req'[q].what = "reuse"
        PROVE  \/ db'.refresh[req'[q].item].family \in excused
               \/ proc'[q].pc = "rotating" /\ proc'[q].item = req'[q].item
    <3>1. q # p /\ req'[q] = req[q] /\ proc'[q] = proc[q]
      BY <2>1
    <3>2. req[q].item \in DOMAIN db.refresh
      BY <2>1, <3>1 DEF CredTypes
    <3> QED BY <1>2, <2>1, <3>1, <3>2 DEF CredInv, OwnReuse, FamilyOf
  <2> QED BY <2>1 DEF OwnReuse, FamilyOf
<1>9. OwnFamily'
  <2>1. ASSUME NEW q \in Procs, proc'[q].pc = "rotating"
        PROVE  /\ req'[q].what = "mintRefresh" => req'[q].family = db'.refresh[proc'[q].item].family
               /\ req'[q].what \in {"mintAccess", "pair"} =>
                     db'.refresh[req'[q].item].family = db'.refresh[proc'[q].item].family
    <3>1. CASE q = p
      BY <1>2, <3>1 DEF FamilyOf
    <3>2. CASE q # p
      <4>1. req'[q] = req[q] /\ proc'[q] = proc[q] /\ q \in Holding /\ proc[q].item \in DOMAIN db.refresh
        BY <2>1, <3>2 DEF Holding, CredTypes
      <4>2. req[q].what \in {"mintAccess", "pair"} => req[q].item \in DOMAIN db.refresh
        BY DEF CredTypes, InHand
      <4> QED BY <1>2, <2>1, <4>1, <4>2 DEF CredInv, OwnFamily, FamilyOf
    <3> QED BY <3>1, <3>2
  <2> QED BY <2>1 DEF OwnFamily, FamilyOf
<1>10. Replays'
  <2>1. ASSUME NEW r \in Holding, NEW s \in DOMAIN db.refresh, s = proc[r].item, ~Live(s)', FamilyOf(s) \notin excused, ~Carrying(r)'
        PROVE  proc[r].at <= db'.refresh[s].at + Quick \/ \E q \in Procs \ {r} : Replacing(q, s)'
    <3>0. r # p /\ r \in Procs
      BY <1>4, <2>1 DEF Holding
    <3>1. CASE s = t
      BY <1>4, <3>0, <3>1
    <3>2. CASE s # t
      <4>1. ~Live(s) /\ ~Carrying(r) /\ db'.refresh[s].at = db.refresh[s].at
        BY <1>2, <2>1, <3>0, <3>2 DEF Carrying
      <4>2. proc[r].at <= db.refresh[s].at + Quick \/ \E q \in Procs \ {r} : Replacing(q, s)
        BY <2>1, <4>1 DEF CredInv, Replays
      <4> QED BY <1>3, <4>1, <4>2
    <3> QED BY <3>1, <3>2
  <2>2. \A r \in Holding : /\ proc'[r].at = proc[r].at /\ proc'[r].item = proc[r].item
                           /\ proc[r].item \in DOMAIN db.refresh
    BY DEF Holding, CredTypes
  <2>3. ASSUME NEW r \in Holding'
        PROVE  (~Live(proc[r].item)' /\ (FamilyOf(proc[r].item) \notin excused)' /\ ~Carrying(r)') =>
                  \/ proc'[r].at <= db'.refresh[proc'[r].item].at + Quick
                  \/ \E q \in Procs \ {r} : Replacing(q, proc[r].item)'
    <3>1. PICK s \in DOMAIN db.refresh : s = proc[r].item /\ r \in Holding /\ proc'[r].item = s /\ proc'[r].at = proc[r].at
      BY <1>1, <2>2, <2>3
    <3>2. FamilyOf(s)' = FamilyOf(s)
      BY <1>2
    <3>3. ASSUME ~Live(s)', FamilyOf(s)' \notin excused, ~Carrying(r)'
          PROVE  proc[r].at <= db'.refresh[s].at + Quick \/ \E q \in Procs \ {r} : Replacing(q, s)'
      BY <2>1, <3>1, <3>2, <3>3
    <3> QED BY <3>1, <3>3 DEF Live, FamilyOf, Replacing
  <2> QED BY <2>3 DEF Replays
<1>11. Loaded'
  BY <1>1 DEF CredInv, Loaded, Holding
<1>12. CredentialSurvives'
  <2>1. ASSUME file.kind = "device", NEW s \in DOMAIN db.refresh, s = file.refresh, FamilyOf(s) \notin excused
        PROVE  Live(s)' \/ \E q \in Procs : Replacing(q, s)'
    <3>1. CASE s = t
      BY <1>4, <3>1
    <3>2. CASE s # t
      <4>1. Live(s) \/ \E q \in Procs : Replacing(q, s)
        BY <2>1 DEF CredInv, CredentialSurvives, Live, Replacing, Carrying
      <4> QED BY <1>2, <1>3, <3>2, <4>1
    <3> QED BY <3>1, <3>2
  <2>2. file.kind = "device" => file.refresh \in DOMAIN db.refresh
    BY DEF CredTypes
  <2>3. \A s \in DOMAIN db.refresh : FamilyOf(s)' = FamilyOf(s)
    BY <1>2
  <2>4. ASSUME file.kind = "device", db'.refresh[file.refresh].family \notin excused
        PROVE  db'.refresh[file.refresh].status = "live" \/ \E q \in Procs : Replacing(q, file.refresh)'
    <3>1. PICK s \in DOMAIN db.refresh : s = file.refresh
      BY <2>2, <2>4
    <3>2. FamilyOf(s) \notin excused
      BY <2>3, <2>4, <3>1 DEF FamilyOf
    <3>3. Live(s)' \/ \E q \in Procs : Replacing(q, s)'
      BY <2>1, <2>4, <3>1, <3>2
    <3> QED BY <3>1, <3>3 DEF Live, Replacing
  <2> QED BY <2>4 DEF CredentialSurvives, FamilyOf, Replacing, Carrying
<1> QED BY <1>5, <1>6, <1>7, <1>8, <1>9, <1>10, <1>11, <1>12 DEF CredInv

\* A dead or lapsed token is presented: the gateway is to look for reuse.
LEMMA CredReplays ==
    ASSUME CredTypes, CredInv, NEW p \in Procs, NEW t \in DOMAIN db.refresh,
           db' = db, now' = now, file' = file, excused' = excused,
           proc[p].pc = "loaded", proc[p].item = t,
           proc'[p].pc = "rotating", proc'[p].item = t, proc'[p].at = proc[p].at,
           \A q \in Procs \ {p} : proc'[q] = proc[q] /\ req'[q] = req[q],
           req'[p].what = "reuse", req'[p].item = t
    PROVE  CredInv'
<1>1. /\ p \in Holding /\ Holding' = Holding /\ InHand' = InHand /\ p \notin InHand /\ req[p].what = "idle"
      /\ FromDevice(t) /\ ~Carrying(p) /\ ~Carrying(p)'
      /\ \A q \in Holding : proc'[q].item = proc[q].item /\ proc'[q].at = proc[q].at
      /\ \A q \in InHand : req'[q] = req[q]
  BY DEF Holding, InHand, CredTypes, CredInv, DeviceOnly, Carrying
<1>2. ASSUME NEW q \in Procs, NEW s PROVE Replacing(q, s)' <=> Replacing(q, s)
  BY <1>1 DEF Replacing, Carrying
<1>3. \A q \in Procs : Carrying(q)' <=> Carrying(q)
  BY <1>1 DEF Carrying
<1>4. DeviceOnly'
  BY <1>1 DEF CredInv, DeviceOnly, FromDevice
<1>5. Unheld'
  BY <1>1 DEF CredInv, Unheld
<1>6. InTransit'
  BY <1>1 DEF CredInv, InTransit, Live, FamilyOf
<1>7. OwnReuse'
  BY <1>1 DEF CredInv, OwnReuse, FamilyOf
<1>8. OwnFamily'
  BY <1>1 DEF CredInv, OwnFamily, FamilyOf
<1>9. Replays'
  <2>1. ASSUME NEW r \in Holding, NEW s, s = proc[r].item, ~Live(s), FamilyOf(s) \notin excused, ~Carrying(r)
        PROVE  proc[r].at <= db.refresh[s].at + Quick \/ \E q \in Procs \ {r} : Replacing(q, s)'
    BY <1>2, <2>1 DEF CredInv, Replays
  <2>2. \A r \in Holding : r \in Procs
    BY DEF Holding
  <2> QED BY <1>1, <1>3, <2>1, <2>2 DEF Replays, Live, FamilyOf, Replacing
<1>10. Loaded'
  BY <1>1 DEF CredInv, Loaded
<1>11. CredentialSurvives'
  <2>1. PICK s : s = file.refresh
    OBVIOUS
  <2>2. (file.kind = "device" /\ FamilyOf(s) \notin excused) => Live(s) \/ \E q \in Procs : Replacing(q, s)
    BY <2>1 DEF CredInv, CredentialSurvives, Live, Replacing, Carrying
  <2>3. (file.kind = "device" /\ FamilyOf(s) \notin excused) => Live(s) \/ \E q \in Procs : Replacing(q, s)'
    BY <1>2, <2>2
  <2> QED BY <2>1, <2>3 DEF CredentialSurvives, Live, FamilyOf, Replacing, Carrying
<1> QED BY <1>4, <1>5, <1>6, <1>7, <1>8, <1>9, <1>10, <1>11 DEF CredInv

\* The successor is inserted: nobody holds it but the request.
LEMMA CredInserts ==
    ASSUME CredTypes, CredInv, NEW p \in Procs, RowsLast, NEW n, n \notin DOMAIN db.refresh, n # Never,
           \A t \in DOMAIN db.refresh : db'.refresh[t] = db.refresh[t],
           now' = now, file' = file, proc' = proc, excused \subseteq excused',
           \A q \in Procs \ {p} : req'[q] = req[q],
           req[p].what = "mintRefresh", req'[p].what = "mintAccess", req'[p].item = n,
           db'.refresh[n].status = "live", db'.refresh[n].origin = req[p].origin,
           req[p].family # Never => db'.refresh[n].family = req[p].family
    PROVE  CredInv'
<1>1. /\ Holding' = Holding /\ InHand' = InHand \cup {p} /\ p \notin InHand
      /\ \A q \in Procs : Carrying(q)' <=> Carrying(q)
      /\ \A q \in InHand : req'[q] = req[q] /\ q # p
      /\ \A q \in Holding : proc[q].item \in DOMAIN db.refresh
      /\ \A q \in InHand : req[q].item \in DOMAIN db.refresh
  BY DEF Holding, InHand, CredTypes, Carrying
<1>2. \A t \in DOMAIN db.refresh : /\ FromDevice(t)' <=> FromDevice(t)
                                   /\ FamilyOf(t)' = FamilyOf(t) /\ (Live(t)' <=> Live(t))
  BY DEF FromDevice, FamilyOf, Live
<1>3. ASSUME NEW q \in Procs, NEW s PROVE Replacing(q, s)' <=> Replacing(q, s)
  BY <1>1 DEF Replacing
<1>4. DeviceOnly'
  <2>1. file.kind = "device" => db'.refresh[file.refresh].origin[1] = "device"
    BY DEF CredInv, DeviceOnly, CredTypes, FromDevice
  <2>2. \A q \in Holding : db'.refresh[proc[q].item].origin[1] = "device"
    BY <1>1 DEF CredInv, DeviceOnly, FromDevice
  <2>3. \A q \in InHand : db'.refresh[req[q].item].origin[1] = "device"
    BY <1>1 DEF CredInv, DeviceOnly, FromDevice
  <2>4. db'.refresh[n].origin[1] = "device"
    BY DEF CredInv, DeviceOnly
  <2>5. \A q \in Procs : req'[q].what = "mintRefresh" => req'[q].origin[1] = "device"
    BY DEF CredInv, DeviceOnly
  <2> QED BY <1>1, <2>1, <2>2, <2>3, <2>4, <2>5 DEF DeviceOnly, FromDevice
<1>5. Unheld'
  <2>1. file.refresh # n
    BY DEF CredTypes
  <2> QED BY <1>1, <2>1 DEF CredInv, Unheld
<1>6. InTransit'
  <2>1. \A q \in InHand : db'.refresh[req[q].item].status = "live" \/ db'.refresh[req[q].item].family \in excused'
    BY <1>1 DEF CredInv, InTransit, Live, FamilyOf
  <2> QED BY <1>1, <2>1 DEF InTransit, Live, FamilyOf
<1>7. OwnReuse'
  <2>1. \A q \in Procs : req'[q].what = "reuse" => req'[q] = req[q] /\ req[q].item \in DOMAIN db.refresh
    BY DEF CredTypes
  <2> QED BY <2>1 DEF CredInv, OwnReuse, FamilyOf
<1>8. OwnFamily'
  <2>1. ASSUME NEW q \in Procs, proc[q].pc = "rotating"
        PROVE  /\ req'[q].what = "mintRefresh" => req'[q].family = db'.refresh[proc[q].item].family
               /\ req'[q].what \in {"mintAccess", "pair"} =>
                     db'.refresh[req'[q].item].family = db'.refresh[proc[q].item].family
    <3>1. q \in Holding /\ proc[q].item \in DOMAIN db.refresh
      BY <2>1 DEF Holding, CredTypes
    <3>2. CASE q = p
      <4>1. req[p].family = FamilyOf(proc[p].item) /\ FamilyOf(proc[p].item) # Never
        BY <2>1, <3>1, <3>2 DEF CredInv, OwnFamily, CredTypes
      <4> QED BY <3>1, <3>2, <4>1 DEF FamilyOf
    <3>3. CASE q # p
      <4>1. req'[q] = req[q] /\ (req[q].what \in {"mintAccess", "pair"} => req[q].item \in DOMAIN db.refresh)
        BY <1>1, <3>3 DEF InHand
      <4> QED BY <2>1, <3>1, <4>1 DEF CredInv, OwnFamily, FamilyOf
    <3> QED BY <3>2, <3>3
  <2> QED BY <2>1 DEF OwnFamily, FamilyOf
<1>9. Replays'
  <2>1. ASSUME NEW r \in Holding, NEW s, s = proc[r].item,
               db'.refresh[s].status # "live", db'.refresh[s].family \notin excused', ~Carrying(r)
        PROVE  proc[r].at <= db'.refresh[s].at + Quick \/ \E q \in Procs \ {r} : Replacing(q, s)'
    <3>1. db'.refresh[s] = db.refresh[s]
      BY <1>1, <2>1
    <3>2. proc[r].at <= db.refresh[s].at + Quick \/ \E q \in Procs \ {r} : Replacing(q, s)
      BY <2>1, <3>1 DEF CredInv, Replays, Live, FamilyOf
    <3> QED BY <1>3, <3>1, <3>2
  <2>2. \A r \in Holding : r \in Procs
    BY DEF Holding
  <2> QED BY <1>1, <2>1, <2>2 DEF Replays, Live, FamilyOf, Replacing
<1>10. Loaded'
  BY <1>1 DEF CredInv, Loaded
<1>11. CredentialSurvives'
  <2>1. PICK s : s = file.refresh
    OBVIOUS
  <2>2. file.kind = "device" => db'.refresh[s] = db.refresh[s]
    BY <2>1 DEF CredTypes
  <2>3. (file.kind = "device" /\ FamilyOf(s) \notin excused) => Live(s) \/ \E q \in Procs : Replacing(q, s)
    BY <2>1 DEF CredInv, CredentialSurvives, Live, Replacing, Carrying
  <2>4. (file.kind = "device" /\ FamilyOf(s) \notin excused) => Live(s) \/ \E q \in Procs : Replacing(q, s)'
    BY <1>3, <2>3
  <2> QED BY <2>1, <2>2, <2>4 DEF CredentialSurvives, Live, FamilyOf, Replacing, Carrying
<1> QED BY <1>4, <1>5, <1>6, <1>7, <1>8, <1>9, <1>10, <1>11 DEF CredInv

\* The answer arrives.
LEMMA CredReceives ==
    ASSUME CredTypes, CredInv, NEW p \in Procs, p \in Slots, proc \in [Procs -> Invocation], req \in [Slots -> Request],
           Procs \subseteq Slots, Receives(p)
    PROVE  CredInv'
<1> DEFINE y == req[p].item
           t == proc[p].item
<1>1. /\ db' = db /\ now' = now /\ req'[p].what = "idle" /\ proc'[p].pc \in {"rest", "poll"}
      /\ \A q \in Procs \ {p} : proc'[q] = proc[q] /\ req'[q] = req[q]
      /\ req[p].what \in {"pair", "guest", "pending", "refused"}
      /\ excused \subseteq excused'
      /\ (req[p].what = "pair" /\ proc[p].pc = "rotating" /\ now - db.refresh[t].at > Quick) => FamilyOf(t) \in excused'
  BY DEF Receives, Becomes, Goes, Idle, Resting, Invocation, SlowSave
<1>2. \/ file' = file
      \/ req[p].what = "pair" /\ file'.kind = "device" /\ file'.refresh = y
      \/ file'.kind = "guest" /\ file'.refresh = Never
  BY DEF Receives
<1> HIDE DEF y, t
<1>3. /\ Holding' = Holding \ {p} /\ InHand' = InHand \ {p}
      /\ req[p].what = "pair" => p \in InHand
  BY <1>1 DEF Holding, InHand
<1>4. ASSUME NEW q \in Procs, NEW s, Replacing(q, s), q # p PROVE Replacing(q, s)'
  BY <1>1, <1>4 DEF Replacing, Carrying
<1>5. DeviceOnly'
  BY <1>1, <1>2, <1>3 DEF CredInv, DeviceOnly, FromDevice, Holding, InHand, y
<1>6. Unheld'
  <2>1. \A q \in InHand \ {p} : file'.refresh # req[q].item
    BY <1>2, <1>3 DEF CredInv, Unheld, CredTypes, y
  <2> QED BY <1>1, <1>3, <2>1 DEF CredInv, Unheld, Holding, InHand
<1>7. InTransit'
  BY <1>1, <1>3 DEF CredInv, InTransit, InHand, Live, FamilyOf
<1>8. OwnReuse' /\ OwnFamily'
  BY <1>1 DEF CredInv, OwnReuse, OwnFamily, FamilyOf
<1>9. Replays'
  <2>1. ASSUME NEW r \in Holding, r # p, NEW s, s = proc[r].item, ~Live(s), FamilyOf(s) \notin excused', ~Carrying(r)
        PROVE  proc[r].at <= db.refresh[s].at + Quick \/ \E q \in Procs \ {r} : Replacing(q, s)'
    <3>1. r \in Procs /\ FamilyOf(s) \notin excused /\ s \in DOMAIN db.refresh
      BY <1>1, <2>1 DEF Holding, CredTypes
    <3>2. proc[r].at <= db.refresh[s].at + Quick \/ \E q \in Procs \ {r} : Replacing(q, s)
      BY <2>1, <3>1 DEF CredInv, Replays
    <3>3. ASSUME Replacing(p, s) PROVE proc[r].at <= db.refresh[s].at + Quick
      <4>1. proc[p].pc = "rotating" /\ t = s /\ req[p].what = "pair"
        BY <1>1, <3>3 DEF Replacing, Carrying, t
      <4>2. ~(now - db.refresh[s].at > Quick)
        BY <1>1, <2>1, <4>1
      <4>3. /\ proc[r].at \in Nat /\ now \in Nat /\ db.refresh[s].at \in Nat /\ proc[r].at <= now
            /\ Quick \in Nat
        BY <2>1, <3>1, QuickAssumption, TTLs DEF CredTypes, CredInv, Loaded
      <4> QED BY <4>2, <4>3
    <3> QED BY <1>4, <3>2, <3>3
  <2>2. \A r \in Holding : r \in Procs
    BY DEF Holding
  <2> QED BY <1>1, <1>3, <2>1, <2>2 DEF Replays, Live, FamilyOf, Replacing, Carrying
<1>10. Loaded'
  BY <1>1, <1>3 DEF CredInv, Loaded, Holding
<1>11. CredentialSurvives'
  <2>1. CASE file' = file
    <3>1. PICK s : s = file.refresh
      OBVIOUS
    <3>2. (file.kind = "device" /\ FamilyOf(s) \notin excused) => Live(s) \/ \E q \in Procs : Replacing(q, s)
      BY <3>1 DEF CredInv, CredentialSurvives, Live, Replacing, Carrying
    <3>3. Replacing(p, s) => req[p].what = "pair"
      BY <1>1 DEF Replacing, Carrying
    <3>4. CASE req[p].what # "pair"
      <4>1. (file.kind = "device" /\ FamilyOf(s) \notin excused) => Live(s) \/ \E q \in Procs : Replacing(q, s)'
        BY <1>4, <3>2, <3>3, <3>4
      <4> QED BY <1>1, <2>1, <3>1, <4>1 DEF CredentialSurvives, Live, FamilyOf, Replacing, Carrying
    <3>5. CASE req[p].what = "pair"
      <4>1. file'.kind = "device" /\ file'.refresh = y
        BY <3>5 DEF Receives, y
      <4>2. Live(y) \/ FamilyOf(y) \in excused'
        BY <1>1, <1>3, <3>5 DEF CredInv, InTransit, y
      <4> QED BY <1>1, <4>1, <4>2 DEF CredentialSurvives, Live, FamilyOf
    <3> QED BY <3>4, <3>5
  <2>2. CASE req[p].what = "pair" /\ file'.kind = "device" /\ file'.refresh = y
    <3>1. Live(y) \/ FamilyOf(y) \in excused'
      BY <1>1, <1>3, <2>2 DEF CredInv, InTransit, y
    <3> QED BY <1>1, <2>2, <3>1 DEF CredentialSurvives, Live, FamilyOf
  <2>3. CASE file'.kind = "guest"
    BY <2>3 DEF CredentialSurvives
  <2> QED BY <1>2, <2>1, <2>2, <2>3
<1> QED BY <1>5, <1>6, <1>7, <1>8, <1>9, <1>10, <1>11 DEF CredInv

-----------------------------------------------------------------------------
(* Every step is a frame step or one of the five. *)

\* Rows of refresh tokens stay, and a dead one keeps the time of its death.
LEMMA ShapeRows == ASSUME Shape PROVE RowsLast
<1>1. CASE Fades(db, db')
  BY <1>1 DEF Fades, Extends, RowsLast, Live
<1>2. ASSUME NEW r \in Slots, NEW n \in Nat, InsertsRefresh(r, n) PROVE RowsLast
  BY <1>2 DEF InsertsRefresh, RowsLast, Live
<1>3. CASE InsertsAccess
  BY <1>3 DEF InsertsAccess, RowsLast, Live
<1> QED BY <1>1, <1>2, <1>3 DEF Shape, Quiet, StartsFamily, Replaces

\* A step that excuses what it strikes.
LEMMA StruckExcused == ASSUME Struck \subseteq excused' PROVE DeathsExcused
<1>1. \A t \in DOMAIN db.refresh : (Live(t) /\ ~Live(t)') => FamilyOf(t) \in Struck
  BY DEF Struck, Live
<1> QED BY <1>1 DEF DeathsExcused

\* A step that leaves the refresh tokens alone strikes none.
LEMMA NothingStruck == ASSUME db'.refresh = db.refresh PROVE DeathsExcused
BY DEF DeathsExcused, Live

\* A request that is refused under Excusing, or that carries nothing, is accounted for.
LEMMA RefusalExcused ==
    ASSUME NEW r \in Slots, Excusing, req'[r].what = "refused"
    PROVE  Lost(r)
<1>1. Carried(r) \subseteq excused'
  BY DEF Excusing
<1> QED BY <1>1 DEF Carried, Lost

\* The steps of an invocation: loading, rotating, receiving, and letting go.
LEMMA CredCli ==
    ASSUME BaseInv, CredTypes, CredInv, RowsLast, NEW p \in Procs, CliStep(p)
    PROVE  CredInv'
<1> USE DEF Frame
<1>0. /\ p \in Slots /\ Procs \subseteq Slots /\ proc \in [Procs -> Invocation] /\ req \in [Slots -> Request]
      /\ now \in Nat /\ TablesOK(db) /\ IsTables(db) /\ proc[p] \in Invocation
  BY ActorsAreSlots DEF BaseInv, TablesOK
<1>1. CASE LoadsStale(p)
  BY <1>0, <1>1, CredLoads
<1>2. CASE Receives(p)
  BY <1>0, <1>2, CredReceives
<1>3. CASE Rotates(p)
  <2> DEFINE t == proc[p].item
  <2>1. /\ Refresh(p, t) /\ proc[p].pc = "loaded" /\ t \in DOMAIN db.refresh
        /\ now' = now /\ file' = file /\ excused' = excused
        /\ proc'[p].pc = "rotating" /\ proc'[p].item = t /\ proc'[p].at = proc[p].at
        /\ \A q \in Procs \ {p} : proc'[q] = proc[q]
    BY <1>0, <1>3 DEF Rotates, Refresh, Goes, Invocation, CredTypes, Holding
  <2>2. PICK s \in DOMAIN db.refresh : s = t
    BY <2>1
  <2>3. CASE LiveRefresh(db, s, now)
    <3>1. /\ db' = ConsumeRefreshToken(db, s, now)
          /\ Becomes(p, Doing("mintRefresh", db.refresh[s].user, Never, db.refresh[s].family, db.refresh[s].origin))
      BY <2>1, <2>2, <2>3 DEF Refresh
    <3>2. \A x \in DOMAIN db.refresh \ {s} : db'.refresh[x].status = db.refresh[x].status
      BY <1>0, <3>1, ConsumeRefreshTokenOK
    <3>3. /\ req'[p].what = "mintRefresh" /\ req'[p].family = FamilyOf(s) /\ req'[p].origin = db.refresh[s].origin
          /\ \A q \in Procs \ {p} : req'[q] = req[q]
      BY <1>0, <3>1 DEF Becomes, Doing, FamilyOf
    <3>4. /\ proc[p].pc = "loaded" /\ proc[p].item = s /\ now' = now /\ file' = file /\ excused' = excused
          /\ proc'[p].pc = "rotating" /\ proc'[p].item = s /\ proc'[p].at = proc[p].at
          /\ \A q \in Procs \ {p} : proc'[q] = proc[q] /\ req'[q] = req[q]
      BY <2>1, <2>2, <3>3
    <3> QED BY <3>2, <3>3, <3>4, CredReplaces
  <2>4. CASE ~LiveRefresh(db, s, now)
    <3>1. db' = db /\ Becomes(p, Doing("reuse", Never, s, Never, Idle.origin))
      BY <2>1, <2>2, <2>4 DEF Refresh
    <3>2. /\ req'[p].what = "reuse" /\ req'[p].item = s
          /\ \A q \in Procs \ {p} : req'[q] = req[q]
      BY <1>0, <3>1 DEF Becomes, Doing
    <3>3. /\ proc[p].pc = "loaded" /\ proc[p].item = s /\ now' = now /\ file' = file /\ excused' = excused
          /\ proc'[p].pc = "rotating" /\ proc'[p].item = s /\ proc'[p].at = proc[p].at
          /\ \A q \in Procs \ {p} : proc'[q] = proc[q] /\ req'[q] = req[q]
      BY <2>1, <2>2, <3>2
    <3> QED BY <3>1, <3>2, <3>3, CredReplays
  <2> QED BY <2>3, <2>4
<1>4. ASSUME \/ LoginStarts(p) \/ LoginPolls(p) \/ LoginLapses(p) \/ \E g \in DOMAIN db.guestCodes : GuestJoins(p, g)
             \/ AnswerLost(p) \/ LogoutLoads(p) \/ LogoutRevokes(p) \/ LogoutDeletes(p)
      PROVE  CredInv'
  <2>1. now' = now /\ FileStays /\ excused \subseteq excused'
    BY <1>4 DEF LoginStarts, LoginPolls, PollDevice, LoginLapses, GuestJoins, Redeem, AnswerLost, LogoutLoads, LogoutRevokes,
                LogoutDeletes, serverVars, FileStays, NoFile
  <2>2. DeathsExcused
    <3>1. CASE LogoutRevokes(p)
      BY <3>1, StruckExcused DEF LogoutRevokes
    <3>2. CASE ~LogoutRevokes(p)
      <4>1. \/ db' = db \/ db' = CreateDeviceCode(db, now)
            \/ \E g \in DOMAIN db.guestCodes : db' = RedeemGuestCode(db, g)
        BY <1>4, <3>2 DEF LoginStarts, AuthorizeDevice, LoginPolls, PollDevice, LoginLapses, GuestJoins, Redeem, AnswerLost,
                          LogoutLoads, LogoutDeletes, serverVars
      <4>2. db'.refresh = db.refresh
        BY <1>0, <4>1 DEF CreateDeviceCode, RedeemGuestCode, IsTables, TableNames
      <4> QED BY <4>2, NothingStruck
    <3> QED BY <3>1, <3>2
  <2>3. \/ req' = req
        \/ /\ req[p] = Idle /\ \A q \in Procs \ {p} : req'[q] = req[q]
           /\ req'[p].what \in {"pending", "claim", "refused", "insertGuest"}
    <3>1. CASE LoginPolls(p)
      <4>1. PICK x : /\ Becomes(p, x) /\ req[p] = Idle
                     /\ x \in {Answered("pending", proc[p].item), Doing("claim", Never, proc[p].item, Never, Idle.origin), Refused}
        BY <3>1 DEF LoginPolls, PollDevice
      <4>2. Answered("pending", proc[p].item).what = "pending" /\ Refused.what = "refused"
        BY ConstantRecords DEF Answered, Idle
      <4>4. Doing("claim", Never, proc[p].item, Never, Idle.origin).what = "claim"
        BY DEF Doing
      <4>3. x.what \in {"pending", "claim", "refused", "insertGuest"}
        BY <4>1, <4>2, <4>4
      <4>5. req'[p] = x /\ \A q \in Procs \ {p} : req'[q] = req[q]
        BY <1>0, <4>1 DEF Becomes
      <4> QED BY <4>1, <4>3, <4>5
    <3>2. ASSUME NEW g \in DOMAIN db.guestCodes, GuestJoins(p, g)
          PROVE  /\ req[p] = Idle /\ \A q \in Procs \ {p} : req'[q] = req[q]
                 /\ req'[p].what \in {"pending", "claim", "refused", "insertGuest"}
      <4>1. PICK x : /\ Becomes(p, x) /\ req[p] = Idle
                     /\ x \in {Doing("insertGuest", db.guestCodes[g].user, g, Never, Idle.origin), Refused}
        BY <3>2 DEF GuestJoins, Redeem
      <4>2. /\ Doing("insertGuest", db.guestCodes[g].user, g, Never, Idle.origin).what = "insertGuest"
            /\ Refused.what = "refused"
        BY ConstantRecords DEF Doing
      <4>3. x.what \in {"pending", "claim", "refused", "insertGuest"}
        BY <4>1, <4>2
      <4>5. req'[p] = x /\ \A q \in Procs \ {p} : req'[q] = req[q]
        BY <1>0, <4>1 DEF Becomes
      <4> QED BY <4>1, <4>3, <4>5
    <3> QED BY <1>4, <3>1, <3>2 DEF LoginStarts, LoginLapses, AnswerLost, LogoutLoads, LogoutRevokes, LogoutDeletes, serverVars
  <2>4. \A q \in Procs : GoesOn(q)
    BY <2>3 DEF GoesOn, Lost, Idle
  <2>5. \A q \in Procs : LetsGo(q)
    <3>1. PICK x : /\ Goes(p, x) /\ x.pc \notin {"loaded", "rotating"}
                   /\ proc[p].pc = "rotating" => FamilyOf(proc[p].item) \in excused'
      BY <1>0, <1>4, SMTT(30) DEF LoginStarts, LoginPolls, LoginLapses, GuestJoins, AnswerLost, LogoutLoads, LogoutRevokes,
                LogoutDeletes, Resting, Working, Invocation
    <3> QED BY <1>0, <3>1 DEF Goes, LetsGo
  <2>6. CredFrame
    BY <1>0, <2>1, <2>2, <2>4, <2>5 DEF CredFrame
  <2> QED BY <2>6, CredFrameStep
<1> QED BY <1>1, <1>2, <1>3, <1>4 DEF CliStep

\* A step of the gateway leaves the invocations and the file alone.
LEMMA CredGateway ==
    ASSUME CredTypes, CredInv, RowsLast, UNCHANGED <<now, file, proc>>, excused \subseteq excused', DeathsExcused,
           \A q \in Procs : GoesOn(q)
    PROVE  CredInv'
<1>1. FileStays /\ (\A q \in Procs : LetsGo(q)) /\ now' \in Nat /\ now <= now'
  BY DEF FileStays, LetsGo, CredTypes
<1>2. CredFrame
  BY <1>1 DEF CredFrame
<1> QED BY <1>2, CredFrameStep

\* The steps of a browser: its tokens never came from a device code.
LEMMA CredBrowser ==
    ASSUME BaseInv, CredTypes, CredInv, RowsLast, NEW r \in Browsers, BrowserStep(r), ServerOnly
    PROVE  CredInv'
<1>0. /\ r \in Slots /\ r \notin Procs /\ Procs \subseteq Slots /\ req \in [Slots -> Request]
      /\ now \in Nat /\ TablesOK(db) /\ IsTables(db)
  BY ActorsAreSlots DEF BaseInv, TablesOK
<1>1. UNCHANGED <<now, file, proc>> /\ excused \subseteq excused'
  BY DEF ServerOnly, BrowserStep, Login, Authorize, Decide, Exchange, PollDevice, Refresh, Redeem, Frame
<1>2. \A q \in Procs : GoesOn(q)
  <2>1. \E x : Becomes(r, x)
    BY DEF BrowserStep, Login, Authorize, Decide, Exchange, PollDevice, Refresh, Redeem
  <2> QED BY <1>0, <2>1 DEF Becomes, GoesOn
<1>3. DeathsExcused
  <2>1. \/ db' = db \/ (\E c \in DOMAIN db.codes : db' = ConsumeAuthCode(db, c))
        \/ (\E g \in DOMAIN db.guestCodes : db' = RedeemGuestCode(db, g))
        \/ \E t \in DOMAIN db.refresh : db.refresh[t].origin[1] = "code" /\ db' = ConsumeRefreshToken(db, t, now)
    BY DEF BrowserStep, Login, Authorize, Decide, Exchange, PollDevice, Refresh, Redeem
  <2>2. CASE \/ db' = db \/ (\E c \in DOMAIN db.codes : db' = ConsumeAuthCode(db, c))
             \/ (\E g \in DOMAIN db.guestCodes : db' = RedeemGuestCode(db, g))
    <3>1. db'.refresh = db.refresh
      BY <1>0, <2>2 DEF ConsumeAuthCode, RedeemGuestCode, IsTables, TableNames
    <3> QED BY <3>1, NothingStruck
  <2>3. ASSUME NEW t \in DOMAIN db.refresh, db.refresh[t].origin[1] = "code", db' = ConsumeRefreshToken(db, t, now)
        PROVE  DeathsExcused
    <3>1. \A s \in DOMAIN db.refresh \ {t} : db'.refresh[s].status = db.refresh[s].status
      BY <1>0, <2>3, ConsumeRefreshTokenOK
    <3>2. ~FromDevice(t)
      BY <2>3 DEF FromDevice
    <3> QED BY <3>1, <3>2 DEF DeathsExcused, Live
  <2> QED BY <2>1, <2>2, <2>3
<1> QED BY <1>1, <1>2, <1>3, CredGateway

\* The steps of the gateway's handlers, and their failures.
LEMMA CredServer ==
    ASSUME BaseInv, CredTypes, CredInv, RowsLast, NEW r \in Slots, Excusing,
           ServerStep(r) \/ ResetRevokesSessions(r) \/ ResetRevokesTokens(r) \/ StoreFails(r)
    PROVE  CredInv'
<1>0. /\ Procs \subseteq Slots /\ req \in [Slots -> Request] /\ req[r] \in Request
      /\ now \in Nat /\ TablesOK(db) /\ AccessOwned(db) /\ Idle.what = "idle" /\ Refused.what = "refused"
  BY ActorsAreSlots, ConstantRecords DEF BaseInv
<1>1. UNCHANGED <<now, file, proc>> /\ excused \subseteq excused' /\ Struck \subseteq excused'
  BY DEF Excusing, ServerStep, OpenSession, IssueCode, RecordDecision, Claim, MintRefresh, MintAccess,
         InsertGuest, MintGuest, ResetRevokesSessions, ResetRevokesTokens, StoreFails, Frame
<1>2. DeathsExcused
  BY <1>1, StruckExcused
<1>3. ASSUME NEW x, Becomes(r, x)
      PROVE  req'[r] = x /\ \A q \in Procs \ {r} : req'[q] = req[q] /\ GoesOn(q)
  BY <1>0, <1>3 DEF Becomes, GoesOn
<1>4. ASSUME Becomes(r, Refused) PROVE CredInv'
  <2>1. req'[r].what = "refused"
    BY <1>0, <1>3, <1>4
  <2>2. Lost(r)
    BY <2>1, RefusalExcused
  <2>3. \A q \in Procs : GoesOn(q)
    BY <1>3, <1>4, <2>1, <2>2 DEF GoesOn
  <2> QED BY <1>1, <1>2, <2>3, CredGateway
<1>5. ASSUME NEW x, Becomes(r, x), x.what \notin {"mintRefresh", "mintAccess", "pair", "reuse"},
             req[r].what \notin {"mintRefresh", "mintAccess", "pair"}
      PROVE  CredInv'
  <2>1. Lost(r)
    BY <1>5 DEF Lost
  <2>2. \A q \in Procs : GoesOn(q)
    BY <1>3, <1>5, <2>1 DEF GoesOn
  <2> QED BY <1>1, <1>2, <2>2, CredGateway
<1>6. CASE OpenSession(r) \/ IssueCode(r) \/ RecordDecision(r) \/ ResetRevokesTokens(r)
  <2>1. Becomes(r, Idle) /\ req[r].what \notin {"mintRefresh", "mintAccess", "pair"}
    BY <1>6 DEF OpenSession, IssueCode, RecordDecision, ResetRevokesTokens
  <2> QED BY <1>0, <1>5, <2>1
<1>7. CASE ResetRevokesSessions(r)
  <2>1. Becomes(r, [req[r] EXCEPT !.what = "resetTokens"]) /\ req[r].what = "resetSessions"
    BY <1>7 DEF ResetRevokesSessions
  <2>2. [req[r] EXCEPT !.what = "resetTokens"].what = "resetTokens"
    BY <1>0 DEF Request
  <2> QED BY <1>5, <2>1, <2>2
<1>8. CASE InsertGuest(r)
  <2>1. PICK x : Becomes(r, x) /\ x.what \in {"mintGuest", "refused"} /\ req[r].what = "insertGuest"
    BY <1>0, <1>8 DEF InsertGuest, Doing
  <2> QED BY <1>5, <2>1
<1>9. CASE MintGuest(r)
  <2>0. \A i : Answered("guest", i).what = "guest"
    BY DEF Answered, Idle
  <2>1. PICK x : Becomes(r, x) /\ x.what \in {"guest", "refused"} /\ req[r].what = "mintGuest"
    BY <1>0, <1>9, <2>0 DEF MintGuest
  <2> QED BY <1>5, <2>1
<1>10. CASE StoreFails(r)
  BY <1>4, <1>10 DEF StoreFails
<1>11. CASE Claim(r)
  <2> DEFINE d == req[r].item
             x == Doing("mintRefresh", db.devices[d].user, Never, Never, <<"device", d>>)
  <2>1. CASE Becomes(r, x)
    <3>1. x.what = "mintRefresh" /\ x.origin[1] = "device"
      BY DEF Doing
    <3> HIDE DEF x
    <3>2. GoesOn(r)
      BY <1>3, <1>11, <2>1, <3>1 DEF GoesOn, Claim
    <3>3. \A q \in Procs : GoesOn(q)
      BY <1>3, <2>1, <3>2
    <3> QED BY <1>1, <1>2, <3>3, CredGateway
  <2> QED BY <1>4, <1>11, <2>1 DEF Claim
<1>12. CASE MintAccess(r)
  <2> DEFINE x == Answered("pair", req[r].item)
  <2>1. CASE Becomes(r, x)
    <3>1. x.what = "pair" /\ x.item = req[r].item
      BY DEF Answered, Idle
    <3> HIDE DEF x
    <3>2. GoesOn(r)
      BY <1>3, <1>12, <2>1, <3>1 DEF GoesOn, MintAccess
    <3>3. \A q \in Procs : GoesOn(q)
      BY <1>3, <2>1, <3>2
    <3> QED BY <1>1, <1>2, <3>3, CredGateway
  <2> QED BY <1>4, <1>12, <2>1 DEF MintAccess
<1>13. CASE MintRefresh(r)
  <2> DEFINE n == Len(db.refresh) + 1
             x == [req[r] EXCEPT !.what = "mintAccess", !.item = n]
             u == req[r].user
             f == req[r].family
             o == req[r].origin
  <2>0. req[r].what = "mintRefresh" /\ u \in Nat /\ f \in Nat /\ o \in Origins
    BY <1>0, <1>13 DEF MintRefresh, Request
  <2>1. CASE db' = MintRefreshToken(db, u, f, o, now) /\ Becomes(r, x)
    <3>1. n = Len(db.refresh) + 1 /\ n \in Nat
      BY SeqFacts DEF BaseInv, TablesOK
    <3>2. x.what = "mintAccess" /\ x.item = n
      BY <1>0 DEF Request
    <3>3. req'[r] = x /\ \A q \in Procs \ {r} : req'[q] = req[q] /\ GoesOn(q)
      BY <1>3, <2>1
    <3> HIDE DEF n, x, u, f, o
    <3>4. AddsRefresh(db, db', n, u, f, o)
      BY <1>0, <2>0, <2>1, <3>1, MintRefreshTokenOK
    <3>5. /\ n \notin DOMAIN db.refresh /\ n # Never
          /\ \A t \in DOMAIN db.refresh : db'.refresh[t] = db.refresh[t]
          /\ db'.refresh[n].status = "live" /\ db'.refresh[n].origin = o
          /\ f # Never => db'.refresh[n].family = f
      BY <3>4 DEF AddsRefresh, Never
    <3>6. CASE r \in Procs
      <4>1. /\ db'.refresh[n].origin = req[r].origin /\ (req[r].family # Never => db'.refresh[n].family = req[r].family)
            /\ req'[r].what = "mintAccess" /\ req'[r].item = n
            /\ \A q \in Procs \ {r} : req'[q] = req[q]
        BY <3>2, <3>3, <3>5 DEF f, o
      <4> QED BY <1>1, <2>0, <3>5, <3>6, <4>1, CredInserts
    <3>7. CASE r \notin Procs
      <4>1. \A q \in Procs : GoesOn(q)
        BY <3>3, <3>7
      <4> QED BY <1>1, <1>2, <4>1, CredGateway
    <3> QED BY <3>6, <3>7
  <2> QED BY <1>4, <1>13, <2>1 DEF MintRefresh
<1> QED BY <1>6, <1>7, <1>8, <1>9, <1>10, <1>11, <1>12, <1>13 DEF ServerStep

\* A reuse that is found in time strikes nothing the file depends on.
LEMMA CredReuse ==
    ASSUME BaseInv, CredTypes, CredInv, RowsLast, NEW r \in Slots, DetectReuse(r), UNCHANGED <<file, proc>>,
           excused' = excused \cup (IF SlowReplay(r) THEN Struck ELSE {})
    PROVE  CredInv'
<1>0. /\ Procs \subseteq Slots /\ req \in [Slots -> Request] /\ req[r].what = "reuse" /\ now \in Nat /\ TablesOK(db)
      /\ Refused.what = "refused" /\ Becomes(r, Refused) /\ now' = now /\ ReqOK(db, req[r]) /\ RowsTyped
  BY ActorsAreSlots, ConstantRecords, RowsHaveTypes DEF BaseInv, DetectReuse, Frame
<1>1. UNCHANGED <<now, file, proc>> /\ excused \subseteq excused'
  BY <1>0
<1>2. \A q \in Procs : GoesOn(q)
  <2>1. req'[r].what = "refused" /\ \A q \in Procs \ {r} : req'[q] = req[q]
    BY <1>0 DEF Becomes
  <2> QED BY <1>0, <2>1 DEF GoesOn, Lost
<1>3. DeathsExcused
  <2>1. CASE SlowReplay(r)
    BY <2>1, StruckExcused
  <2>2. CASE ~SlowReplay(r)
    <3> DEFINE t == req[r].item
               f == db.refresh[t].family
    <3>1. /\ r \in Procs /\ now - proc[r].at < Grace - Quick
          /\ ~ \E q \in Procs \ {r} : proc[q].pc = "rotating" /\ proc[q].item = t
      <4>1. proc[r].at \in Nat /\ Grace \in Nat /\ Quick \in Nat
        BY <2>2, QuickAssumption, TTLs DEF SlowReplay, CredTypes
      <4> QED BY <1>0, <2>2, <4>1 DEF SlowReplay
    <3>2. t \in DOMAIN db.refresh /\ f \in Nat
      BY <1>0 DEF ReqOK, RowsTyped
    <3>3. CASE ~ReuseDetected(db, t, now)
      <4>1. db' = db
        BY <3>3 DEF DetectReuse
      <4> QED BY <4>1, NothingStruck
    <3>4. CASE ReuseDetected(db, t, now)
      <4>1. db' = RevokeFamily(db, f, now) /\ ~Live(t) /\ db.refresh[t].at <= now - Grace
        BY <3>4 DEF DetectReuse, ReuseDetected, Live
      <4>2. f \in excused
        <5> SUFFICES ASSUME f \notin excused PROVE FALSE
          OBVIOUS
        <5>1. proc[r].pc = "rotating" /\ proc[r].item = t /\ r \in Holding /\ ~Carrying(r)
          BY <1>0, <3>1 DEF CredInv, OwnReuse, FamilyOf, Holding, Carrying
        <5>2. ~ \E q \in Procs \ {r} : Replacing(q, t)
          BY <3>1 DEF Replacing
        <5>3. proc[r].at <= db.refresh[t].at + Quick
          BY <4>1, <5>1, <5>2 DEF CredInv, Replays, FamilyOf
        <5>4. /\ proc[r].at \in Nat /\ Grace \in Nat /\ Quick \in Nat /\ db.refresh[t].at \in Nat /\ now \in Nat
          BY <1>0, <3>1, <3>2, QuickAssumption, TTLs DEF CredTypes
        <5> HIDE DEF t
        <5> QED BY <3>1, <4>1, <5>3, <5>4
      <4> HIDE DEF f
      <4>3. \A s \in DOMAIN db.refresh : db.refresh[s].family # f => db'.refresh[s].status = db.refresh[s].status
        BY <1>0, <4>1, RevokeFamilyOK
      <4> QED BY <1>1, <4>2, <4>3 DEF DeathsExcused, Live, FamilyOf
    <3> QED BY <3>3, <3>4
  <2> QED BY <2>1, <2>2
<1> QED BY <1>1, <1>2, <1>3, CredGateway

\* What the administrator revokes is excused.
LEMMA CredAdministration ==
    ASSUME BaseInv, CredTypes, CredInv, RowsLast, Administration
    PROVE  CredInv'
<1> USE DEF Frame
<1>0. /\ Procs \subseteq Slots /\ Browsers \subseteq Slots /\ Procs \cap Browsers = {} /\ req \in [Slots -> Request]
      /\ TablesOK(db) /\ IsTables(db) /\ Refused.what = "refused"
  BY ActorsAreSlots, ConstantRecords DEF BaseInv, TablesOK
<1>1. UNCHANGED <<now, file, proc>> /\ excused \subseteq excused'
  BY DEF Administration, ServerOnly, Excusing, Setup, CreateUser, SweepGuests, MintGuestCode,
         WithdrawGuestCode, Logout, AuthorizePromptLogin, ResetPassword, DeleteUser, Revoke, GatewayRestart
<1>2. CASE Excusing
  <2>1. DeathsExcused
    BY <1>2, StruckExcused DEF Excusing
  <2>2. \A q \in Slots : req'[q] = req[q] \/ req'[q] = Refused \/ q \notin Procs
    BY <1>0 DEF Administration, Setup, CreateUser, SweepGuests, MintGuestCode,
                WithdrawGuestCode, Logout, AuthorizePromptLogin, ResetPassword, DeleteUser, Revoke, GatewayRestart, Becomes
  <2>3. \A q \in Procs : GoesOn(q)
    <3>1. ASSUME NEW q \in Procs, req'[q] = Refused PROVE GoesOn(q)
      <4>1. req'[q].what = "refused" /\ q \in Slots
        BY <1>0, <3>1
      <4>2. Lost(q)
        BY <1>2, <4>1, RefusalExcused
      <4> QED BY <4>1, <4>2 DEF GoesOn
    <3> QED BY <1>0, <2>2, <3>1 DEF GoesOn
  <2> QED BY <1>1, <2>1, <2>3, CredGateway
<1>3. CASE ~Excusing
  <2>1. /\ \/ Setup \/ CreateUser
           \/ \E u \in DOMAIN db.users : MintGuestCode(u)
           \/ \E g \in DOMAIN db.guestCodes : WithdrawGuestCode(g)
           \/ \E s \in DOMAIN db.sessions : Logout(s) \/ AuthorizePromptLogin(s)
           \/ \E r \in Browsers, u \in DOMAIN db.users : ResetPassword(r, u)
    BY <1>3 DEF Administration
  <2>2. \A q \in Procs : req'[q] = req[q]
    BY <1>0, <2>1 DEF Setup, CreateUser, MintGuestCode, WithdrawGuestCode, Logout, AuthorizePromptLogin,
                      ResetPassword, Becomes
  <2>3. \/ db' = db \/ (\E role, h, e : db' = InsertUser(db, role, h, e))
        \/ (\E u, n, t : db' = CreateGuestCode(db, u, n, t)) \/ (\E u, g : db' = RevokeGuestCode(db, u, g))
        \/ \E s : db' = RevokeSession(db, s)
    BY <2>1 DEF Setup, SetMasterPassword, CreateUser, MintGuestCode, WithdrawGuestCode, Logout, AuthorizePromptLogin,
                ResetPassword
  <2>4. db'.refresh = db.refresh
    BY <1>0, <2>3 DEF InsertUser, CreateGuestCode, RevokeGuestCode, RevokeSession, IsTables, TableNames
  <2>5. DeathsExcused /\ \A q \in Procs : GoesOn(q)
    BY <2>2, <2>4, NothingStruck DEF GoesOn
  <2> QED BY <1>1, <2>5, CredGateway
<1> QED BY <1>2, <1>3

\* So the credential survives every step.
LEMMA CredStep == ASSUME AccountsInv, CredInv, [Next]_vars PROVE CredInv'
<1>0. BaseInv /\ Matched /\ ChainInv
  BY DEF AccountsInv
<1>1. CredTypes /\ RowsLast
  BY <1>0, TypesOfCredentials, NextShape, ShapeRows
<1>2. ASSUME NEW p \in Procs, CliStep(p) PROVE CredInv'
  BY <1>0, <1>1, <1>2, CredCli
<1>3. ASSUME NEW r \in Browsers, BrowserStep(r), ServerOnly PROVE CredInv'
  BY <1>0, <1>1, <1>3, CredBrowser
<1>4. ASSUME NEW r \in Slots, Excusing,
             ServerStep(r) \/ ResetRevokesSessions(r) \/ ResetRevokesTokens(r) \/ StoreFails(r)
      PROVE  CredInv'
  BY <1>0, <1>1, <1>4, CredServer
<1>5. ASSUME NEW r \in Slots, DetectReuse(r), UNCHANGED <<file, proc>>,
             excused' = excused \cup (IF SlowReplay(r) THEN Struck ELSE {})
      PROVE  CredInv'
  BY <1>0, <1>1, <1>5, CredReuse
<1>6. ASSUME NEW r \in Slots, Discarded(r) PROVE CredInv'
  <2>1. /\ UNCHANGED <<now, file, proc>> /\ excused' = excused /\ db' = db
        /\ req[r].what \in {"pair", "guest", "pending", "refused"} /\ (r \in Procs => proc[r].pc = "rest")
        /\ Becomes(r, Idle)
    BY <1>6 DEF Discarded, Frame, Resting
  <2>2. Procs \subseteq Slots /\ req \in [Slots -> Request] /\ Idle.what = "idle"
    BY <1>0, ActorsAreSlots, ConstantRecords DEF BaseInv
  <2>3. \A q \in Procs : GoesOn(q)
    BY <2>1, <2>2 DEF Becomes, GoesOn
  <2>4. DeathsExcused
    BY <2>1, NothingStruck
  <2> QED BY <1>1, <2>1, <2>3, <2>4, CredGateway
<1>7. CASE Administration
  BY <1>0, <1>1, <1>7, CredAdministration
<1>8. CASE (Tick /\ ServerOnly) \/ UNCHANGED vars
  <2>1. /\ now' \in Nat /\ now <= now' /\ db' = db /\ req' = req /\ proc' = proc /\ file' = file /\ excused' = excused
    BY <1>1, <1>8 DEF Tick, ServerOnly, vars, serverVars, CredTypes
  <2>2. DeathsExcused
    BY <2>1, NothingStruck
  <2>3. CredFrame
    BY <1>1, <2>1, <2>2 DEF CredFrame, FileStays, GoesOn, LetsGo
  <2> QED BY <1>1, <2>3, CredFrameStep
<1> QED BY <1>2, <1>3, <1>4, <1>5, <1>6, <1>7, <1>8 DEF Next

\* The refresh token in the token file stays good through every interleaving of
\* invocations that load, rotate and save it, until somebody signs out or revokes
\* it: a rotation that is lost, or a replay or a save slower than the grace allows,
\* is the one excuse.
THEOREM TheCredentialSurvives == Spec => []CredentialSurvives
<1>1. Init => CredInv
  <2> SUFFICES ASSUME Init PROVE CredInv
    OBVIOUS
  <2>1. /\ \A r \in Procs : req[r].what = "idle" /\ proc[r].pc = "rest"
        /\ file.kind = "none"
    BY ActorsAreSlots DEF Init, ServerInit, Idle, Resting, NoFile
  <2> QED BY <2>1 DEF CredInv, DeviceOnly, Unheld, InTransit, OwnReuse, OwnFamily, Replays, Loaded,
                      CredentialSurvives, Holding, InHand
<1>2. AccountsInv /\ CredInv /\ [Next]_vars => CredInv'
  BY CredStep
<1>3. CredInv => CredentialSurvives
  BY DEF CredInv
<1> QED BY <1>1, <1>2, <1>3, AccountsInvariant, PTL DEF Spec

-----------------------------------------------------------------------------
(* Playlists.                                                                *)

Had(l) == IF l \in DOMAIN members THEN members[l] ELSE <<>>
Acting == [step : {"act"}, e : Edits]
Inserting == [step : {"insert"}, e : Edits, stale : BOOLEAN, had : Seq(Named)]

ListsType ==
    /\ DOMAIN members = DOMAIN rows
    /\ \A l \in DOMAIN members : members[l] \in Seq(Named)
    /\ edit \in [Writers -> {NoEdit} \cup Acting \cup Inserting]

\* A transaction that nobody outdated has read what is there.
ReadsHold ==
    \A w \in Writers :
        edit[w].step = "insert" /\ ~edit[w].stale => edit[w].had = Had(edit[w].e.list)

ListsInv == ListsType /\ ReadsHold /\ MembersOnce

\* What an append adds repeats neither a member nor itself.
LEMMA FreshFacts ==
    ASSUME NEW had \in Seq(Named), NEW tracks \in Seq(Named)
    PROVE  LET fresh == FreshTracks(had, tracks)
           IN  /\ fresh \in Seq(Named)
               /\ \A i \in DOMAIN fresh : \A j \in DOMAIN had : fresh[i] # had[j]
               /\ \A i, j \in DOMAIN fresh : fresh[i] = fresh[j] => i = j
<1> DEFINE K == {n \in DOMAIN tracks : /\ tracks[n] \notin ToSet(had)
                                       /\ \A m \in 1 .. n - 1 : tracks[m] # tracks[n]}
           fresh == FreshTracks(had, tracks)
           order == Increasing(K)
<1>1. fresh = AtPlaces(tracks, K)
  BY DEF FreshTracks
<1>2. K \in SUBSET (1 .. Len(tracks)) /\ Len(tracks) \in Nat
  BY SeqFacts
<1>3. /\ fresh \in Seq(Named) /\ order \in [DOMAIN fresh -> K]
      /\ \A i, j \in DOMAIN fresh : i < j => order[i] < order[j]
      /\ \A n \in DOMAIN fresh : fresh[n] = tracks[order[n]]
  <2> HIDE DEF K, fresh
  <2> QED BY <1>1, <1>2, AtPlacesProperties
<1> HIDE DEF fresh, order
<1>4. ASSUME NEW i \in DOMAIN fresh, NEW j \in DOMAIN had PROVE fresh[i] # had[j]
  <2>1. order[i] \in K
    BY <1>3
  <2> QED BY <1>3, <2>1 DEF ToSet
<1>5. ASSUME NEW i \in DOMAIN fresh, NEW j \in DOMAIN fresh, i < j PROVE fresh[i] # fresh[j]
  <2>1. order[i] \in K /\ order[j] \in K /\ order[i] < order[j]
    BY <1>3, <1>5
  <2>2. order[i] \in 1 .. order[j] - 1
    BY <1>2, <2>1
  <2>3. tracks[order[i]] # tracks[order[j]]
    BY <2>1, <2>2
  <2> QED BY <1>3, <2>3
<1>6. DOMAIN fresh \subseteq Nat
  BY <1>3, SeqFacts
<1>7. \A i, j \in DOMAIN fresh : fresh[i] = fresh[j] => i = j
  <2> SUFFICES ASSUME NEW i \in DOMAIN fresh, NEW j \in DOMAIN fresh, fresh[i] = fresh[j], i # j PROVE FALSE
    OBVIOUS
  <2>1. i < j \/ j < i
    BY <1>6
  <2> QED BY <1>5, <2>1
<1> QED BY <1>3, <1>4, <1>7 DEF fresh

\* Adding them leaves a list that repeats nothing.
LEMMA AppendKeepsOnce ==
    ASSUME NEW had \in Seq(Named), NEW tracks \in Seq(Named)
    PROVE  LET both == had \o FreshTracks(had, tracks)
           IN  both \in Seq(Named) /\ (IsInjective(had) => IsInjective(both))
<1> DEFINE fresh == FreshTracks(had, tracks)
           both == had \o fresh
<1>1. /\ fresh \in Seq(Named)
      /\ \A i \in DOMAIN fresh : \A j \in DOMAIN had : fresh[i] # had[j]
      /\ \A i, j \in DOMAIN fresh : fresh[i] = fresh[j] => i = j
  BY FreshFacts
<1> HIDE DEF fresh
<1>2. both \in Seq(Named)
  BY <1>1
<1>3. ASSUME IsInjective(had), NEW i \in DOMAIN both, NEW j \in DOMAIN both, both[i] = both[j]
      PROVE  i = j
  <2>1. Len(had) \in Nat /\ DOMAIN had = 1 .. Len(had) /\ Len(fresh) \in Nat /\ DOMAIN fresh = 1 .. Len(fresh)
    BY <1>1, SeqFacts
  <2>2. \A n \in DOMAIN both : /\ n \in 1 .. Len(had) + Len(fresh)
                               /\ n \in DOMAIN had => both[n] = had[n]
                               /\ n \notin DOMAIN had => n - Len(had) \in DOMAIN fresh /\ both[n] = fresh[n - Len(had)]
    BY <1>1, <2>1
  <2>3. \A m, n \in DOMAIN had : had[m] = had[n] => m = n
    BY <1>3 DEF IsInjective
  <2> HIDE DEF both
  <2>4. CASE i \in DOMAIN had /\ j \in DOMAIN had
    BY <1>3, <2>2, <2>3, <2>4
  <2>5. CASE i \notin DOMAIN had /\ j \notin DOMAIN had
    <3>1. i - Len(had) = j - Len(had)
      BY <1>1, <1>3, <2>2, <2>5
    <3> QED BY <2>1, <2>2, <3>1
  <2>6. CASE (i \in DOMAIN had) # (j \in DOMAIN had)
    BY <1>1, <1>3, <2>2, <2>6
  <2> QED BY <2>4, <2>5, <2>6
<1> QED BY <1>2, <1>3 DEF IsInjective, fresh


\* A request at its act or its insert.
LEMMA EditFacts ==
    ASSUME ListsType, NEW w \in Writers
    PROVE  /\ edit[w].step = "act" => edit[w] \in Acting
           /\ edit[w].step = "insert" => edit[w] \in Inserting
           /\ NoEdit.step = "idle"
BY DEF ListsType, NoEdit, Acting, Inserting

\* A commit leaves no transaction that reads what is no longer there.
LEMMA CommitOutdates ==
    ASSUME ListsType, NEW w \in Writers, Committed(w, NoEdit)
    PROVE  edit' \in [Writers -> {NoEdit} \cup Acting \cup Inserting] /\ ReadsHold'
<1>1. ASSUME NEW v \in Writers
      PROVE  /\ edit'[v] \in {NoEdit} \cup Acting \cup Inserting
             /\ edit'[v].step = "insert" => edit'[v].stale
  <2>1. CASE v = w
    BY <2>1, EditFacts DEF Committed
  <2>2. CASE v # w /\ edit[v].step = "insert"
    <3> DEFINE r == [edit[v] EXCEPT !.stale = TRUE]
    <3>1. edit'[v] = r
      BY <2>2 DEF Committed
    <3>2. edit[v] \in Inserting
      BY <2>2, EditFacts
    <3>3. r \in Inserting /\ r.stale = TRUE
      BY <3>2 DEF Inserting
    <3> HIDE DEF r
    <3> QED BY <3>1, <3>3
  <2>3. CASE v # w /\ edit[v].step # "insert"
    <3>1. edit'[v] = edit[v]
      BY <2>3 DEF Committed
    <3> QED BY <2>3, <3>1 DEF ListsType
  <2> QED BY <2>1, <2>2, <2>3
<1>2. edit' = [v \in Writers |-> edit'[v]]
  BY DEF Committed
<1> QED BY <1>1, <1>2 DEF ReadsHold

\* A request that goes on without a commit, having read what is there if it read.
LEMMA NoWrite ==
    ASSUME ListsInv, NEW w \in Writers, NEW to \in {NoEdit} \cup Acting \cup Inserting,
           Moves(w, to), UNCHANGED <<rows, members, replaced>>,
           to.step = "insert" => to.had = Had(to.e.list)
    PROVE  ListsInv'
<1>1. edit' \in [Writers -> {NoEdit} \cup Acting \cup Inserting]
      /\ \A v \in Writers : edit'[v] = IF v = w THEN to ELSE edit[v]
  BY DEF ListsInv, ListsType, Moves
<1>2. ListsType'
  BY <1>1 DEF ListsInv, ListsType
<1>3. \A l : Had(l)' = Had(l)
  BY DEF Had
<1>4. ReadsHold'
  BY <1>1, <1>3 DEF ListsInv, ReadsHold
<1> QED BY <1>2, <1>4 DEF ListsInv, MembersOnce

\* Creating, and the steps that write nothing.
LEMMA PlainSteps ==
    ASSUME ListsInv, NEW w \in Writers,
           \/ \E e \in Edits : Create(w, e) \/ Load(w, e)
           \/ Patch(w) \/ AppendRead(w)
    PROVE  ListsInv'
<1>1. ListsType /\ MembersOnce
  BY DEF ListsInv
<1>2. ASSUME NEW e \in Edits, Create(w, e) PROVE ListsInv'
  <2>1. /\ DOMAIN rows' = DOMAIN rows \cup {e.list} /\ DOMAIN members' = DOMAIN members \cup {e.list}
        /\ \A l \in DOMAIN members' : members'[l] = IF l = e.list THEN <<>> ELSE members[l]
        /\ replaced' = replaced
    BY <1>2 DEF Create, With
  <2>2. <<>> \in Seq(Named) /\ IsInjective(<<>>)
    BY DEF IsInjective
  <2>3. edit' \in [Writers -> {NoEdit} \cup Acting \cup Inserting] /\ ReadsHold'
    BY <1>1, <1>2, CommitOutdates DEF Create
  <2>4. ListsType'
    BY <1>1, <2>1, <2>2, <2>3 DEF ListsType
  <2>5. MembersOnce'
    BY <1>1, <2>1, <2>2 DEF MembersOnce
  <2> QED BY <2>3, <2>4, <2>5 DEF ListsInv
<1>3. ASSUME NEW e \in Edits, Load(w, e) PROVE ListsInv'
  <2> DEFINE to == IF MayWrite(e) /\ Owned(e) THEN [step |-> "act", e |-> e] ELSE NoEdit
  <2>1. to \in {NoEdit} \cup Acting \cup Inserting /\ to.step # "insert"
    BY DEF Acting, NoEdit
  <2>2. Moves(w, to) /\ UNCHANGED <<rows, members, replaced>>
    BY <1>3 DEF Load
  <2> HIDE DEF to
  <2> QED BY <2>1, <2>2, NoWrite
<1>4. CASE Patch(w)
  <2>1. DOMAIN rows' = DOMAIN rows /\ UNCHANGED <<members, replaced>>
    BY <1>4 DEF Patch
  <2>2. edit' \in [Writers -> {NoEdit} \cup Acting \cup Inserting] /\ ReadsHold'
    BY <1>1, <1>4, CommitOutdates DEF Patch
  <2> QED BY <1>1, <2>1, <2>2 DEF ListsInv, ListsType, MembersOnce
<1>5. CASE AppendRead(w)
  <2> DEFINE l == edit[w].e.list
             to == [step |-> "insert", e |-> edit[w].e, stale |-> FALSE, had |-> Had(l)]
  <2>1. edit[w] \in Acting
    BY <1>1, <1>5, EditFacts DEF AppendRead
  <2>2. Had(l) \in Seq(Named)
    BY <1>1 DEF Had, ListsType
  <2>3. to \in Inserting /\ to.had = Had(to.e.list)
    BY <2>1, <2>2 DEF Acting, Inserting
  <2>4. Moves(w, to) /\ UNCHANGED <<rows, members, replaced>>
    BY <1>5 DEF AppendRead, Had
  <2> HIDE DEF to
  <2> QED BY <2>3, <2>4, NoWrite
<1> QED BY <1>2, <1>3, <1>4, <1>5

\* Deleting, replacing and inserting.
LEMMA WritingSteps ==
    ASSUME ListsInv, NEW w \in Writers, Delete(w) \/ Replace(w) \/ AppendInsert(w)
    PROVE  ListsInv'
<1>1. ListsType /\ MembersOnce /\ ReadsHold
  BY DEF ListsInv
<1>2. CASE Delete(w)
  <2> DEFINE l == edit[w].e.list
  <2>1. /\ DOMAIN rows' = DOMAIN rows \ {l} /\ DOMAIN members' = DOMAIN members \ {l}
        /\ \A k \in DOMAIN members' : members'[k] = members[k]
        /\ replaced' = replaced
    BY <1>2 DEF Delete, Without
  <2>2. edit' \in [Writers -> {NoEdit} \cup Acting \cup Inserting] /\ ReadsHold'
    BY <1>1, <1>2, CommitOutdates DEF Delete
  <2> HIDE DEF l
  <2> QED BY <1>1, <2>1, <2>2 DEF ListsInv, ListsType, MembersOnce
<1>3. CASE Replace(w)
  <2> DEFINE l == edit[w].e.list
             tracks == edit[w].e.tracks
  <2>1. tracks \in Seq(Named)
    BY <1>1, <1>3, EditFacts, EditsAssumption DEF Replace, Acting
  <2>2. edit' \in [Writers -> {NoEdit} \cup Acting \cup Inserting] /\ ReadsHold' /\ rows' = rows
    BY <1>1, <1>3, CommitOutdates DEF Replace
  <2>3. CASE l \in DOMAIN rows
    <3>1. members' = [members EXCEPT ![l] = tracks] /\ replaced' = replaced \cup {l}
      BY <1>3, <2>3 DEF Replace
    <3> HIDE DEF l, tracks
    <3>2. /\ DOMAIN members' = DOMAIN members
          /\ \A k \in DOMAIN members : members'[k] = IF k = l THEN tracks ELSE members[k]
      BY <3>1
    <3> QED BY <1>1, <2>1, <2>2, <3>1, <3>2 DEF ListsInv, ListsType, MembersOnce
  <2>4. CASE l \notin DOMAIN rows
    <3>1. UNCHANGED <<members, replaced>>
      BY <1>3, <2>4 DEF Replace
    <3> QED BY <1>1, <2>2, <3>1 DEF ListsInv, ListsType, MembersOnce
  <2> QED BY <2>3, <2>4
<1>4. CASE AppendInsert(w)
  <2> DEFINE l == edit[w].e.list
             tracks == edit[w].e.tracks
             fresh == FreshTracks(edit[w].had, tracks)
  <2>1. edit[w] \in Inserting /\ edit[w].step = "insert"
    BY <1>1, <1>4, EditFacts DEF AppendInsert
  <2>2. tracks \in Seq(Named) /\ edit[w].had \in Seq(Named)
    BY <2>1, EditsAssumption DEF Inserting
  <2>3. CASE InsertRefused(w) \/ l \notin DOMAIN rows \/ fresh = <<>>
    <3>1. Moves(w, NoEdit) /\ UNCHANGED <<rows, members, replaced>>
      BY <1>4, <2>3 DEF AppendInsert
    <3>2. NoEdit.step # "insert" /\ NoEdit \in {NoEdit} \cup Acting \cup Inserting
      BY DEF NoEdit
    <3> QED BY <3>1, <3>2, NoWrite
  <2>4. CASE ~(InsertRefused(w) \/ l \notin DOMAIN rows \/ fresh = <<>>)
    <3>1. Committed(w, NoEdit) /\ members' = [members EXCEPT ![l] = @ \o fresh] /\ UNCHANGED <<rows, replaced>>
      BY <1>4, <2>4 DEF AppendInsert
    <3>2. edit[w].had = members[l] /\ l \in DOMAIN members
      BY <1>1, <2>1, <2>4 DEF ReadsHold, ListsType, Had, InsertRefused
    <3> HIDE DEF l, tracks
    <3>3. /\ DOMAIN members' = DOMAIN members
          /\ \A k \in DOMAIN members : members'[k] = IF k = l THEN edit[w].had \o fresh ELSE members[k]
      BY <3>1, <3>2
    <3>4. edit[w].had \o fresh \in Seq(Named) /\ (IsInjective(edit[w].had) => IsInjective(edit[w].had \o fresh))
      BY <2>2, AppendKeepsOnce
    <3> HIDE DEF fresh
    <3>5. edit' \in [Writers -> {NoEdit} \cup Acting \cup Inserting] /\ ReadsHold'
      BY <1>1, <3>1, CommitOutdates
    <3>6. ListsType'
      BY <1>1, <3>1, <3>3, <3>4, <3>5 DEF ListsType
    <3>7. MembersOnce'
      BY <1>1, <3>1, <3>2, <3>3, <3>4 DEF MembersOnce
    <3> QED BY <3>5, <3>6, <3>7 DEF ListsInv
  <2> QED BY <2>3, <2>4
<1> QED BY <1>2, <1>3, <1>4

\* playlists/store.rs: however requests interleave between their read and their
\* write, a playlist has a track twice only where a replace wrote it twice.
THEOREM MembersStayOnce == PlaylistsInit /\ [][PlaylistsNext]_listVars => []MembersOnce
<1>1. PlaylistsInit => ListsInv
  <2> SUFFICES ASSUME PlaylistsInit PROVE ListsInv
    OBVIOUS
  <2>1. DOMAIN rows = {} /\ DOMAIN members = {} /\ edit \in [Writers -> {NoEdit}]
    BY DEF PlaylistsInit
  <2>2. \A w \in Writers : edit[w].step = "idle"
    BY <2>1 DEF NoEdit
  <2> QED BY <2>1, <2>2 DEF ListsInv, ListsType, ReadsHold, MembersOnce
<1>2. ListsInv /\ [PlaylistsNext]_listVars => ListsInv'
  <2> SUFFICES ASSUME ListsInv, [PlaylistsNext]_listVars PROVE ListsInv'
    OBVIOUS
  <2>1. CASE PlaylistsNext
    BY <2>1, PlainSteps, WritingSteps DEF PlaylistsNext
  <2>2. CASE UNCHANGED listVars
    BY <2>2 DEF listVars, ListsInv, ListsType, ReadsHold, MembersOnce, Had
  <2> QED BY <2>1, <2>2
<1>3. ListsInv => MembersOnce
  BY DEF ListsInv
<1> QED BY <1>1, <1>2, <1>3, PTL

-----------------------------------------------------------------------------
(* The listener's signals.  What requests hold: events with their sessions   *)
(* on the way to the log, then folds on the way to the counters.             *)

Bearers == {r \in Signals : r.kind # "vote"}
LogRow == [event : Sent, session : Int]
Listening == [id : Int, last : Nat]

\* The folds a request has yet to make.
Due(x) == IF x.step \in {"read", "write"} THEN x.todo ELSE <<>>

TasteSteps == {"idle", "stamp", "append", "read", "write"}
IsFolds(todo) == \E S : todo \in Seq(S)

RequestOK(x) ==
    /\ x.step \in TasteSteps
    /\ x.step \in {"stamp", "append"} =>
         /\ DOMAIN x = {"step", "req", "sessions"}
         /\ x.req \in Bearers /\ x.sessions \in Seq(Int)
         /\ Len(x.sessions) <= Len(x.req.batch)
         /\ x.step = "stamp" => Len(x.sessions) < Len(x.req.batch)
         /\ x.step = "append" => Len(x.sessions) = Len(x.req.batch)
    /\ x.step \in {"read", "write"} => IsFolds(x.todo) /\ x.todo # <<>>
    /\ x.step = "write" => DOMAIN x = {"step", "todo", "req", "stale", "row"}

TasteOK ==
    /\ DOMAIN handler = Handlers /\ \A h \in Handlers : RequestOK(handler[h])
    /\ events \in Seq(LogRow)
    /\ listen \in {Nothing} \cup Listening
    /\ severed \in BOOLEAN

\* What a batch is.
LEMMA BatchFacts ==
    ASSUME NEW r \in Bearers
    PROVE  /\ r.batch \in Seq(Sent) /\ Len(r.batch) \in Nat \ {0} /\ DOMAIN r.batch = 1 .. Len(r.batch)
           /\ \A i \in DOMAIN r.batch : r.batch[i] \in Sent
<1>1. r.batch \in Seq(Sent) /\ r.batch # <<>>
  BY TasteAssumption DEF Bearers
<1>2. Len(r.batch) # 0
  BY <1>1, EmptySeq
<1> QED BY <1>1, <1>2, SeqFacts

\* What a handler that is not at work on this looks like after another's step.
Untouched(x, y) ==
    /\ RequestOK(y) /\ Due(y) = Due(x)
    /\ Unlogged(y) = Unlogged(x)
    /\ x.step \in {"stamp", "append"} => y = x

LEMMA OutdatedUntouched ==
    ASSUME NEW x, RequestOK(x)
    PROVE  Untouched(x, x) /\ (x.step = "write" => Untouched(x, [x EXCEPT !.stale = TRUE]))
<1>1. ASSUME x.step = "write" PROVE Untouched(x, [x EXCEPT !.stale = TRUE])
  <2> DEFINE y == [x EXCEPT !.stale = TRUE]
  <2>1. DOMAIN x = {"step", "todo", "req", "stale", "row"}
    BY <1>1 DEF RequestOK
  <2>2. DOMAIN y = DOMAIN x /\ y.step = x.step /\ y.todo = x.todo
    BY <2>1
  <2> HIDE DEF y
  <2>3. Untouched(x, y)
    BY <1>1, <2>1, <2>2 DEF Untouched, RequestOK, Due, Unlogged
  <2> QED BY <2>3 DEF y
<1> QED BY <1>1 DEF Untouched

LEMMA OthersUntouched ==
    ASSUME TasteOK, NEW h \in Handlers, NEW to, Proceeds(h, to) \/ Writes(h, to)
    PROVE  /\ DOMAIN handler' = Handlers /\ handler'[h] = to
           /\ \A g \in Handlers \ {h} : Untouched(handler[g], handler'[g])
<1>1. DOMAIN handler' = Handlers /\ handler'[h] = to
  BY DEF TasteOK, Proceeds, Writes
<1>2. ASSUME NEW g \in Handlers \ {h} PROVE Untouched(handler[g], handler'[g])
  <2>1. RequestOK(handler[g])
    BY DEF TasteOK
  <2>2. \/ handler'[g] = handler[g]
        \/ handler[g].step = "write" /\ handler'[g] = [handler[g] EXCEPT !.stale = TRUE]
    BY DEF Proceeds, Writes, TasteOK
  <2> QED BY <2>1, <2>2, OutdatedUntouched
<1> QED BY <1>1, <1>2

LEMMA RateOK ==
    ASSUME TasteOK, NEW entity, NEW verdict, Rate(entity, verdict)
    PROVE  /\ UNCHANGED <<events, listen, folded, severed>> /\ DOMAIN handler' = Handlers
           /\ \A g \in Handlers : Untouched(handler[g], handler'[g])
<1>1. UNCHANGED <<events, listen, folded, severed>> /\ DOMAIN handler' = Handlers
  BY DEF Rate, Outdated
<1>2. ASSUME NEW g \in Handlers PROVE Untouched(handler[g], handler'[g])
  <2>1. RequestOK(handler[g])
    BY DEF TasteOK
  <2>2. \/ handler'[g] = handler[g]
        \/ handler[g].step = "write" /\ handler'[g] = [handler[g] EXCEPT !.stale = TRUE]
    BY DEF Rate, Outdated
  <2> QED BY <2>1, <2>2, OutdatedUntouched
<1> QED BY <1>1, <1>2

\* Folds that are next, and no request when there are none.
LEMMA FoldingFacts ==
    ASSUME NEW todo, IsFolds(todo), NEW r
    PROVE  /\ RequestOK(Folding(todo, r)) /\ Due(Folding(todo, r)) = todo
           /\ Unlogged(Folding(todo, r)) = {}
BY DEF Folding, RequestOK, TasteSteps, Due, Unlogged, NoRequest

LEMMA TailFacts ==
    ASSUME NEW todo, IsFolds(todo), todo # <<>>
    PROVE  /\ IsFolds(Tail(todo)) /\ Len(todo) \in Nat \ {0} /\ DOMAIN todo = 1 .. Len(todo)
           /\ DOMAIN Tail(todo) = 1 .. Len(todo) - 1 /\ Head(todo) = todo[1]
           /\ \A i \in DOMAIN Tail(todo) : Tail(todo)[i] = todo[i + 1]
<1>1. PICK S : todo \in Seq(S)
  BY DEF IsFolds
<1>2. Len(todo) \in Nat \ {0} /\ DOMAIN todo = 1 .. Len(todo)
  BY <1>1, SeqFacts, EmptySeq
<1>3. Tail(todo) \in Seq(S) /\ Len(Tail(todo)) = Len(todo) - 1 /\ Head(todo) = todo[1]
      /\ \A i \in 1 .. Len(Tail(todo)) : Tail(todo)[i] = todo[i + 1]
  BY <1>1, <1>2, HeadTailProperties
<1>4. DOMAIN Tail(todo) = 1 .. Len(todo) - 1
  BY <1>3, SeqFacts
<1> QED BY <1>2, <1>3, <1>4 DEF IsFolds

\* What rises takes no value twice.
LEMMA RisingOnce ==
    ASSUME NEW N, N \subseteq Nat, NEW K, K \subseteq Nat, NEW f \in [N -> K],
           \A i, j \in N : i < j => f[i] < f[j], NEW i \in N, NEW j \in N, i # j
    PROVE  f[i] # f[j]
<1>1. i < j \/ j < i
  OBVIOUS
<1>2. f[i] \in Nat /\ f[j] \in Nat
  OBVIOUS
<1> QED BY <1>1, <1>2

\* The fresh events of a batch: none is in the log, no two have one id.
LEMMA FreshEventFacts ==
    ASSUME NEW r \in Bearers
    PROVE  LET K == FreshIn(r.batch) IN
           /\ K \subseteq DOMAIN r.batch /\ NewIn(r.batch) = K
           /\ \A i \in K : ~Logged(r.batch[i].id)
           /\ \A i, j \in K : r.batch[i].id = r.batch[j].id => i = j \/ r.batch[i].id = NoId
           /\ \A i \in DOMAIN r.batch :
                 i \in K \/ Logged(r.batch[i].id) \/ \E j \in K : r.batch[j].id = r.batch[i].id
<1> DEFINE K == FreshIn(r.batch)
           b == r.batch
<1>1. K \subseteq DOMAIN b /\ NewIn(b) = K /\ \A i \in K : ~Logged(b[i].id)
  BY DEF FreshIn, NewIn
<1>2. ASSUME NEW i \in K, NEW j \in K, b[i].id = b[j].id, i # j PROVE b[i].id = NoId
  <2>1. i \in 1 .. Len(b) /\ j \in 1 .. Len(b) /\ Len(b) \in Nat
    BY <1>1, BatchFacts
  <2>2. i < j \/ j < i
    BY <1>2, <2>1
  <2>3. CASE i < j
    BY <1>2, <2>1, <2>3 DEF FreshIn
  <2>4. CASE j < i
    BY <1>2, <2>1, <2>4 DEF FreshIn
  <2> QED BY <2>2, <2>3, <2>4
<1>3. ASSUME NEW i \in DOMAIN b, i \notin K, ~Logged(b[i].id)
      PROVE  \E j \in K : b[j].id = b[i].id
  <2> DEFINE T == {j \in DOMAIN b : b[j].id = b[i].id}
  <2>1. DOMAIN b \subseteq Nat /\ DOMAIN b = 1 .. Len(b) /\ Len(b) \in Nat
    BY BatchFacts
  <2>2. PICK j \in T : \A k \in T : j <= k
    <3>1. T \subseteq Nat /\ T # {}
      BY <2>1
    <3> HIDE DEF T
    <3> QED BY <3>1, NatMin
  <2>3. \A k \in 1 .. (j - 1) : b[k].id # b[j].id
    <3> SUFFICES ASSUME NEW k \in 1 .. (j - 1), b[k].id = b[j].id PROVE FALSE
      OBVIOUS
    <3>1. j \in 1 .. Len(b)
      BY <2>1
    <3>2. k \in DOMAIN b /\ k < j
      BY <2>1, <3>1
    <3> QED BY <2>2, <3>1, <3>2
  <2>4. j \in DOMAIN b /\ b[j].id = b[i].id
    BY <2>2
  <2>5. j \in K
    BY <1>3, <2>3, <2>4 DEF FreshIn
  <2> QED BY <2>4, <2>5
<1> QED BY <1>1, <1>2, <1>3

\* The folds of the skips among them: each has an id of its own, or none.
LEMMA SkipFoldsFacts ==
    ASSUME NEW r \in Bearers
    PROVE  LET todo == SkipFolds(r.batch, FreshIn(r.batch)) IN
           /\ IsFolds(todo)
           /\ \A i \in DOMAIN todo : \E k \in FreshIn(r.batch) : todo[i].tag = r.batch[k].id
           /\ \A i, j \in DOMAIN todo : todo[i].tag = todo[j].tag => i = j \/ todo[i].tag = NoId
<1> DEFINE K == {i \in FreshIn(r.batch) : Foldable(r.batch[i])}
           skips == AtPlaces(r.batch, K)
           todo == SkipFolds(r.batch, FreshIn(r.batch))
<1>1. r.batch \in Seq(Sent) /\ DOMAIN r.batch = 1 .. Len(r.batch)
  BY BatchFacts
<1>2. K \in SUBSET (1 .. Len(r.batch)) /\ K \subseteq FreshIn(r.batch)
  BY <1>1, FreshEventFacts
<1>3. todo = [k \in DOMAIN skips |-> Fold("skip", skips[k].track, skips[k].at, skips[k].completion, skips[k].id)]
  BY DEF SkipFolds
<1> HIDE DEF K, skips, todo
<1>4. /\ DOMAIN skips = 1 .. Len(skips) /\ Len(skips) \in Nat
      /\ Increasing(K) \in [DOMAIN skips -> K]
      /\ \A i, j \in DOMAIN skips : i < j => Increasing(K)[i] < Increasing(K)[j]
      /\ \A n \in DOMAIN skips : skips[n] = r.batch[Increasing(K)[n]]
  BY <1>1, <1>2, AtPlacesProperties DEF skips
<1>5. \A n \in DOMAIN skips : todo[n].tag = r.batch[Increasing(K)[n]].id /\ Increasing(K)[n] \in FreshIn(r.batch)
  BY <1>2, <1>3, <1>4 DEF Fold
<1>6. DOMAIN todo = DOMAIN skips
  BY <1>3
<1>7. IsFolds(todo)
  <2> DEFINE S == {todo[n] : n \in DOMAIN todo}
  <2>1. todo \in [1 .. Len(skips) -> S]
    BY <1>3, <1>4
  <2>2. todo \in Seq(S)
    BY <1>4, <2>1, SeqDef
  <2> QED BY <2>2 DEF IsFolds
<1>8. ASSUME NEW i \in DOMAIN todo, NEW j \in DOMAIN todo, todo[i].tag = todo[j].tag, i # j PROVE todo[i].tag = NoId
  <2>1. DOMAIN skips \subseteq Nat /\ K \subseteq Nat
    BY <1>2, <1>4
  <2>2. Increasing(K)[i] # Increasing(K)[j]
    <3> DEFINE order == Increasing(K)
               N == DOMAIN skips
    <3>1. /\ N \subseteq Nat /\ order \in [N -> K] /\ i \in N /\ j \in N
          /\ \A k, l \in N : k < l => order[k] < order[l]
      BY <1>4, <1>6, <2>1
    <3> HIDE DEF order, N
    <3>2. order[i] # order[j]
      BY <1>8, <2>1, <3>1, RisingOnce
    <3> QED BY <3>2 DEF order
  <2> QED BY <1>5, <1>6, <1>8, <2>2, FreshEventFacts
<1> QED BY <1>5, <1>6, <1>7, <1>8 DEF todo

\* What an append adds to the log: the fresh events, each with its session.
LEMMA LogGrows ==
    ASSUME TasteOK, NEW h \in Handlers, AppendBatch(h)
    PROVE  LET r == handler[h].req
               K == FreshIn(r.batch) IN
           /\ r \in Bearers /\ events' \in Seq(LogRow) /\ Len(events) \in Nat /\ DOMAIN events = 1 .. Len(events)
           /\ DOMAIN events' = 1 .. Len(events') /\ Len(events') \in Nat /\ Len(events) <= Len(events')
           /\ \A i \in DOMAIN events : i \in DOMAIN events' /\ events'[i] = events[i]
           /\ \A i \in DOMAIN events' \ DOMAIN events :
                 \E k \in K : events'[i] = [event |-> r.batch[k], session |-> handler[h].sessions[k]]
           /\ \A i, j \in DOMAIN events' \ DOMAIN events :
                 events'[i].event.id = events'[j].event.id => i = j \/ events'[i].event.id = NoId
           /\ \A k \in K : \E i \in DOMAIN events' \ DOMAIN events :
                 events'[i] = [event |-> r.batch[k], session |-> handler[h].sessions[k]]
<1> DEFINE x == handler[h]
           r == x.req
           K == FreshIn(r.batch)
           all == LogRows(r.batch, x.sessions)
           new == AtPlaces(all, K)
           order == Increasing(K)
<1>1. /\ x.step = "append" /\ r \in Bearers /\ x.sessions \in Seq(Int) /\ Len(x.sessions) = Len(r.batch)
  BY DEF TasteOK, RequestOK, AppendBatch
<1>2. NewIn(r.batch) = K /\ K \subseteq DOMAIN r.batch
  BY <1>1, FreshEventFacts
<1>3. events' = events \o new
  BY <1>2 DEF AppendBatch
<1>4. /\ Len(r.batch) \in Nat /\ DOMAIN r.batch = 1 .. Len(r.batch) /\ \A i \in DOMAIN r.batch : r.batch[i] \in Sent
      /\ \A i \in DOMAIN r.batch : x.sessions[i] \in Int
  BY <1>1, BatchFacts, SeqFacts
<1> HIDE DEF x, K
<1>5. /\ all \in [1 .. Len(r.batch) -> LogRow]
      /\ \A i \in DOMAIN r.batch : all[i] = [event |-> r.batch[i], session |-> x.sessions[i]]
  BY <1>4 DEF LogRow, LogRows
<1>6. all \in Seq(LogRow) /\ Len(all) = Len(r.batch)
  <2> HIDE DEF all
  <2>1. all \in Seq(LogRow)
    BY <1>4, <1>5, SeqDef
  <2> QED BY <1>4, <1>5, <2>1, SeqFacts, LenProperties
<1> HIDE DEF all
<1>7. /\ new \in Seq(LogRow) /\ Len(new) \in Nat /\ DOMAIN new = 1 .. Len(new)
      /\ order \in [DOMAIN new -> K]
      /\ \A i, j \in DOMAIN new : i < j => order[i] < order[j]
      /\ \A n \in DOMAIN new : new[n] = all[order[n]]
      /\ \A k \in K : \E n \in DOMAIN new : order[n] = k
  <2>1. K \in SUBSET (1 .. Len(all))
    BY <1>2, <1>4, <1>6
  <2>2. all \in Seq(LogRow)
    BY <1>6
  <2> HIDE DEF r
  <2>3. /\ new \in Seq(LogRow) /\ Cardinality(K) \in Nat
        /\ Len(new) = Cardinality(K) /\ DOMAIN new = 1 .. Cardinality(K)
    BY <2>1, <2>2, AtPlacesProperties
  <2>4. /\ order \in [DOMAIN new -> K]
        /\ \A i, j \in DOMAIN new : i < j => order[i] < order[j]
    BY <2>1, <2>2, AtPlacesProperties
  <2>5. /\ \A n \in DOMAIN new : new[n] = all[order[n]]
        /\ \A k \in K : \E n \in DOMAIN new : order[n] = k
    BY <2>1, <2>2, AtPlacesProperties
  <2> QED BY <2>3, <2>4, <2>5
<1> HIDE DEF new, order
<1>8. /\ \A n \in DOMAIN new : order[n] \in K
      /\ \A n \in DOMAIN new : new[n] = [event |-> r.batch[order[n]], session |-> x.sessions[order[n]]]
  <2> HIDE DEF r
  <2>1. \A n \in DOMAIN new : order[n] \in K
    BY <1>7
  <2>2. \A n \in DOMAIN new : order[n] \in DOMAIN r.batch /\ new[n] = all[order[n]]
    BY <1>2, <1>7, <2>1
  <2> QED BY <1>5, <2>1, <2>2
<1>9. /\ events' \in Seq(LogRow) /\ Len(events') = Len(events) + Len(new) /\ Len(events) \in Nat
      /\ \A i \in 1 .. Len(events') : events'[i] = IF i <= Len(events) THEN events[i] ELSE new[i - Len(events)]
  BY <1>3, <1>7, ConcatProperties, LenProperties DEF TasteOK
<1>10. DOMAIN events = 1 .. Len(events) /\ DOMAIN events' = 1 .. Len(events')
  BY <1>9, SeqFacts DEF TasteOK
<1>11. \A i \in DOMAIN events' \ DOMAIN events : i - Len(events) \in DOMAIN new /\ events'[i] = new[i - Len(events)]
  BY <1>7, <1>9, <1>10
<1>12. \A n \in DOMAIN new : Len(events) + n \in DOMAIN events' \ DOMAIN events /\ events'[Len(events) + n] = new[n]
  BY <1>7, <1>9, <1>10
<1>13. ASSUME NEW i \in DOMAIN events' \ DOMAIN events, NEW j \in DOMAIN events' \ DOMAIN events,
              events'[i].event.id = events'[j].event.id, i # j
       PROVE  events'[i].event.id = NoId
  <2> DEFINE a == i - Len(events)
             b == j - Len(events)
  <2>1. a \in DOMAIN new /\ b \in DOMAIN new /\ a # b /\ events'[i] = new[a] /\ events'[j] = new[b]
    BY <1>9, <1>10, <1>11, <1>13
  <2> HIDE DEF a, b
  <2>2. order[a] # order[b]
    <3>1. DOMAIN new \subseteq Nat /\ K \subseteq Nat
      BY <1>2, <1>4, <1>7
    <3>2. a \in DOMAIN new /\ b \in DOMAIN new /\ a # b
      BY <2>1
    <3>3. order \in [DOMAIN new -> K] /\ \A m, n \in DOMAIN new : m < n => order[m] < order[n]
      BY <1>7
    <3> HIDE DEF new, order
    <3> QED BY <3>1, <3>2, <3>3, RisingOnce
  <2>3. events'[i].event.id = r.batch[order[a]].id /\ events'[j].event.id = r.batch[order[b]].id
    BY <1>8, <2>1
  <2> QED BY <1>1, <1>8, <1>13, <2>1, <2>2, <2>3, FreshEventFacts DEF K
<1>14. \A k \in K : \E i \in DOMAIN events' \ DOMAIN events :
                 events'[i] = [event |-> r.batch[k], session |-> x.sessions[k]]
  BY <1>7, <1>8, <1>12
<1>15. \A i \in DOMAIN events' \ DOMAIN events :
                 \E k \in K : events'[i] = [event |-> r.batch[k], session |-> x.sessions[k]]
  BY <1>8, <1>11
<1>16. /\ Len(events) <= Len(events') /\ Len(events') \in Nat
       /\ \A i \in DOMAIN events : i \in DOMAIN events' /\ events'[i] = events[i]
  BY <1>7, <1>9, <1>10
<1> QED BY <1>1, <1>9, <1>10, <1>13, <1>14, <1>15, <1>16 DEF x, K


-----------------------------------------------------------------------------
(* The session the log would resume. *)

At(i) == events[i].event.at
Beats(i, j) == At(i) > At(j) \/ (At(i) = At(j) /\ i >= j)
Newest(i) == \A j \in DOMAIN events : Beats(i, j)

LEMMA RowFacts ==
    ASSUME TasteOK
    PROVE  /\ Len(events) \in Nat /\ DOMAIN events = 1 .. Len(events) /\ (events # <<>> => Len(events) # 0)
           /\ \A i \in DOMAIN events : At(i) \in Nat /\ events[i].session \in Int /\ events[i].event \in Sent
<1>1. Len(events) \in Nat /\ DOMAIN events = 1 .. Len(events) /\ \A i \in DOMAIN events : events[i] \in LogRow
  BY SeqFacts DEF TasteOK
<1>2. events # <<>> => Len(events) # 0
  BY EmptySeq DEF TasteOK
<1> QED BY <1>1, <1>2, TasteAssumption DEF LogRow, At

\* A log with rows has a newest one: by the shortest start of it that has none.
LEMMA NewestExists ==
    ASSUME TasteOK, events # <<>>
    PROVE  \E i \in DOMAIN events : Newest(i)
<1> DEFINE Tops(i, n) == \A j \in 1 .. n : Beats(i, j)
           Bad == {n \in 1 .. Len(events) : ~ \E i \in 1 .. n : Tops(i, n)}
<1>1. /\ Len(events) \in Nat \ {0} /\ DOMAIN events = 1 .. Len(events)
      /\ \A i \in 1 .. Len(events) : At(i) \in Nat
  BY RowFacts
<1>2. Bad = {}
  <2> SUFFICES ASSUME Bad # {} PROVE FALSE
    OBVIOUS
  <2>1. PICK n \in Bad : \A k \in Bad : n <= k
    <3>1. Bad \subseteq Nat
      OBVIOUS
    <3> HIDE DEF Bad
    <3> QED BY <3>1, NatMin
  <2>2. n \in 1 .. Len(events) /\ ~ \E i \in 1 .. n : Tops(i, n)
    BY <2>1
  <2>3. n # 1
    <3>1. ASSUME n = 1 PROVE Tops(1, n) /\ 1 \in 1 .. n
      <4>1. \A j \in 1 .. n : j = 1
        BY <3>1
      <4>2. Beats(1, 1)
        BY <1>1 DEF Beats
      <4> QED BY <3>1, <4>1, <4>2
    <3>2. ~ (n = 1)
      <4> HIDE DEF Tops
      <4> QED BY <2>2, <3>1
    <3> QED BY <3>2
  <2>4. n \in Nat /\ n - 1 \in 1 .. Len(events) /\ n - 1 \notin Bad
    <3>1. n \in Nat /\ n - 1 \in 1 .. Len(events) /\ ~ (n <= n - 1)
      <4> HIDE DEF Bad, Tops
      <4> QED BY <1>1, <2>2, <2>3
    <3> HIDE DEF Bad
    <3> QED BY <2>1, <3>1
  <2>5. PICK i \in 1 .. n - 1 : Tops(i, n - 1)
    BY <2>4
  <2>6. i \in 1 .. n /\ n \in 1 .. n /\ i < n /\ At(i) \in Nat /\ At(n) \in Nat
        /\ \A j \in 1 .. n : j = n \/ j \in 1 .. n - 1
    <3>1. i \in 1 .. n /\ n \in 1 .. n /\ i < n /\ i \in 1 .. Len(events) /\ \A j \in 1 .. n : j = n \/ j \in 1 .. n - 1
      <4> HIDE DEF Tops
      <4> QED BY <1>1, <2>2, <2>4, <2>5
    <3> QED BY <1>1, <2>2, <3>1
  <2>7. CASE At(n) >= At(i)
    <3>1. Tops(n, n)
      <4> SUFFICES ASSUME NEW j \in 1 .. n PROVE Beats(n, j)
        OBVIOUS
      <4>1. j \in 1 .. Len(events) /\ j \in Nat /\ n \in Nat /\ n >= j /\ i \in Nat
        BY <1>1, <2>2, <2>6
      <4>2. At(j) \in Nat /\ At(i) \in Nat /\ At(n) \in Nat /\ At(n) >= At(i)
        BY <1>1, <2>6, <2>7, <4>1
      <4>3. j = n \/ Beats(i, j)
        BY <2>5, <2>6
      <4> HIDE DEF Bad, Tops
      <4> QED BY <4>1, <4>2, <4>3 DEF Beats
    <3> HIDE DEF Tops
    <3> QED BY <2>2, <2>6, <3>1
  <2>8. CASE ~(At(n) >= At(i))
    <3>1. Tops(i, n)
      <4>1. Beats(i, n)
        BY <2>6, <2>8 DEF Beats
      <4> QED BY <2>5, <2>6, <4>1
    <3> HIDE DEF Tops
    <3> QED BY <2>2, <2>6, <3>1
  <2> QED BY <2>7, <2>8
<1>3. Len(events) \notin Bad
  BY <1>2
<1>4. PICK i \in 1 .. Len(events) : Tops(i, Len(events))
  BY <1>1, <1>3
<1> QED BY <1>1, <1>4 DEF Newest

\* What last_listen_session finds: the newest row, if there is one.
LEMMA LastFacts ==
    ASSUME TasteOK
    PROVE  /\ events = <<>> => LastListenSession = Nothing
           /\ events # <<>> => \E i \in DOMAIN events :
                 Newest(i) /\ LastListenSession = [id |-> events[i].session, last |-> At(i)]
           /\ LastListenSession \in {Nothing} \cup Listening
           /\ Resumed \in {Nothing} \cup Listening
<1>1. ASSUME events # <<>>
      PROVE  \E i \in DOMAIN events : Newest(i) /\ LastListenSession = [id |-> events[i].session, last |-> At(i)]
  <2> DEFINE i == CHOOSE k \in DOMAIN events : Newest(k)
  <2>1. i \in DOMAIN events /\ Newest(i)
    BY <1>1, NewestExists
  <2>2. LastListenSession = [id |-> events[i].session, last |-> At(i)]
    BY <1>1 DEF LastListenSession, Newest, Beats, At
  <2> HIDE DEF i
  <2> QED BY <2>1, <2>2
<1>2. events = <<>> => LastListenSession = Nothing
  BY DEF LastListenSession
<1>3. LastListenSession \in {Nothing} \cup Listening
  BY <1>1, <1>2, RowFacts DEF Listening
<1> QED BY <1>1, <1>2, <1>3 DEF Resumed, TasteOK

\* advance: the end never moves back, and the session changes only if it moves on.
LEMMA AdvanceFacts ==
    ASSUME NEW cur \in {Nothing} \cup Listening, NEW e \in Sent
    PROVE  LET next == Advance(cur, e.at - e.heard, e.at) IN
           /\ next \in Listening /\ e.at <= next.last
           /\ cur = Nothing => next.last = e.at
           /\ cur # Nothing => /\ cur.last <= next.last /\ next.last \in {cur.last, e.at}
                               /\ next.last = cur.last => next.id = cur.id
<1>1. e.at \in Nat /\ e.heard \in Nat /\ Gap \in Nat
  BY TasteAssumption
<1>2. CASE cur = Nothing
  BY <1>1, <1>2 DEF Advance, Listening
<1>3. CASE cur # Nothing
  <2>1. cur \in Listening /\ cur.id \in Int /\ cur.last \in Nat
    BY <1>3 DEF Listening
  <2>2. CASE e.at - e.heard - cur.last <= Gap
    <3> DEFINE m == Max({cur.last, e.at})
    <3>1. m \in {cur.last, e.at} /\ m >= cur.last /\ m >= e.at
      <4> DEFINE P(x) == \A y \in {cur.last, e.at} : x >= y
      <4>1. P(cur.last) \/ P(e.at)
        BY <1>1, <2>1
      <4>2. m \in {cur.last, e.at} /\ P(m)
        BY <4>1 DEF Max
      <4> HIDE DEF m
      <4> QED BY <4>2
    <3>2. Advance(cur, e.at - e.heard, e.at) = [cur EXCEPT !.last = m]
      BY <1>3, <2>2 DEF Advance
    <3> HIDE DEF m
    <3> QED BY <1>1, <1>3, <2>1, <3>1, <3>2 DEF Listening
  <2>3. CASE ~(e.at - e.heard - cur.last <= Gap)
    <3>1. Advance(cur, e.at - e.heard, e.at) = [id |-> e.at - e.heard, last |-> e.at]
      BY <1>3, <2>3 DEF Advance
    <3>2. cur.last < e.at
      BY <1>1, <2>1, <2>3
    <3> QED BY <1>1, <1>3, <2>1, <3>1, <3>2 DEF Listening
  <2> QED BY <2>2, <2>3
<1> QED BY <1>2, <1>3

\* What a stamp does to the request: one more event has its session.
Marked(x, y, id) ==
    LET n == Len(x.sessions) + 1 IN
    /\ x.step = "stamp" /\ x.req \in Bearers /\ n \in DOMAIN x.req.batch
    /\ RequestOK(y) /\ y.step \in {"stamp", "append"} /\ Due(y) = <<>>
    /\ y.req = x.req /\ Unlogged(y) = Unlogged(x) \cup {n} /\ n \notin Unlogged(x)
    /\ \A i \in Unlogged(x) : y.sessions[i] = x.sessions[i]
    /\ y.sessions[n] = id

LEMMA StampOK ==
    ASSUME TasteOK, NEW h \in Handlers, StampNext(h)
    PROVE  /\ UNCHANGED <<events, folded>>
           /\ severed' \in BOOLEAN
           /\ \E cur \in {Nothing} \cup Listening :
                LET e == handler[h].req.batch[Len(handler[h].sessions) + 1]
                    next == Advance(cur, e.at - e.heard, e.at) IN
                /\ e \in Sent
                /\ severed' = FALSE => cur = Resumed /\ severed = FALSE
                /\ listen' = next
                /\ Marked(handler[h], handler'[h], next.id)
                /\ DOMAIN handler' = Handlers
                /\ \A g \in Handlers \ {h} : Untouched(handler[g], handler'[g])
<1> DEFINE x == handler[h]
           n == Len(x.sessions) + 1
           e == x.req.batch[n]
<1>1. x.step = "stamp" /\ RequestOK(x) /\ UNCHANGED <<events, folded>> /\ severed \in BOOLEAN
  BY DEF StampNext, TasteOK, tables
<1>2. /\ x.req \in Bearers /\ x.sessions \in Seq(Int) /\ Len(x.sessions) \in Nat
      /\ DOMAIN x.sessions = 1 .. Len(x.sessions)
      /\ DOMAIN x = {"step", "req", "sessions"} /\ Len(x.sessions) < Len(x.req.batch)
  BY <1>1, SeqFacts DEF RequestOK
<1>3. n \in DOMAIN x.req.batch /\ e \in Sent /\ Len(x.req.batch) \in Nat
  BY <1>2, BatchFacts
<1>4. PICK cur \in {Nothing} \cup Listening :
        LET next == Advance(cur, e.at - e.heard, e.at) IN
        /\ listen' = next
        /\ severed' \in BOOLEAN
        /\ severed' = FALSE => cur = Resumed /\ severed = FALSE
        /\ Proceeds(h, [x EXCEPT !.step = IF n = Len(x.req.batch) THEN "append" ELSE "stamp",
                                 !.sessions = Append(@, next.id)])
  <2>1. Resumed \in {Nothing} \cup Listening
    BY LastFacts
  <2> QED BY <1>1, <2>1 DEF StampNext
<1> DEFINE next == Advance(cur, e.at - e.heard, e.at)
           y == [x EXCEPT !.step = IF n = Len(x.req.batch) THEN "append" ELSE "stamp",
                          !.sessions = Append(@, next.id)]
<1>5. next.id \in Int
  BY <1>3, AdvanceFacts DEF Listening
<1>6. /\ DOMAIN y = DOMAIN x /\ y.req = x.req /\ y.sessions = Append(x.sessions, next.id)
      /\ y.step = IF n = Len(x.req.batch) THEN "append" ELSE "stamp"
  BY <1>2
<1>7. /\ y.sessions \in Seq(Int) /\ Len(y.sessions) = n /\ DOMAIN y.sessions = 1 .. n
      /\ \A i \in 1 .. n : y.sessions[i] = IF i = n THEN next.id ELSE x.sessions[i]
  <2> DEFINE q == x.sessions
  <2>1. q \in Seq(Int) /\ y.sessions = Append(q, next.id)
    BY <1>2, <1>6
  <2> HIDE DEF q, next, y
  <2>2. /\ Append(q, next.id) \in Seq(Int) /\ Len(Append(q, next.id)) = Len(q) + 1
        /\ DOMAIN Append(q, next.id) = 1 .. Len(q) + 1
        /\ \A i \in 1 .. Len(q) + 1 : Append(q, next.id)[i] = IF i = Len(q) + 1 THEN next.id ELSE q[i]
    BY <1>5, <2>1, AppendFacts
  <2> QED BY <2>1, <2>2 DEF q
<1>8. handler'[h] = y /\ DOMAIN handler' = Handlers /\ \A g \in Handlers \ {h} : Untouched(handler[g], handler'[g])
  BY <1>4, OthersUntouched
<1> HIDE DEF y, next
<1>9. RequestOK(y)
  <2> DEFINE l == Len(x.req.batch)
  <2>1. y.step \in {"stamp", "append"} /\ (y.step = "stamp" => n # l) /\ (y.step = "append" => n = l)
    BY <1>6
  <2>2. l \in Nat /\ n \in Nat /\ n <= l
    BY <1>2, <1>3
  <2>3. y.req.batch = x.req.batch
    BY <1>6
  <2> HIDE DEF l
  <2>4. Len(y.sessions) <= l /\ (y.step = "stamp" => Len(y.sessions) < l) /\ (y.step = "append" => Len(y.sessions) = l)
    BY <1>7, <2>1, <2>2
  <2> QED BY <1>2, <1>6, <1>7, <2>1, <2>3, <2>4 DEF RequestOK, TasteSteps, l
<1>10. Marked(x, y, next.id)
  <2>1. Unlogged(x) = 1 .. Len(x.sessions) /\ Unlogged(y) = 1 .. n /\ Due(y) = <<>>
    BY <1>1, <1>2, <1>6, <1>7 DEF Unlogged, Due
  <2> HIDE DEF x
  <2> QED BY <1>1, <1>2, <1>3, <1>6, <1>7, <1>9, <2>1 DEF Marked
<1>11. /\ e \in Sent
       /\ severed' = FALSE => cur = Resumed /\ severed = FALSE
       /\ listen' = next
       /\ Marked(x, handler'[h], next.id)
  BY <1>3, <1>4, <1>8, <1>10 DEF next
<1>12. severed' \in BOOLEAN
  BY <1>4
<1> QED BY <1>1, <1>8, <1>11, <1>12 DEF next

-----------------------------------------------------------------------------
(* Every step: the shape stays, and what it does to the folds that are due. *)

\* The steps but for the stamp and the append that is logged: the log and the
\* open session stay; the request at h goes on, or everything is dropped.
Onward(h) ==
    /\ UNCHANGED <<events, listen>>
    /\ severed' \in BOOLEAN /\ (severed' = FALSE => severed = FALSE /\ Unlogged(handler[h]) = {})
    /\ DOMAIN handler' = Handlers
    /\ \A g \in Handlers \ {h} : Untouched(handler[g], handler'[g])
    /\ RequestOK(handler'[h]) /\ Unlogged(handler'[h]) = {}

\* What is due after it was due before, one place on, or carries no id; and what
\* was folded was the first.
Consumed(h, skip) ==
    LET old == Due(handler[h])
        new == Due(handler'[h]) IN
    /\ \A i \in DOMAIN new : \/ new[i].tag = NoId
                             \/ i + skip \in DOMAIN old /\ new[i] = old[i + skip]
    /\ DOMAIN new \subseteq Nat \ {0}
    /\ \/ folded' = folded
       \/ skip = 1 /\ 1 \in DOMAIN old /\ \E y : folded' = folded \cup {y} /\ y.f = old[1]

LEMMA TakenUp ==
    ASSUME TasteOK, NEW h \in Handlers, handler[h] = NoRequest
    PROVE  Due(handler[h]) = <<>> /\ Unlogged(handler[h]) = {} /\ severed \in BOOLEAN
BY DEF NoRequest, Due, Unlogged, TasteOK

LEMMA StampingFacts ==
    ASSUME NEW r \in Bearers
    PROVE  RequestOK(Stamping(r)) /\ Due(Stamping(r)) = <<>> /\ Unlogged(Stamping(r)) = {}
<1> DEFINE x == Stamping(r)
<1>1. x.step = "stamp" /\ DOMAIN x = {"step", "req", "sessions"} /\ x.req = r /\ x.sessions = <<>>
  BY DEF Stamping
<1>2. <<>> \in Seq(Int) /\ Len(<<>>) = 0 /\ DOMAIN <<>> = {}
  OBVIOUS
<1>3. Len(r.batch) \in Nat \ {0}
  BY BatchFacts
<1> HIDE DEF x
<1>4. RequestOK(x) /\ Due(x) = <<>> /\ Unlogged(x) = {}
  BY <1>1, <1>2, <1>3 DEF RequestOK, TasteSteps, Due, Unlogged
<1> QED BY <1>4 DEF x

LEMMA OneFold ==
    ASSUME NEW f
    PROVE  IsFolds(<<f>>) /\ DOMAIN <<f>> = {1} /\ <<f>>[1] = f /\ <<f>> # <<>>
<1>1. <<f>> \in Seq({f})
  OBVIOUS
<1>2. Len(<<f>>) = 1 /\ Len(<<>>) = 0 /\ <<f>>[1] = f
  OBVIOUS
<1>3. DOMAIN <<f>> = 1 .. 1
  BY <1>1, <1>2, SeqFacts
<1>4. 1 .. 1 = {1}
  OBVIOUS
<1>5. IsFolds(<<f>>)
  BY <1>1 DEF IsFolds
<1>6. <<f>> # <<>>
  BY <1>2
<1> QED BY <1>2, <1>3, <1>4, <1>5, <1>6

LEMMA NoFolds == IsFolds(<<>>) /\ DOMAIN <<>> = {} /\ RequestOK(NoRequest) /\ Due(NoRequest) = <<>> /\ Unlogged(NoRequest) = {}
<1>1. <<>> \in Seq({})
  OBVIOUS
<1> QED BY <1>1 DEF IsFolds, RequestOK, TasteSteps, Due, Unlogged, NoRequest

\* A request is taken up.
LEMMA AdmitOnward ==
    ASSUME TasteOK, NEW h \in Handlers, NEW r \in Signals,
           DropGuest(h, r) \/ Submit(h, r) \/ Scrobble(h, r) \/ Vote(h, r)
    PROVE  Onward(h) /\ Consumed(h, 0)
<1>1. /\ handler[h] = NoRequest /\ Due(handler[h]) = <<>> /\ Unlogged(handler[h]) = {} /\ severed \in BOOLEAN
      /\ UNCHANGED <<events, listen, severed, folded>>
  <2>1. handler[h] = NoRequest /\ UNCHANGED <<events, listen, severed, folded>>
    BY DEF DropGuest, Submit, Scrobble, Vote, Admit, tables
  <2> QED BY <2>1, TakenUp
<1>2. ASSUME NEW to, Proceeds(h, to) \/ Writes(h, to), RequestOK(to), Unlogged(to) = {},
             DOMAIN Due(to) \subseteq Nat \ {0}, \A i \in DOMAIN Due(to) : Due(to)[i].tag = NoId
      PROVE  Onward(h) /\ Consumed(h, 0)
  <2>1. /\ DOMAIN handler' = Handlers /\ handler'[h] = to
        /\ \A g \in Handlers \ {h} : Untouched(handler[g], handler'[g])
    BY <1>2, OthersUntouched
  <2> QED BY <1>1, <1>2, <2>1 DEF Onward, Consumed
<1>3. CASE DropGuest(h, r)
  <2>1. handler' = handler
    BY <1>3 DEF DropGuest
  <2>2. DOMAIN handler = Handlers /\ \A g \in Handlers : Untouched(handler[g], handler[g])
    BY DEF TasteOK, Untouched
  <2>3. Onward(h)
    BY <1>1, <2>1, <2>2 DEF Onward, TasteOK
  <2>4. Consumed(h, 0)
    BY <1>1, <2>1, NoFolds DEF Consumed
  <2> QED BY <2>3, <2>4
<1>4. CASE Submit(h, r) \/ Scrobble(h, r)
  <2>1. (Proceeds(h, Stamping(r)) \/ Writes(h, Stamping(r))) /\ r \in Bearers
    BY <1>4 DEF Submit, Scrobble, Bearers
  <2> QED BY <1>2, <2>1, StampingFacts, NoFolds
<1>5. CASE Vote(h, r)
  <2> DEFINE todo == IF r.dir = "none" THEN <<>> ELSE <<Fold(r.dir, r.track, r.at, 2, NoId)>>
  <2>1. Writes(h, Folding(todo, r))
    BY <1>5 DEF Vote
  <2>2. IsFolds(todo) /\ DOMAIN todo \subseteq Nat \ {0} /\ \A i \in DOMAIN todo : todo[i].tag = NoId
    <3> DEFINE f == Fold(r.dir, r.track, r.at, 2, NoId)
    <3>1. f.tag = NoId
      BY DEF Fold
    <3> HIDE DEF f
    <3>2. IsFolds(<<f>>) /\ DOMAIN <<f>> = {1} /\ <<f>>[1] = f /\ IsFolds(<<>>) /\ DOMAIN <<>> = {}
      BY OneFold, NoFolds
    <3>3. todo = <<f>> \/ todo = <<>>
      BY DEF f
    <3> QED BY <3>1, <3>2, <3>3
  <2> HIDE DEF todo
  <2> QED BY <1>2, <2>1, <2>2, FoldingFacts
<1> QED BY <1>3, <1>4, <1>5

\* A fold is read, written back, refused or lost; a batch is not logged.
LEMMA FoldOnward ==
    ASSUME TasteOK, NEW h \in Handlers, AppendFails(h) \/ FoldRead(h) \/ FoldFails(h) \/ FoldWrite(h)
    PROVE  Onward(h) /\ \E skip \in {0, 1} : Consumed(h, skip)
<1> DEFINE x == handler[h]
<1>0. RequestOK(x) /\ severed \in BOOLEAN
  BY DEF TasteOK
<1>1. CASE AppendFails(h)
  <2> DEFINE to == IF x.req.kind = "scrobble" THEN Folding(<<PlayFold(x.req.batch[1])>>, x.req) ELSE NoRequest
  <2>1. Proceeds(h, to) /\ severed' = TRUE /\ UNCHANGED <<events, listen, folded>>
    BY <1>1 DEF AppendFails, tables
  <2>2. RequestOK(to) /\ Unlogged(to) = {} /\ DOMAIN Due(to) \subseteq Nat \ {0} /\ \A i \in DOMAIN Due(to) : Due(to)[i].tag = NoId
    <3> DEFINE f == PlayFold(x.req.batch[1])
    <3>1. f.tag = NoId
      BY DEF PlayFold, Fold
    <3> HIDE DEF f
    <3>2. IsFolds(<<f>>) /\ DOMAIN <<f>> = {1} /\ <<f>>[1] = f
      BY OneFold
    <3>3. /\ RequestOK(Folding(<<f>>, x.req)) /\ Due(Folding(<<f>>, x.req)) = <<f>>
          /\ Unlogged(Folding(<<f>>, x.req)) = {}
      BY <3>2, FoldingFacts
    <3>4. to = Folding(<<f>>, x.req) \/ to = NoRequest
      BY DEF f
    <3> HIDE DEF to
    <3> QED BY <3>1, <3>2, <3>3, <3>4, NoFolds
  <2> HIDE DEF to
  <2>3. /\ DOMAIN handler' = Handlers /\ handler'[h] = to
        /\ \A g \in Handlers \ {h} : Untouched(handler[g], handler'[g])
    BY <2>1, OthersUntouched
  <2>4. Onward(h) /\ Consumed(h, 0)
    BY <2>1, <2>2, <2>3 DEF Onward, Consumed
  <2> QED BY <2>4
<1>2. CASE FoldRead(h)
  <2> DEFINE f == Head(x.todo)
             to == [step |-> "write", todo |-> x.todo, req |-> x.req, stale |-> FALSE,
                    row |-> IF f.track \in DOMAIN affinity THEN affinity[f.track] ELSE Nothing]
  <2>1. x.step = "read" /\ Proceeds(h, to) /\ UNCHANGED <<events, listen, folded, severed>>
    BY <1>2 DEF FoldRead, tables
  <2>2. IsFolds(x.todo) /\ x.todo # <<>> /\ DOMAIN x.todo \subseteq Nat \ {0}
    <3>1. IsFolds(x.todo) /\ x.todo # <<>>
      BY <1>0, <2>1 DEF RequestOK
    <3> QED BY <3>1, TailFacts
  <2>3. to.step = "write" /\ to.todo = x.todo /\ DOMAIN to = {"step", "todo", "req", "stale", "row"}
    OBVIOUS
  <2> HIDE DEF to
  <2>4. RequestOK(to) /\ Due(to) = x.todo /\ Unlogged(to) = {}
    BY <2>2, <2>3 DEF RequestOK, TasteSteps, Due, Unlogged
  <2>5. /\ DOMAIN handler' = Handlers /\ handler'[h] = to
        /\ \A g \in Handlers \ {h} : Untouched(handler[g], handler'[g])
    BY <2>1, OthersUntouched
  <2>6. Due(x) = x.todo /\ Unlogged(x) = {}
    BY <2>1 DEF Due, Unlogged
  <2> HIDE DEF x
  <2>7. \A i \in DOMAIN x.todo : i + 0 = i
    BY <2>2
  <2>8. Onward(h) /\ Consumed(h, 0)
    BY <1>0, <2>1, <2>2, <2>4, <2>5, <2>6, <2>7 DEF Onward, Consumed, x
  <2> QED BY <2>8
<1>3. CASE FoldFails(h) \/ FoldWrite(h)
  <2> DEFINE to == Folding(Tail(x.todo), x.req)
  <2>1. /\ x.step \in {"read", "write"} /\ (Proceeds(h, to) \/ Writes(h, to)) /\ UNCHANGED <<events, listen, severed>>
        /\ folded' = folded \/ \E y : folded' = folded \cup {y} /\ y.f = Head(x.todo)
    BY <1>3 DEF FoldFails, FoldWrite, tables
  <2>2. /\ IsFolds(Tail(x.todo)) /\ Head(x.todo) = x.todo[1] /\ 1 \in DOMAIN x.todo
        /\ DOMAIN Tail(x.todo) \subseteq Nat \ {0}
        /\ \A i \in DOMAIN Tail(x.todo) : i + 1 \in DOMAIN x.todo /\ Tail(x.todo)[i] = x.todo[i + 1]
    <3>1. IsFolds(x.todo) /\ x.todo # <<>>
      BY <1>0, <2>1 DEF RequestOK
    <3> QED BY <3>1, TailFacts
  <2>3. RequestOK(to) /\ Due(to) = Tail(x.todo) /\ Unlogged(to) = {}
    BY <2>2, FoldingFacts
  <2> HIDE DEF to
  <2>4. /\ DOMAIN handler' = Handlers /\ handler'[h] = to
        /\ \A g \in Handlers \ {h} : Untouched(handler[g], handler'[g])
    BY <2>1, OthersUntouched
  <2>5. Due(x) = x.todo /\ Unlogged(x) = {}
    BY <2>1 DEF Due, Unlogged
  <2>6. Onward(h)
    BY <1>0, <2>1, <2>3, <2>4, <2>5 DEF Onward
  <2>7. Consumed(h, 1)
    BY <2>1, <2>2, <2>3, <2>4, <2>5 DEF Consumed
  <2> QED BY <2>6, <2>7
<1> QED BY <1>1, <1>2, <1>3

\* A batch is logged: its fresh skips are due.
LEMMA AppendOK ==
    ASSUME TasteOK, NEW h \in Handlers, AppendBatch(h)
    PROVE  LET new == Due(handler'[h])
               batch == handler[h].req.batch IN
           /\ UNCHANGED <<listen, severed, folded>> /\ DOMAIN handler' = Handlers
           /\ \A g \in Handlers \ {h} : Untouched(handler[g], handler'[g])
           /\ RequestOK(handler'[h]) /\ Unlogged(handler'[h]) = {} /\ Due(handler[h]) = <<>>
           /\ handler[h].req \in Bearers /\ Unlogged(handler[h]) = DOMAIN batch
           /\ \A i \in DOMAIN new : new[i].tag = NoId \/ \E k \in FreshIn(batch) : new[i].tag = batch[k].id
           /\ \A i, j \in DOMAIN new : new[i].tag = new[j].tag => i = j \/ new[i].tag = NoId
<1> DEFINE x == handler[h]
           r == x.req
           plays == <<PlayFold(r.batch[1])>>
           skips == SkipFolds(r.batch, FreshIn(r.batch))
           todo == IF r.kind = "scrobble" THEN plays ELSE skips
<1>1. RequestOK(x) /\ x.step = "append"
  BY DEF TasteOK, AppendBatch
<1>2. r \in Bearers /\ x.sessions \in Seq(Int) /\ Len(x.sessions) = Len(r.batch)
  BY <1>1 DEF RequestOK
<1>3. Unlogged(x) = DOMAIN r.batch /\ Due(x) = <<>>
  <2>1. DOMAIN x.sessions = 1 .. Len(r.batch) /\ DOMAIN r.batch = 1 .. Len(r.batch)
    BY <1>2, SeqFacts, BatchFacts
  <2> QED BY <1>1, <2>1 DEF Unlogged, Due
<1>4. Writes(h, Folding(todo, r)) /\ UNCHANGED <<listen, severed, folded>>
  BY DEF AppendBatch
<1>5. /\ IsFolds(todo)
      /\ \A i \in DOMAIN todo : todo[i].tag = NoId \/ \E k \in FreshIn(r.batch) : todo[i].tag = r.batch[k].id
      /\ \A i, j \in DOMAIN todo : todo[i].tag = todo[j].tag => i = j \/ todo[i].tag = NoId
  <2>1. CASE r.kind = "scrobble"
    <3> DEFINE f == PlayFold(r.batch[1])
    <3>1. f.tag = NoId
      BY DEF PlayFold, Fold
    <3> HIDE DEF f
    <3>2. IsFolds(<<f>>) /\ DOMAIN <<f>> = {1} /\ <<f>>[1] = f
      BY OneFold
    <3>3. todo = <<f>>
      BY <2>1 DEF f
    <3> HIDE DEF todo
    <3> QED BY <3>1, <3>2, <3>3
  <2>2. CASE r.kind # "scrobble"
    <3>1. todo = skips
      BY <2>2
    <3> HIDE DEF todo
    <3> QED BY <1>2, <3>1, SkipFoldsFacts
  <2> QED BY <2>1, <2>2
<1> HIDE DEF todo
<1>6. /\ RequestOK(Folding(todo, r)) /\ Due(Folding(todo, r)) = todo /\ Unlogged(Folding(todo, r)) = {}
  BY <1>5, FoldingFacts
<1>7. /\ DOMAIN handler' = Handlers /\ handler'[h] = Folding(todo, r)
      /\ \A g \in Handlers \ {h} : Untouched(handler[g], handler'[g])
  BY <1>4, OthersUntouched
<1> QED BY <1>2, <1>3, <1>4, <1>5, <1>6, <1>7

LEMMA RestartOK ==
    ASSUME Restart
    PROVE  /\ \A h \in Handlers : handler'[h] = NoRequest
           /\ DOMAIN handler' = Handlers /\ listen' = Nothing /\ UNCHANGED <<events, folded, severed>>
BY DEF Restart, tables

\* Ratings are given in between, of anything.
TasteStep == TasteNext \/ \E entity, verdict : Rate(entity, verdict)

LEMMA TasteKeepsShape ==
    ASSUME TasteOK, [TasteStep]_tasteVars
    PROVE  TasteOK'
<1>1. ASSUME NEW h \in Handlers, Onward(h) PROVE TasteOK'
  BY <1>1 DEF TasteOK, Onward, Untouched
<1>2. ASSUME NEW h \in Handlers, StampNext(h) PROVE TasteOK'
  <2>1. PICK cur \in {Nothing} \cup Listening :
            LET e == handler[h].req.batch[Len(handler[h].sessions) + 1]
                next == Advance(cur, e.at - e.heard, e.at) IN
            /\ e \in Sent /\ listen' = next
            /\ Marked(handler[h], handler'[h], next.id)
            /\ DOMAIN handler' = Handlers
            /\ \A g \in Handlers \ {h} : Untouched(handler[g], handler'[g])
    BY <1>2, StampOK
  <2>2. listen' \in Listening
    BY <2>1, AdvanceFacts
  <2>3. UNCHANGED events /\ severed' \in BOOLEAN
    BY <1>2, StampOK
  <2> QED BY <2>1, <2>2, <2>3 DEF TasteOK, Marked, Untouched
<1>3. ASSUME NEW h \in Handlers, AppendBatch(h) PROVE TasteOK'
  BY <1>3, AppendOK, LogGrows DEF TasteOK, Untouched
<1>4. CASE Restart
  BY <1>4, RestartOK, NoFolds DEF TasteOK
<1>5. CASE UNCHANGED tasteVars
  BY <1>5 DEF tasteVars, tables, TasteOK
<1>6. ASSUME NEW entity, NEW verdict, Rate(entity, verdict) PROVE TasteOK'
  BY <1>6, RateOK DEF TasteOK, Untouched
<1> QED BY <1>1, <1>2, <1>3, <1>4, <1>5, <1>6, AdmitOnward, FoldOnward DEF TasteNext, TasteStep

-----------------------------------------------------------------------------
(* Resends count once. *)

\* Ids that are folded, or due to be, are in the log, and each is in one place.
CountOK ==
    /\ TasteOK /\ ResendsCountOnce
    /\ \A y \in folded : y.f.tag = NoId \/ Logged(y.f.tag)
    /\ \A h \in Handlers : \A i \in DOMAIN Due(handler[h]) :
          LET tag == Due(handler[h])[i].tag IN
          tag = NoId \/ (Logged(tag) /\ \A y \in folded : y.f.tag # tag)
    /\ \A h, g \in Handlers : \A i \in DOMAIN Due(handler[h]), j \in DOMAIN Due(handler[g]) :
          Due(handler[h])[i].tag = Due(handler[g])[j].tag =>
             (h = g /\ i = j) \/ Due(handler[h])[i].tag = NoId

\* The log stands, and at h what was due is consumed from its front.
LEMMA ConsumedCounts ==
    ASSUME CountOK, TasteOK', UNCHANGED events, NEW h \in Handlers, NEW skip \in {0, 1}, Consumed(h, skip),
           \A g \in Handlers \ {h} : Due(handler'[g]) = Due(handler[g])
    PROVE  CountOK'
<1> DEFINE old == Due(handler[h])
           new == Due(handler'[h])
<1>1. \A id : Logged(id)' = Logged(id)
  BY DEF Logged
<1>2. /\ \A i \in DOMAIN new :
            new[i].tag = NoId \/ (i + skip \in DOMAIN old /\ new[i] = old[i + skip] /\ (skip = 1 => i + skip # 1))
      /\ \A i, j \in DOMAIN new : i + skip = j + skip => i = j
  <2>1. /\ DOMAIN new \subseteq Nat \ {0}
        /\ \A i \in DOMAIN new :
              new[i].tag = NoId \/ (i + skip \in DOMAIN old /\ new[i] = old[i + skip])
    BY DEF Consumed
  <2> HIDE DEF old, new
  <2> QED BY <2>1
<1>3. \A y \in folded' : \/ y \in folded
                         \/ skip = 1 /\ 1 \in DOMAIN old /\ y.f = old[1] /\ folded' = folded \cup {y}
  BY DEF Consumed
<1> HIDE DEF old, new
<1>4. \A i \in DOMAIN old :
         /\ old[i].tag = NoId \/ (Logged(old[i].tag) /\ \A y \in folded : y.f.tag # old[i].tag)
         /\ \A j \in DOMAIN old : old[i].tag = old[j].tag => i = j \/ old[i].tag = NoId
         /\ \A g \in Handlers \ {h} : \A j \in DOMAIN Due(handler[g]) :
               old[i].tag = Due(handler[g])[j].tag => old[i].tag = NoId
  BY DEF CountOK, old
<1>5. ResendsCountOnce'
  <2>1. \A i, j \in DOMAIN events' : events'[i].event.id = events'[j].event.id => i = j \/ events'[i].event.id = NoId
    BY DEF CountOK, ResendsCountOnce
  <2>2. ASSUME NEW y \in folded', NEW z \in folded', y.f.tag = z.f.tag, y # z PROVE y.f.tag = NoId
    <3>1. CASE y \in folded /\ z \in folded
      BY <2>2, <3>1 DEF CountOK, ResendsCountOnce
    <3>2. CASE y \notin folded
      <4>1. 1 \in DOMAIN old /\ y.f = old[1] /\ z \in folded
        BY <1>3, <2>2, <3>2
      <4> QED BY <1>4, <2>2, <4>1
    <3>3. CASE z \notin folded
      <4>1. 1 \in DOMAIN old /\ z.f = old[1] /\ y \in folded
        BY <1>3, <2>2, <3>3
      <4> QED BY <1>4, <2>2, <4>1
    <3> QED BY <3>1, <3>2, <3>3
  <2> QED BY <2>1, <2>2 DEF ResendsCountOnce
<1>6. \A y \in folded' : y.f.tag = NoId \/ Logged(y.f.tag)'
  <2> SUFFICES ASSUME NEW y \in folded' PROVE y.f.tag = NoId \/ Logged(y.f.tag)
    BY <1>1
  <2> QED BY <1>3, <1>4 DEF CountOK
<1>7. ASSUME NEW g \in Handlers, NEW i \in DOMAIN Due(handler'[g]), Due(handler'[g])[i].tag # NoId
      PROVE  Logged(Due(handler'[g])[i].tag) /\ \A y \in folded' : y.f.tag # Due(handler'[g])[i].tag
  <2> DEFINE tag == Due(handler'[g])[i].tag
  <2>1. CASE g = h
    <3>1. i + skip \in DOMAIN old /\ tag = old[i + skip].tag /\ (skip = 1 => i + skip # 1)
      BY <1>2, <1>7, <2>1 DEF new
    <3> HIDE DEF tag
    <3> QED BY <1>3, <1>4, <1>7, <3>1 DEF tag
  <2>2. CASE g # h
    <3>1. i \in DOMAIN Due(handler[g]) /\ tag = Due(handler[g])[i].tag
      BY <1>7, <2>2
    <3>2. Logged(tag) /\ \A y \in folded : y.f.tag # tag
      BY <1>7, <3>1 DEF CountOK
    <3>3. 1 \in DOMAIN old => old[1].tag # tag
      BY <1>4, <1>7, <2>2, <3>1
    <3> HIDE DEF tag
    <3> QED BY <1>3, <3>2, <3>3 DEF tag
  <2> QED BY <2>1, <2>2
<1>8. ASSUME NEW g \in Handlers, NEW k \in Handlers,
             NEW i \in DOMAIN Due(handler'[g]), NEW j \in DOMAIN Due(handler'[k]),
             Due(handler'[g])[i].tag = Due(handler'[k])[j].tag, Due(handler'[g])[i].tag # NoId
      PROVE  g = k /\ i = j
  <2>1. CASE g = h /\ k = h
    <3>1. i \in DOMAIN new /\ j \in DOMAIN new /\ new[i].tag = new[j].tag /\ new[i].tag # NoId
      BY <1>8, <2>1 DEF new
    <3>2. i + skip \in DOMAIN old /\ j + skip \in DOMAIN old /\ old[i + skip].tag = old[j + skip].tag
          /\ old[i + skip].tag # NoId
      BY <1>2, <3>1
    <3> QED BY <1>2, <1>4, <2>1, <3>1, <3>2
  <2>2. CASE g = h /\ k # h
    <3>1. i \in DOMAIN new /\ new[i].tag # NoId /\ j \in DOMAIN Due(handler[k]) /\ new[i].tag = Due(handler[k])[j].tag
      BY <1>8, <2>2 DEF new
    <3>2. i + skip \in DOMAIN old /\ old[i + skip].tag = Due(handler[k])[j].tag /\ old[i + skip].tag # NoId
      BY <1>2, <3>1
    <3> QED BY <1>4, <2>2, <3>1, <3>2
  <2>3. CASE g # h /\ k = h
    <3>1. j \in DOMAIN new /\ new[j].tag # NoId /\ i \in DOMAIN Due(handler[g]) /\ new[j].tag = Due(handler[g])[i].tag
      BY <1>8, <2>3 DEF new
    <3>2. j + skip \in DOMAIN old /\ old[j + skip].tag = Due(handler[g])[i].tag /\ old[j + skip].tag # NoId
      BY <1>2, <3>1
    <3> QED BY <1>4, <2>3, <3>1, <3>2
  <2>4. CASE g # h /\ k # h
    <3>1. Due(handler'[g]) = Due(handler[g]) /\ Due(handler'[k]) = Due(handler[k])
      BY <2>4
    <3> QED BY <1>8, <3>1 DEF CountOK
  <2> QED BY <2>1, <2>2, <2>3, <2>4
<1> QED BY <1>1, <1>5, <1>6, <1>7, <1>8 DEF CountOK

In(log, id) == \E i \in DOMAIN log : log[i].event.id = id

\* A batch is logged: only its fresh ids are new in the log, and they are new everywhere.
LEMMA AppendCounts ==
    ASSUME CountOK, TasteOK', NEW h \in Handlers, AppendBatch(h)
    PROVE  CountOK'
<1> DEFINE batch == handler[h].req.batch
           new == Due(handler'[h])
           K == FreshIn(batch)
<1>1. TasteOK /\ handler[h].req \in Bearers /\ folded' = folded
      /\ \A g \in Handlers \ {h} : Due(handler'[g]) = Due(handler[g])
  BY AppendOK DEF CountOK, Untouched
<1>2. /\ \A i \in DOMAIN new : new[i].tag = NoId \/ \E k \in K : new[i].tag = batch[k].id
      /\ \A i, j \in DOMAIN new : new[i].tag = new[j].tag => i = j \/ new[i].tag = NoId
  BY <1>1, AppendOK
<1>3. /\ \A i \in DOMAIN events : i \in DOMAIN events' /\ events'[i] = events[i]
      /\ \A i \in DOMAIN events' \ DOMAIN events : \E k \in K : events'[i].event = batch[k]
      /\ \A i, j \in DOMAIN events' \ DOMAIN events :
            events'[i].event.id = events'[j].event.id => i = j \/ events'[i].event.id = NoId
      /\ \A k \in K : \E i \in DOMAIN events' : events'[i].event = batch[k]
  <2>1. /\ \A i \in DOMAIN events : i \in DOMAIN events' /\ events'[i] = events[i]
        /\ \A i, j \in DOMAIN events' \ DOMAIN events :
              events'[i].event.id = events'[j].event.id => i = j \/ events'[i].event.id = NoId
    BY <1>1, LogGrows
  <2>2. \A i \in DOMAIN events' \ DOMAIN events :
            \E k \in K : events'[i] = [event |-> batch[k], session |-> handler[h].sessions[k]]
    BY <1>1, LogGrows
  <2>3. \A k \in K : \E i \in DOMAIN events' \ DOMAIN events :
            events'[i] = [event |-> batch[k], session |-> handler[h].sessions[k]]
    BY <1>1, LogGrows
  <2> HIDE DEF batch, K
  <2> QED BY <2>1, <2>2, <2>3
<1>4. \A k \in K : batch[k].id = NoId \/ (~Logged(batch[k].id) /\ In(events', batch[k].id))
  <2>1. \A k \in K : ~Logged(batch[k].id)
    BY <1>1, FreshEventFacts
  <2> HIDE DEF batch, K
  <2> QED BY <1>3, <2>1 DEF Logged, In
<1>5. \A id : Logged(id) => (id # NoId /\ In(events', id))
  BY <1>3 DEF Logged, In
<1> HIDE DEF batch, new, K
<1>6. ResendsCountOnce'
  <2> SUFFICES ASSUME NEW i \in DOMAIN events', NEW j \in DOMAIN events',
                      events'[i].event.id = events'[j].event.id, events'[i].event.id # NoId
               PROVE  i = j
    BY <1>1 DEF ResendsCountOnce, CountOK
  <2>1. CASE i \in DOMAIN events /\ j \in DOMAIN events
    BY <1>3, <2>1 DEF ResendsCountOnce, CountOK
  <2>2. CASE i \notin DOMAIN events /\ j \notin DOMAIN events
    BY <1>3, <2>2
  <2>3. CASE i \in DOMAIN events /\ j \notin DOMAIN events
    <3>1. Logged(events'[j].event.id)
      BY <1>3, <2>3 DEF Logged, In
    <3> QED BY <1>3, <1>4, <2>3, <3>1
  <2>4. CASE i \notin DOMAIN events /\ j \in DOMAIN events
    <3>1. Logged(events'[i].event.id)
      BY <1>3, <2>4 DEF Logged, In
    <3> QED BY <1>3, <1>4, <2>4, <3>1
  <2> QED BY <2>1, <2>2, <2>3, <2>4
<1>7. \A y \in folded' : y.f.tag = NoId \/ In(events', y.f.tag)
  BY <1>1, <1>5 DEF CountOK
<1>8. ASSUME NEW g \in Handlers, NEW i \in DOMAIN Due(handler'[g]), Due(handler'[g])[i].tag # NoId
      PROVE  /\ In(events', Due(handler'[g])[i].tag)
             /\ \A y \in folded' : y.f.tag # Due(handler'[g])[i].tag
  <2>1. CASE g = h
    <3>1. PICK k \in K : Due(handler'[g])[i].tag = batch[k].id
      BY <1>2, <1>8, <2>1 DEF new
    <3>2. ~Logged(batch[k].id) /\ In(events', batch[k].id) /\ batch[k].id # NoId
      BY <1>4, <1>8, <3>1
    <3>3. \A y \in folded : y.f.tag # batch[k].id
      BY <3>2 DEF CountOK
    <3> QED BY <1>1, <3>1, <3>2, <3>3
  <2>2. CASE g # h
    <3>1. Due(handler'[g]) = Due(handler[g])
      BY <1>1, <2>2
    <3>2. Logged(Due(handler[g])[i].tag) /\ \A y \in folded : y.f.tag # Due(handler[g])[i].tag
      BY <1>8, <3>1 DEF CountOK
    <3> QED BY <1>1, <1>5, <3>1, <3>2
  <2> QED BY <2>1, <2>2
<1>9. ASSUME NEW g \in Handlers, NEW k \in Handlers,
             NEW i \in DOMAIN Due(handler'[g]), NEW j \in DOMAIN Due(handler'[k]),
             Due(handler'[g])[i].tag = Due(handler'[k])[j].tag, Due(handler'[g])[i].tag # NoId
      PROVE  g = k /\ i = j
  <2>1. ASSUME NEW l \in Handlers \ {h}, NEW m \in DOMAIN Due(handler'[l]), NEW n \in DOMAIN new,
               Due(handler'[l])[m].tag = new[n].tag, new[n].tag # NoId
        PROVE  FALSE
    <3>1. PICK q \in K : new[n].tag = batch[q].id
      BY <1>2, <2>1
    <3>2. ~Logged(new[n].tag)
      BY <1>4, <2>1, <3>1
    <3>3. Due(handler'[l]) = Due(handler[l])
      BY <1>1
    <3>4. Logged(Due(handler[l])[m].tag)
      BY <2>1, <3>3 DEF CountOK
    <3> QED BY <2>1, <3>2, <3>3, <3>4
  <2>2. CASE g = h /\ k = h
    BY <1>2, <1>9, <2>2 DEF new
  <2>3. CASE g = h /\ k # h
    BY <1>9, <2>1, <2>3 DEF new
  <2>4. CASE g # h /\ k = h
    BY <1>9, <2>1, <2>4 DEF new
  <2>5. CASE g # h /\ k # h
    <3>1. Due(handler'[g]) = Due(handler[g]) /\ Due(handler'[k]) = Due(handler[k])
      BY <1>1, <2>5
    <3> QED BY <1>9, <3>1 DEF CountOK
  <2> QED BY <2>2, <2>3, <2>4, <2>5
<1>10. \A id : Logged(id)' <=> id # NoId /\ In(events', id)
  BY DEF Logged, In
<1> QED BY <1>6, <1>7, <1>8, <1>9, <1>10 DEF CountOK

\* No fold is made, lost or taken up.
LEMMA SameCounts ==
    ASSUME CountOK, TasteOK', UNCHANGED <<events, folded>>,
           \A h \in Handlers : Due(handler'[h]) = Due(handler[h])
    PROVE  CountOK'
<1>1. \A id : Logged(id)' = Logged(id)
  BY DEF Logged
<1>2. ResendsCountOnce'
  BY DEF CountOK, ResendsCountOnce
<1>3. \A y \in folded' : y.f.tag = NoId \/ Logged(y.f.tag)
  BY DEF CountOK
<1>4. ASSUME NEW g \in Handlers, NEW i \in DOMAIN Due(handler'[g]), Due(handler'[g])[i].tag # NoId
      PROVE  Logged(Due(handler'[g])[i].tag) /\ \A y \in folded' : y.f.tag # Due(handler'[g])[i].tag
  <2>1. Due(handler'[g]) = Due(handler[g])
    OBVIOUS
  <2> QED BY <1>4, <2>1 DEF CountOK
<1>5. ASSUME NEW g \in Handlers, NEW k \in Handlers,
             NEW i \in DOMAIN Due(handler'[g]), NEW j \in DOMAIN Due(handler'[k]),
             Due(handler'[g])[i].tag = Due(handler'[k])[j].tag, Due(handler'[g])[i].tag # NoId
      PROVE  g = k /\ i = j
  <2>1. Due(handler'[g]) = Due(handler[g]) /\ Due(handler'[k]) = Due(handler[k])
    OBVIOUS
  <2> QED BY <1>5, <2>1 DEF CountOK
<1> QED BY <1>1, <1>2, <1>3, <1>4, <1>5 DEF CountOK

LEMMA CountStart ==
    ASSUME NEW program, NEW times, NEW f, NEW verdicts, TasteInit(program, times, f, verdicts)
    PROVE  TasteOK /\ CountOK /\ \A h \in Handlers : Unlogged(handler[h]) = {}
<1>1. /\ DOMAIN handler = Handlers /\ \A h \in Handlers : handler[h] = NoRequest
      /\ events = <<>> /\ listen = Nothing /\ severed = FALSE /\ folded = {}
  BY DEF TasteInit
<1>2. <<>> \in Seq(LogRow) /\ DOMAIN <<>> = {}
  OBVIOUS
<1>3. TasteOK
  BY <1>1, <1>2, NoFolds DEF TasteOK
<1>4. CountOK
  BY <1>1, <1>2, <1>3, NoFolds DEF CountOK, ResendsCountOnce
<1> QED BY <1>1, <1>3, <1>4, NoFolds

\* gateway events.rs, music-recommend events.rs: however often a batch is sent
\* again, whatever was lost in between, and however requests overlap and the
\* gateway restarts, an event with an id is logged once and folded at most once.
THEOREM ResendsAreCountedOnce ==
    ASSUME NEW program, NEW times, NEW f, NEW verdicts
    PROVE  TasteInit(program, times, f, verdicts) /\ [][TasteStep]_tasteVars => []ResendsCountOnce
<1>1. TasteInit(program, times, f, verdicts) => CountOK
  BY CountStart
<1>2. CountOK /\ [TasteStep]_tasteVars => CountOK'
  <2> SUFFICES ASSUME CountOK, [TasteStep]_tasteVars PROVE CountOK'
    OBVIOUS
  <2>1. TasteOK /\ TasteOK'
    BY TasteKeepsShape DEF CountOK
  <2>2. ASSUME NEW h \in Handlers, NEW skip \in {0, 1}, Onward(h), Consumed(h, skip) PROVE CountOK'
    <3>1. UNCHANGED events /\ \A g \in Handlers \ {h} : Due(handler'[g]) = Due(handler[g])
      BY <2>2 DEF Onward, Untouched
    <3> QED BY <2>1, <2>2, <3>1, ConsumedCounts
  <2>3. ASSUME NEW h \in Handlers, StampNext(h) PROVE CountOK'
    <3>1. /\ UNCHANGED <<events, folded>> /\ Due(handler'[h]) = <<>> /\ handler[h].step = "stamp"
          /\ \A g \in Handlers \ {h} : Due(handler'[g]) = Due(handler[g])
      BY <2>1, <2>3, StampOK DEF Marked, Untouched
    <3>2. \A g \in Handlers : Due(handler'[g]) = Due(handler[g])
      BY <3>1 DEF Due
    <3> QED BY <2>1, <3>1, <3>2, SameCounts
  <2>4. ASSUME NEW h \in Handlers, AppendBatch(h) PROVE CountOK'
    BY <2>1, <2>4, AppendCounts
  <2>5. CASE Restart
    <3>1. /\ \A h \in Handlers : Due(handler'[h]) = <<>>
          /\ UNCHANGED <<events, folded>>
      BY <2>5, RestartOK, NoFolds
    <3> QED BY <2>1, <3>1, NoFolds DEF CountOK, ResendsCountOnce, Logged
  <2>6. ASSUME NEW entity, NEW verdict, Rate(entity, verdict) PROVE CountOK'
    BY <2>1, <2>6, RateOK, SameCounts DEF Untouched
  <2>7. CASE UNCHANGED tasteVars
    <3>1. UNCHANGED <<events, folded, handler>>
      BY <2>7 DEF tasteVars, tables
    <3> QED BY <2>1, <3>1, SameCounts
  <2> QED BY <2>1, <2>2, <2>3, <2>4, <2>5, <2>6, <2>7, AdmitOnward, FoldOnward DEF TasteNext, TasteStep
<1>3. CountOK => ResendsCountOnce
  BY DEF CountOK
<1> QED BY <1>1, <1>2, <1>3, PTL

-----------------------------------------------------------------------------
(* The open session survives a restart. *)

\* cur is the session of the newest activity there is in the log and in hand:
\* nothing ends later, something ends then, and what ends then is in it, in the
\* log at least the last row that does.
Holds(cur, log, doing) ==
    /\ \A i \in DOMAIN log : log[i].event.at <= cur.last
    /\ \A h \in Handlers : \A i \in Unlogged(doing[h]) :
          /\ doing[h].req.batch[i].at <= cur.last
          /\ doing[h].req.batch[i].at = cur.last => doing[h].sessions[i] = cur.id
    /\ \/ \E i \in DOMAIN log : log[i].event.at = cur.last
       \/ \E h \in Handlers : \E i \in Unlogged(doing[h]) : doing[h].req.batch[i].at = cur.last
    /\ \A i \in DOMAIN log :
          /\ log[i].event.at = cur.last
          /\ \A j \in DOMAIN log : j > i => log[j].event.at # cur.last
          => log[i].session = cur.id

SessionOK ==
    /\ TasteOK
    /\ listen = Nothing => \A h \in Handlers : Unlogged(handler[h]) = {}
    /\ severed = FALSE /\ listen # Nothing => Holds(listen, events, handler)

LEMMA HandsFrame ==
    ASSUME NEW cur, NEW log, NEW doing, Holds(cur, log, doing), NEW doing2,
           \A h \in Handlers : /\ Unlogged(doing2[h]) = Unlogged(doing[h])
                               /\ Unlogged(doing[h]) # {} => doing2[h] = doing[h]
    PROVE  Holds(cur, log, doing2)
BY DEF Holds

LEMMA UntouchedHands ==
    ASSUME NEW x, NEW y, Untouched(x, y)
    PROVE  Unlogged(y) = Unlogged(x) /\ (Unlogged(x) # {} => y = x)
BY DEF Untouched, Unlogged

\* After a boot the newest row of the log speaks for all of it.
LEMMA ResumedHolds ==
    ASSUME SessionOK, severed = FALSE
    PROVE  \/ Resumed = Nothing /\ events = <<>> /\ \A h \in Handlers : Unlogged(handler[h]) = {}
           \/ Resumed # Nothing /\ Holds(Resumed, events, handler)
<1>1. TasteOK
  BY DEF SessionOK
<1>2. CASE listen # Nothing
  BY <1>2 DEF SessionOK, Resumed
<1>3. CASE listen = Nothing
  <2>1. Resumed = LastListenSession /\ \A h \in Handlers : Unlogged(handler[h]) = {}
    BY <1>3 DEF SessionOK, Resumed
  <2>2. CASE events = <<>>
    BY <1>1, <2>1, <2>2, LastFacts
  <2>3. CASE events # <<>>
    <3>1. PICK c \in DOMAIN events : Newest(c) /\ LastListenSession = [id |-> events[c].session, last |-> At(c)]
      BY <1>1, <2>3, LastFacts
    <3> DEFINE cur == LastListenSession
    <3>2. cur.id = events[c].session /\ cur.last = At(c) /\ cur \in Listening
      BY <1>1, <3>1, RowFacts DEF Listening
    <3> HIDE DEF cur
    <3>3. cur # Nothing
      BY <3>2, TasteAssumption DEF Listening
    <3>4. DOMAIN events \subseteq Nat /\ \A i \in DOMAIN events : At(i) \in Nat
      BY <1>1, RowFacts
    <3>5. \A i \in DOMAIN events : At(i) <= At(c) /\ (At(i) = At(c) => c >= i)
      BY <3>1, <3>4 DEF Newest, Beats
    <3>6. ASSUME NEW i \in DOMAIN events, At(i) = At(c), \A j \in DOMAIN events : j > i => At(j) # At(c)
          PROVE  i = c
      BY <3>1, <3>4, <3>5, <3>6
    <3>7. Holds(cur, events, handler)
      BY <2>1, <3>1, <3>2, <3>5, <3>6 DEF Holds, At
    <3> QED BY <2>1, <3>3, <3>7 DEF cur
  <2> QED BY <2>2, <2>3
<1> QED BY <1>2, <1>3

\* What is in hand are events of the batch.
LEMMA UnloggedFacts ==
    ASSUME TasteOK, NEW h \in Handlers, NEW i \in Unlogged(handler[h])
    PROVE  /\ handler[h].req \in Bearers /\ i \in DOMAIN handler[h].req.batch
           /\ handler[h].req.batch[i] \in Sent /\ handler[h].req.batch[i].at \in Nat
<1> DEFINE x == handler[h]
<1>1. RequestOK(x) /\ x.step \in {"stamp", "append"} /\ i \in DOMAIN x.sessions
  BY DEF TasteOK, Unlogged
<1> HIDE DEF x
<1>2. x.req \in Bearers /\ x.sessions \in Seq(Int) /\ Len(x.sessions) <= Len(x.req.batch)
  BY <1>1 DEF RequestOK
<1>3. DOMAIN x.sessions = 1 .. Len(x.sessions) /\ Len(x.sessions) \in Nat
  BY <1>2, SeqFacts
<1>4. DOMAIN x.req.batch = 1 .. Len(x.req.batch) /\ Len(x.req.batch) \in Nat
      /\ \A j \in DOMAIN x.req.batch : x.req.batch[j] \in Sent
  BY <1>2, BatchFacts
<1>5. i \in DOMAIN x.req.batch
  BY <1>1, <1>2, <1>3, <1>4
<1> QED BY <1>2, <1>4, <1>5, TasteAssumption DEF x

\* A stamp: the event joins the open session or opens one that ends later.
LEMMA StampHolds ==
    ASSUME SessionOK, NEW h \in Handlers, StampNext(h), severed' = FALSE
    PROVE  Holds(listen', events', handler')
<1> DEFINE n == Len(handler[h].sessions) + 1
           e == handler[h].req.batch[n]
<1>1. TasteOK
  BY DEF SessionOK
<1>2. PICK cur \in {Nothing} \cup Listening :
        /\ e \in Sent /\ cur = Resumed /\ severed = FALSE
        /\ listen' = Advance(cur, e.at - e.heard, e.at)
        /\ Marked(handler[h], handler'[h], Advance(cur, e.at - e.heard, e.at).id)
        /\ \A g \in Handlers \ {h} : Untouched(handler[g], handler'[g])
  BY <1>1, StampOK
<1> DEFINE next == Advance(cur, e.at - e.heard, e.at)
<1>3. /\ next \in Listening /\ e.at <= next.last /\ e.at \in Nat /\ next.last \in Nat
      /\ cur = Nothing => next.last = e.at
      /\ cur # Nothing => /\ cur.last <= next.last /\ next.last \in {cur.last, e.at} /\ cur.last \in Nat
                          /\ next.last = cur.last => next.id = cur.id
  BY <1>2, AdvanceFacts, TasteAssumption DEF Listening
<1>4. UNCHANGED events
  BY <1>1, StampOK
<1>5. /\ Unlogged(handler'[h]) = Unlogged(handler[h]) \cup {n} /\ handler'[h].req = handler[h].req
      /\ n \notin Unlogged(handler[h]) /\ handler'[h].sessions[n] = next.id
      /\ \A i \in Unlogged(handler[h]) : handler'[h].sessions[i] = handler[h].sessions[i]
  BY <1>2 DEF Marked
<1>6. \A g \in Handlers \ {h} : Unlogged(handler'[g]) = Unlogged(handler[g]) /\ (Unlogged(handler[g]) # {} => handler'[g] = handler[g])
  BY <1>2, UntouchedHands
<1> DEFINE was(g, i) == handler[g].req.batch[i].at
           is(g, i) == handler'[g].req.batch[i].at
<1>7. /\ n \in Unlogged(handler'[h]) /\ is(h, n) = e.at
      /\ \A g \in Handlers : \A i \in Unlogged(handler[g]) :
            /\ i \in Unlogged(handler'[g]) /\ is(g, i) = was(g, i)
            /\ handler'[g].sessions[i] = handler[g].sessions[i] /\ was(g, i) \in Nat
      /\ \A g \in Handlers : \A i \in Unlogged(handler'[g]) : i \in Unlogged(handler[g]) \/ (g = h /\ i = n)
  <2>1. \A g \in Handlers : \A i \in Unlogged(handler[g]) : was(g, i) \in Nat
    BY <1>1, UnloggedFacts
  <2> QED BY <1>5, <1>6, <2>1
<1>8. \A i \in DOMAIN events : At(i) \in Nat
  BY <1>1, RowFacts
<1> HIDE DEF n, e, next
<1>9. \/ cur = Nothing /\ events = <<>> /\ \A g \in Handlers : Unlogged(handler[g]) = {}
      \/ cur # Nothing /\ Holds(cur, events, handler)
  BY <1>2, ResumedHolds
<1>10. ASSUME NEW i \in DOMAIN events PROVE At(i) <= next.last /\ (At(i) = next.last => cur # Nothing /\ next.last = cur.last)
  <2>1. cur # Nothing /\ At(i) <= cur.last
    <3>1. DOMAIN <<>> = {}
      OBVIOUS
    <3> QED BY <1>9, <3>1 DEF Holds, At
  <2> QED BY <1>3, <1>8, <2>1
<1>11. ASSUME NEW g \in Handlers, NEW i \in Unlogged(handler'[g])
       PROVE  is(g, i) <= next.last /\ (is(g, i) = next.last => handler'[g].sessions[i] = next.id)
  <2>1. CASE g = h /\ i = n
    BY <1>3, <1>5, <1>7, <2>1
  <2>2. CASE i \in Unlogged(handler[g])
    <3>1. cur # Nothing /\ was(g, i) <= cur.last /\ (was(g, i) = cur.last => handler[g].sessions[i] = cur.id)
      BY <1>9, <2>2 DEF Holds
    <3>2. was(g, i) \in Nat /\ is(g, i) = was(g, i) /\ handler'[g].sessions[i] = handler[g].sessions[i]
      BY <1>7, <2>2
    <3> HIDE DEF was, is
    <3> QED BY <1>3, <3>1, <3>2
  <2> QED BY <1>7, <2>1, <2>2
<1>12. \/ \E i \in DOMAIN events : At(i) = next.last
       \/ \E g \in Handlers : \E i \in Unlogged(handler'[g]) : is(g, i) = next.last
  <2>1. CASE next.last = e.at
    BY <1>7, <2>1
  <2>2. CASE next.last # e.at
    <3>1. cur # Nothing /\ next.last = cur.last
      BY <1>3, <2>2
    <3>2. \/ \E i \in DOMAIN events : At(i) = cur.last
          \/ \E g \in Handlers : \E i \in Unlogged(handler[g]) : was(g, i) = cur.last
      BY <1>9, <3>1 DEF Holds, At
    <3> QED BY <1>7, <3>1, <3>2
  <2> QED BY <2>1, <2>2
<1>13. ASSUME NEW i \in DOMAIN events, At(i) = next.last, \A j \in DOMAIN events : j > i => At(j) # next.last
       PROVE  events[i].session = next.id
  <2>1. cur # Nothing /\ next.last = cur.last /\ next.id = cur.id
    BY <1>3, <1>10, <1>13
  <2> QED BY <1>9, <1>13, <2>1 DEF Holds, At
<1>14. Holds(next, events, handler')
  BY <1>10, <1>11, <1>12, <1>13 DEF Holds, At
<1> QED BY <1>2, <1>4, <1>14 DEF next

\* A batch is logged: what was in hand at h is in the log, now or already.
LEMMA AppendHolds ==
    ASSUME TasteOK, NEW h \in Handlers, AppendBatch(h), Holds(listen, events, handler)
    PROVE  Holds(listen, events', handler')
<1> DEFINE b == handler[h].req.batch
           K == FreshIn(b)
<1>1. /\ handler[h].req \in Bearers /\ Unlogged(handler[h]) = DOMAIN b /\ Unlogged(handler'[h]) = {}
      /\ \A g \in Handlers \ {h} : Untouched(handler[g], handler'[g])
  BY AppendOK
<1>2. \A g \in Handlers \ {h} : Unlogged(handler'[g]) = Unlogged(handler[g]) /\ (Unlogged(handler[g]) # {} => handler'[g] = handler[g])
  BY <1>1, UntouchedHands
<1>3. /\ DOMAIN events = 1 .. Len(events) /\ Len(events) \in Nat
      /\ DOMAIN events' = 1 .. Len(events') /\ Len(events') \in Nat /\ Len(events) <= Len(events')
      /\ \A i \in DOMAIN events : i \in DOMAIN events' /\ events'[i] = events[i]
  BY LogGrows
<1>4. ASSUME NEW i \in DOMAIN events', i \notin DOMAIN events
      PROVE  /\ events'[i].event.at <= listen.last
             /\ events'[i].event.at = listen.last => events'[i].session = listen.id
  <2>1. PICK k \in K : events'[i] = [event |-> b[k], session |-> handler[h].sessions[k]]
    BY <1>4, LogGrows
  <2>2. k \in Unlogged(handler[h])
    BY <1>1, FreshEventFacts
  <2>3. b[k].at <= listen.last /\ (b[k].at = listen.last => handler[h].sessions[k] = listen.id)
    BY <2>2 DEF Holds
  <2>4. events'[i].event = b[k] /\ events'[i].session = handler[h].sessions[k]
    BY <2>1
  <2> QED BY <2>3, <2>4
<1>5. ASSUME NEW i \in DOMAIN b PROVE \E j \in DOMAIN events' : events'[j].event.at = b[i].at
  <2>1. b[i] \in Sent /\ \A k \in DOMAIN b : b[k] \in Sent
    BY <1>1, BatchFacts
  <2>2. \A k \in K : k \in DOMAIN b /\ \E j \in DOMAIN events' : events'[j].event = b[k]
    <3>1. \A k \in K : \E j \in DOMAIN events' \ DOMAIN events :
             events'[j] = [event |-> b[k], session |-> handler[h].sessions[k]]
      BY LogGrows
    <3>2. \A k \in K : k \in DOMAIN b
      BY <1>1, FreshEventFacts
    <3> HIDE DEF b, K
    <3> QED BY <3>1, <3>2
  <2>3. CASE i \in K
    BY <2>2, <2>3
  <2>4. CASE Logged(b[i].id)
    <3>1. PICK j \in DOMAIN events : events[j].event.id = b[i].id /\ b[i].id # NoId
      BY <2>4 DEF Logged
    <3>2. events[j].event \in Sent
      BY RowFacts
    <3>3. events[j].event.at = b[i].at
      BY <2>1, <3>1, <3>2, TasteAssumption
    <3> QED BY <1>3, <3>3
  <2>5. CASE i \notin K /\ ~Logged(b[i].id)
    <3>1. b[i].id # NoId
      BY <2>5 DEF FreshIn
    <3>2. PICK k \in K : b[k].id = b[i].id
      BY <1>1, <2>5, FreshEventFacts
    <3>3. b[k].at = b[i].at
      BY <2>1, <2>2, <3>1, <3>2, TasteAssumption
    <3> QED BY <2>2, <3>3
  <2> QED BY <2>3, <2>4, <2>5
<1> HIDE DEF b, K
<1>6. \A i \in DOMAIN events' : events'[i].event.at <= listen.last
  BY <1>3, <1>4 DEF Holds
<1>7. \A g \in Handlers : \A i \in Unlogged(handler'[g]) : g # h /\ i \in Unlogged(handler[g]) /\ handler'[g] = handler[g]
  BY <1>1, <1>2
<1>8. \A g \in Handlers : \A i \in Unlogged(handler'[g]) :
         /\ handler'[g].req.batch[i].at <= listen.last
         /\ handler'[g].req.batch[i].at = listen.last => handler'[g].sessions[i] = listen.id
  BY <1>7 DEF Holds
<1>9. \/ \E i \in DOMAIN events' : events'[i].event.at = listen.last
      \/ \E g \in Handlers : \E i \in Unlogged(handler'[g]) : handler'[g].req.batch[i].at = listen.last
  <2>1. CASE \E i \in DOMAIN events : events[i].event.at = listen.last
    BY <1>3, <2>1
  <2>2. ASSUME NEW g \in Handlers, NEW i \in Unlogged(handler[g]), handler[g].req.batch[i].at = listen.last, g = h
        PROVE  \E j \in DOMAIN events' : events'[j].event.at = listen.last
    BY <1>1, <1>5, <2>2 DEF b
  <2>3. ASSUME NEW g \in Handlers, NEW i \in Unlogged(handler[g]), handler[g].req.batch[i].at = listen.last, g # h
        PROVE  i \in Unlogged(handler'[g]) /\ handler'[g].req.batch[i].at = listen.last
    BY <1>2, <2>3
  <2> QED BY <2>1, <2>2, <2>3 DEF Holds
<1>10. ASSUME NEW i \in DOMAIN events', events'[i].event.at = listen.last,
              \A j \in DOMAIN events' : j > i => events'[j].event.at # listen.last
       PROVE  events'[i].session = listen.id
  <2>1. CASE i \in DOMAIN events
    <3>1. \A j \in DOMAIN events : j > i => events[j].event.at # listen.last
      BY <1>3, <1>10
    <3> QED BY <1>3, <1>10, <2>1, <3>1 DEF Holds
  <2> QED BY <1>4, <1>10, <2>1
<1> QED BY <1>6, <1>8, <1>9, <1>10 DEF Holds

\* With nothing in hand the newest row of the log is of the open session.
LEMMA SessionKept ==
    ASSUME SessionOK
    PROVE  RestartKeepsSession
<1> SUFFICES ASSUME listen # Nothing, ~severed, \A h \in Handlers : Unlogged(handler[h]) = {}
             PROVE  LastListenSession = listen
  BY DEF RestartKeepsSession
<1>1. TasteOK /\ listen \in Listening /\ listen.last \in Nat /\ listen = [id |-> listen.id, last |-> listen.last]
  BY DEF SessionOK, TasteOK, Listening
<1>2. Holds(listen, events, handler)
  BY DEF SessionOK, TasteOK
<1>3. PICK w \in DOMAIN events : At(w) = listen.last
  BY <1>2 DEF Holds, At
<1>4. DOMAIN events \subseteq Nat /\ \A i \in DOMAIN events : At(i) \in Nat /\ At(i) <= listen.last
  BY <1>1, <1>2, RowFacts DEF Holds, At
<1>5. events # <<>>
  <2>1. DOMAIN <<>> = {}
    OBVIOUS
  <2> QED BY <1>3, <2>1
<1>6. PICK c \in DOMAIN events : Newest(c) /\ LastListenSession = [id |-> events[c].session, last |-> At(c)]
  BY <1>1, <1>5, LastFacts
<1>7. At(c) = listen.last
  BY <1>1, <1>3, <1>4, <1>6 DEF Newest, Beats
<1>8. \A j \in DOMAIN events : j > c => At(j) # listen.last
  BY <1>4, <1>6, <1>7 DEF Newest, Beats
<1>9. events[c].session = listen.id
  BY <1>2, <1>7, <1>8 DEF Holds, At
<1> QED BY <1>1, <1>6, <1>7, <1>9

\* gateway events.rs, music-recommend events.rs last_listen_session: with every
\* stamped event in the log, and the log readable when it was asked, the session
\* a restart would resume is the one that is open, however batches overlapped
\* and however late their events came.
THEOREM SessionsSurviveRestarts ==
    ASSUME NEW program, NEW times, NEW f, NEW verdicts
    PROVE  TasteInit(program, times, f, verdicts) /\ [][TasteStep]_tasteVars => []RestartKeepsSession
<1>1. TasteInit(program, times, f, verdicts) => SessionOK
  <2> SUFFICES ASSUME TasteInit(program, times, f, verdicts) PROVE SessionOK
    OBVIOUS
  <2>1. listen = Nothing
    BY DEF TasteInit
  <2> QED BY <2>1, CountStart DEF SessionOK
<1>2. SessionOK /\ [TasteStep]_tasteVars => SessionOK'
  <2> SUFFICES ASSUME SessionOK, [TasteStep]_tasteVars PROVE SessionOK'
    OBVIOUS
  <2>1. TasteOK /\ TasteOK'
    BY TasteKeepsShape DEF SessionOK
  <2>2. ASSUME NEW h \in Handlers, Onward(h) PROVE SessionOK'
    <3>1. /\ UNCHANGED <<events, listen>> /\ (severed' = FALSE => severed = FALSE /\ Unlogged(handler[h]) = {})
          /\ Unlogged(handler'[h]) = {}
          /\ \A g \in Handlers \ {h} : Untouched(handler[g], handler'[g])
      BY <2>2 DEF Onward
    <3>2. \A g \in Handlers \ {h} : Unlogged(handler'[g]) = Unlogged(handler[g])
                                  /\ (Unlogged(handler[g]) # {} => handler'[g] = handler[g])
      BY <3>1, UntouchedHands
    <3>3. listen' = Nothing => \A g \in Handlers : Unlogged(handler'[g]) = {}
      BY <3>1, <3>2 DEF SessionOK
    <3>4. ASSUME severed' = FALSE, listen' # Nothing PROVE Holds(listen', events', handler')
      <4>1. Holds(listen, events, handler)
        BY <3>1, <3>4 DEF SessionOK
      <4>2. \A g \in Handlers : Unlogged(handler'[g]) = Unlogged(handler[g])
                             /\ (Unlogged(handler[g]) # {} => handler'[g] = handler[g])
        BY <3>1, <3>2, <3>4
      <4>3. Holds(listen, events, handler')
        BY <4>1, <4>2, HandsFrame
      <4> QED BY <3>1, <4>3
    <3> QED BY <2>1, <3>3, <3>4 DEF SessionOK
  <2>3. ASSUME NEW h \in Handlers, StampNext(h) PROVE SessionOK'
    <3>1. listen' # Nothing
      <4>1. PICK cur \in {Nothing} \cup Listening, e \in Sent : listen' = Advance(cur, e.at - e.heard, e.at)
        BY <2>1, <2>3, StampOK
      <4>2. listen' \in Listening
        BY <4>1, AdvanceFacts
      <4> QED BY <4>2, TasteAssumption DEF Listening
    <3>2. severed' = FALSE => Holds(listen', events', handler')
      BY <2>3, StampHolds
    <3> QED BY <2>1, <3>1, <3>2 DEF SessionOK
  <2>4. ASSUME NEW h \in Handlers, AppendBatch(h) PROVE SessionOK'
    <3>1. /\ UNCHANGED <<listen, severed>> /\ Unlogged(handler'[h]) = {}
          /\ \A g \in Handlers \ {h} : Unlogged(handler'[g]) = Unlogged(handler[g])
      BY <2>1, <2>4, AppendOK DEF Untouched
    <3>2. severed' = FALSE /\ listen' # Nothing => Holds(listen', events', handler')
      BY <2>1, <2>4, <3>1, AppendHolds DEF SessionOK
    <3>3. listen' = Nothing => \A g \in Handlers : Unlogged(handler'[g]) = {}
      BY <3>1 DEF SessionOK
    <3> QED BY <2>1, <3>2, <3>3 DEF SessionOK
  <2>5. CASE Restart
    BY <2>1, <2>5, RestartOK, NoFolds DEF SessionOK
  <2>6. ASSUME NEW entity, NEW verdict, Rate(entity, verdict) PROVE SessionOK'
    <3>1. /\ UNCHANGED <<events, listen, severed>>
          /\ \A g \in Handlers : Unlogged(handler'[g]) = Unlogged(handler[g])
                              /\ (Unlogged(handler[g]) # {} => handler'[g] = handler[g])
      BY <2>1, <2>6, RateOK, UntouchedHands
    <3>2. Holds(listen, events, handler) => Holds(listen, events, handler')
      BY <3>1, HandsFrame
    <3> QED BY <2>1, <3>1, <3>2 DEF SessionOK
  <2>7. CASE UNCHANGED tasteVars
    <3>1. UNCHANGED <<events, listen, severed, handler>>
      BY <2>7 DEF tasteVars, tables
    <3> QED BY <2>1, <3>1 DEF SessionOK
  <2> QED BY <2>1, <2>2, <2>3, <2>4, <2>5, <2>6, <2>7, AdmitOnward, FoldOnward DEF TasteNext, TasteStep
<1>3. SessionOK => RestartKeepsSession
  BY SessionKept
<1> QED BY <1>1, <1>2, <1>3, PTL
=============================================================================
