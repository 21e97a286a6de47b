------------------------------ MODULE Sessions ------------------------------
(***************************************************************************)
(* The sessions of one account: refresh tokens as auth/token.service and   *)
(* auth.service keep them, and the web clients that present them           *)
(* (apiClient, authService, storage, AuthProvider).                        *)
(*                                                                         *)
(* The tabs of a browser share localStorage; a refresh is single-flight in *)
(* a tab only.  The server reads the token's row, revokes it and writes    *)
(* the new row in three steps with bcrypt between them; a password change  *)
(* writes the hash and revokes the account's tokens in two.  An answer can *)
(* be lost, and the server goes on without its client.                     *)
(***************************************************************************)
EXTENDS Naturals, FiniteSets

CONSTANTS
  Devices,     \* browser profiles, each with its localStorage
  Tabs,
  Openings,    \* the ways the tabs may be spread over the devices
  MaxTokens,   \* bound: rows of refresh_tokens
  MaxEra       \* bound: changes of the password

ASSUME SessionsAssumption ==
  /\ Openings \subseteq [Tabs -> Devices]
  /\ MaxTokens \in Nat /\ MaxEra \in Nat

VARIABLES
  deviceOf, \* the device each tab is open on; never changes
  era,      \* how often the password has changed
  rows,     \* refresh_tokens
  store,    \* localStorage of each device
  req,      \* the request each tab has in flight
  slipped,  \* devices on which requests overlapped, an answer was lost, or a session
            \* was dropped whose token the server still honours (history variable)
  torn      \* a password change failed between its two writes (history variable)

vars == <<deviceOf, era, rows, store, req, slipped, torn>>

Ids == 1..MaxTokens

\* era and raced (history): the password the session was opened under, and whether
\* the request that wrote the row was half-way when a password change revoked all.
\* swept (history): revokeAllForUser got it.
Row == [dev : Devices, era : 0..MaxEra, state : {"live", "revoked", "expired"},
        raced : BOOLEAN, swept : BOOLEAN]

Unused == [state |-> "unused"]

Cleared == [access |-> "none", refresh |-> 0]

Storage == [access : {"none", "fresh", "stale"}, refresh : 0..MaxTokens]

\* k: the token presented, or the one minted.  gone: the client no longer waits.
Request == [op : {"call", "refresh", "login", "change", "logout"},
            at : {"asked", "read", "revoked", "minted", "refused", "hashed", "served"},
            k : 0..MaxTokens, era : 0..MaxEra, raced : BOOLEAN, gone : BOOLEAN]

Asks(op, at, k) ==
  [op |-> op, at |-> at, k |-> k, era |-> era, raced |-> FALSE, gone |-> FALSE]

Idle == [op |-> "idle", at |-> "idle", k |-> 0, era |-> 0, raced |-> FALSE, gone |-> FALSE]

Live == {i \in Ids : rows[i].state = "live"}

InFlight(d) == {t \in Tabs : deviceOf[t] = d /\ req[t] # Idle}

Init ==
  /\ deviceOf \in Openings
  /\ era = 0
  /\ rows = [i \in Ids |-> Unused]
  /\ store = [d \in Devices |-> Cleared]
  /\ req = [t \in Tabs |-> Idle]
  /\ slipped = {}
  /\ torn = FALSE

-----------------------------------------------------------------------------
(* How a request starts and ends in its tab.                               *)

Slips(d) == slipped' = slipped \cup {d}

Begin(t, r) ==
  /\ req[t] = Idle
  /\ req' = [req EXCEPT ![t] = r]
  /\ UNCHANGED <<era, rows, torn, deviceOf>>

\* Tabs that work side by side on a storage both write.
BesideOthers(t) ==
  IF InFlight(deviceOf[t]) = {} THEN UNCHANGED slipped ELSE Slips(deviceOf[t])

Proceed(t, r) == req' = [req EXCEPT ![t] = r]

Done(t) == Proceed(t, Idle)

ClearStore(t) == store' = [store EXCEPT ![deviceOf[t]] = Cleared]

-----------------------------------------------------------------------------
(* The client.                                                             *)

\* The 15 minutes of an access token pass.
AccessExpires(d) ==
  /\ store[d].access = "fresh"
  /\ store' = [store EXCEPT ![d].access = "stale"]
  /\ UNCHANGED <<era, rows, req, slipped, torn, deviceOf>>

\* A request with an access token the server will not take.
Call(t) ==
  /\ store[deviceOf[t]].access = "stale"
  /\ Begin(t, Asks("call", "asked", 0))
  /\ BesideOthers(t)
  /\ UNCHANGED store

RetriesWithoutToken(t) ==
  /\ req[t].op = "call"
  /\ Proceed(t, Asks("refresh", "asked", store[deviceOf[t]].refresh))
  /\ UNCHANGED <<era, rows, store, slipped, torn, deviceOf>>

\* The response interceptor: refreshAccessToken takes the token the storage has by
\* now, and without one the tab is logged out.
Unauthorized(t) ==
  LET k == store[deviceOf[t]].refresh IN
  /\ req[t].op = "call"
  /\ \/ k # 0 /\ Proceed(t, Asks("refresh", "asked", k)) /\ UNCHANGED store
     \/ k = 0 /\ Done(t) /\ ClearStore(t)
  /\ UNCHANGED <<era, rows, slipped, torn, deviceOf>>

ReceiveUnrotated(t) ==
  LET k == store[deviceOf[t]].refresh IN
  /\ req[t].at = "minted" /\ ~req[t].gone
  /\ store' = [store EXCEPT ![deviceOf[t]] =
       [access |-> "fresh", refresh |-> IF k # 0 THEN k ELSE req[t].k]]
  /\ Done(t)
  /\ UNCHANGED <<era, rows, slipped, torn, deviceOf>>

\* tokenStorage.set, with the tokens of a refresh or of a login.
Receive(t) ==
  /\ req[t].at = "minted" /\ ~req[t].gone
  /\ store' = [store EXCEPT ![deviceOf[t]] = [access |-> "fresh", refresh |-> req[t].k]]
  /\ Done(t)
  /\ UNCHANGED <<era, rows, slipped, torn, deviceOf>>

\* A refresh that failed ends the session of the device.
Refused(t) ==
  /\ req[t].at = "refused" /\ ~req[t].gone
  /\ ClearStore(t)
  /\ Done(t)
  /\ UNCHANGED <<era, rows, slipped, torn, deviceOf>>

\* The connection breaks while a refresh or a login is out.  To refreshAccessToken
\* that is a failure like any other.  (Bound: the tab asks for nothing more until the
\* server is through with the request.)
Lose(t) ==
  /\ req[t].op \in {"refresh", "login"} /\ ~req[t].gone
  /\ Proceed(t, [req[t] EXCEPT !.gone = TRUE])
  /\ IF req[t].op = "refresh" THEN ClearStore(t) ELSE UNCHANGED store
  /\ Slips(deviceOf[t])
  /\ UNCHANGED <<era, rows, torn, deviceOf>>

Discard(t) ==
  /\ req[t].gone /\ req[t].at \in {"minted", "refused"}
  /\ Done(t)
  /\ UNCHANGED <<era, rows, store, slipped, torn, deviceOf>>

\* AuthProvider restores a session with /auth/me, which is not retried after a
\* refresh; whatever error it meets clears the storage.
RestoreFails(t) ==
  /\ req[t] = Idle
  /\ store[deviceOf[t]] # Cleared
  /\ ClearStore(t)
  /\ Slips(deviceOf[t])
  /\ UNCHANGED <<era, rows, req, torn, deviceOf>>

\* The route wants a valid access token, and /auth/ calls are not retried: with a
\* stale one the server revokes nothing.
Logout(t) ==
  LET s == store[deviceOf[t]] IN
  /\ s # Cleared
  /\ \/ s.access = "fresh" /\ Begin(t, Asks("logout", "asked", s.refresh)) /\ BesideOthers(t)
     \/ s.access # "fresh" /\ Begin(t, Asks("logout", "served", s.refresh)) /\ Slips(deviceOf[t])
  /\ UNCHANGED store

LogoutLost(t) ==
  /\ req[t].op = "logout" /\ req[t].at = "asked"
  /\ Proceed(t, [req[t] EXCEPT !.at = "served"])
  /\ Slips(deviceOf[t])
  /\ UNCHANGED <<era, rows, store, torn, deviceOf>>

FinishLogout(t) ==
  /\ req[t].op = "logout" /\ req[t].at = "served"
  /\ ClearStore(t)
  /\ Done(t)
  /\ UNCHANGED <<era, rows, slipped, torn, deviceOf>>

-----------------------------------------------------------------------------
(* The server.                                                             *)

Revoked(i) == [rows EXCEPT ![i].state = "revoked"]

\* revokeAllForUser.
Swept == [i \in Ids |-> IF i \in Live THEN [rows[i] EXCEPT !.state = "revoked", !.swept = TRUE]
                        ELSE rows[i]]

\* rotateRefreshToken: a revoked token raises the alarm.  Otherwise it is refused
\* when its 30 days are over, which the row keeps from here on.
ReadToken(t) ==
  LET r == req[t]
      row == rows[r.k] IN
  /\ r.op = "refresh" /\ r.at = "asked"
  /\ \/ /\ row.state = "live" /\ UNCHANGED rows
        /\ Proceed(t, [r EXCEPT !.at = "read", !.era = row.era, !.raced = row.raced])
     \/ /\ row.state # "revoked"
        /\ rows' = [rows EXCEPT ![r.k].state = "expired"]
        /\ Proceed(t, [r EXCEPT !.at = "refused"])
     \/ row.state = "revoked" /\ rows' = Swept /\ Proceed(t, [r EXCEPT !.at = "refused"])
  /\ UNCHANGED <<era, store, slipped, torn, deviceOf>>

\* The account is not active now, and may be again: the token is refused like the others,
\* but its row stays live.
RefuseAccount(t) ==
  /\ req[t].op = "refresh" /\ req[t].at = "asked"
  /\ rows[req[t].k].state = "live"
  /\ Proceed(t, [req[t] EXCEPT !.at = "refused"])
  /\ Slips(deviceOf[t])
  /\ UNCHANGED <<era, rows, store, torn, deviceOf>>

KeepPresented(t) ==
  /\ req[t].op = "refresh" /\ req[t].at = "read"
  /\ Proceed(t, [req[t] EXCEPT !.at = "revoked"])
  /\ UNCHANGED <<era, rows, store, slipped, torn, deviceOf>>

\* The row is revoked by its id, whatever it says by now.
RevokePresented(t) ==
  /\ req[t].op = "refresh" /\ req[t].at = "read"
  /\ rows' = Revoked(req[t].k)
  /\ Proceed(t, [req[t] EXCEPT !.at = "revoked"])
  /\ UNCHANGED <<era, store, slipped, torn, deviceOf>>

\* issueTokens.
Mint(t) ==
  LET r == req[t] IN
  /\ \/ r.op = "refresh" /\ r.at = "revoked"
     \/ r.op = "login" /\ r.at = "read"
  /\ \E i \in Ids :
       /\ rows[i] = Unused /\ \A j \in Ids : rows[j] = Unused => i <= j
       /\ rows' = [rows EXCEPT ![i] =
            [dev |-> deviceOf[t], era |-> r.era, state |-> "live", raced |-> r.raced,
             swept |-> FALSE]]
       /\ Proceed(t, [r EXCEPT !.at = "minted", !.k = i])
  /\ UNCHANGED <<era, store, slipped, torn, deviceOf>>

\* login: the password is the one in force.  A tab left on the login page may do so
\* over the session of another tab.
Login(t) ==
  /\ Begin(t, Asks("login", "read", 0))
  /\ IF store[deviceOf[t]] = Cleared THEN BesideOthers(t) ELSE Slips(deviceOf[t])
  /\ UNCHANGED store

ServeLogout(t) ==
  /\ req[t].op = "logout" /\ req[t].at = "asked"
  /\ rows' = IF req[t].k \in Live THEN Revoked(req[t].k) ELSE rows
  /\ Proceed(t, [req[t] EXCEPT !.at = "served"])
  /\ UNCHANGED <<era, store, slipped, torn, deviceOf>>

\* changePassword, and resetPassword with the link of the mail, write the new hash.
ChangeHash(t) ==
  /\ req[t] = Idle
  /\ era < MaxEra
  /\ era' = era + 1
  /\ Proceed(t, Asks("change", "hashed", 0))
  /\ BesideOthers(t)
  /\ UNCHANGED <<rows, store, torn, deviceOf>>

\* A request that has read and not written yet will write behind the sweep.
Overtaken(r) == IF r.at \in {"read", "revoked"} THEN [r EXCEPT !.raced = TRUE] ELSE r

RevokeOwn(t) ==
  /\ req[t].op = "change" /\ req[t].at = "hashed"
  /\ rows' = [i \in Ids |-> IF i \in Live /\ rows[i].dev = deviceOf[t]
                            THEN [rows[i] EXCEPT !.state = "revoked", !.swept = TRUE]
                            ELSE rows[i]]
  /\ req' = [u \in Tabs |-> IF u = t THEN Idle ELSE Overtaken(req[u])]
  /\ UNCHANGED <<era, store, slipped, torn, deviceOf>>

RevokeAll(t) ==
  /\ req[t].op = "change" /\ req[t].at = "hashed"
  /\ rows' = Swept
  /\ req' = [u \in Tabs |-> IF u = t THEN Idle ELSE Overtaken(req[u])]
  /\ UNCHANGED <<era, store, slipped, torn, deviceOf>>

\* The process or the database fails between the two writes.
FailChange(t) ==
  /\ req[t].op = "change" /\ req[t].at = "hashed"
  /\ torn' = TRUE
  /\ Done(t)
  /\ UNCHANGED <<era, rows, store, slipped, deviceOf>>

-----------------------------------------------------------------------------
Client(t) ==
  \/ Call(t) \/ Unauthorized(t) \/ Receive(t) \/ Refused(t) \/ Lose(t) \/ Discard(t)
  \/ RestoreFails(t) \/ Logout(t) \/ LogoutLost(t) \/ FinishLogout(t) \/ Login(t)

Server(t) ==
  \/ ReadToken(t) \/ RefuseAccount(t) \/ RevokePresented(t) \/ Mint(t) \/ ServeLogout(t)
  \/ ChangeHash(t) \/ RevokeAll(t) \/ FailChange(t)

Next ==
  \/ \E d \in Devices : AccessExpires(d)
  \/ \E t \in Tabs : Client(t) \/ Server(t)

Spec == Init /\ [][Next]_vars

-----------------------------------------------------------------------------
(* Properties.                                                             *)

\* Every token a client or a request names has a row, and a refresh presents one.
TypeOK ==
  /\ deviceOf \in [Tabs -> Devices]
  /\ era \in 0..MaxEra
  /\ rows \in [Ids -> Row \cup {Unused}]
  /\ store \in [Devices -> Storage]
  /\ req \in [Tabs -> Request \cup {Idle}]
  /\ slipped \subseteq Devices /\ torn \in BOOLEAN
  /\ \A d \in Devices : store[d].refresh # 0 => rows[store[d].refresh] # Unused
  /\ \A t \in Tabs : /\ req[t].k # 0 => rows[req[t].k] # Unused
                     /\ req[t].op = "refresh" => req[t].k # 0

\* A password change ends the sessions opened under the old one: those that go on
\* were half-way through a refresh or a login when the tokens were revoked, or the
\* change failed between its two writes.
OldSessionsNeedARace ==
  (~torn /\ \A t \in Tabs : req[t].at # "hashed") =>
    \A i \in Live : rows[i].era = era \/ rows[i].raced

\* On a device whose requests never overlapped or got lost, the session in the
\* storage is the only one the server still honours.
OneSessionPerDevice ==
  \A d \in Devices \ slipped : InFlight(d) = {} =>
    \A i \in Live : rows[i].dev = d => store[d].refresh = i

\* A token that a device keeps was revoked only by a sweep of the whole account: no
\* interleaving of tabs leaves one that its own refresh or logout has used up.
StoredTokenIsUsable ==
  \A d \in Devices : InFlight(d) = {} /\ store[d].refresh # 0 =>
    LET row == rows[store[d].refresh] IN row.state # "revoked" \/ row.swept
=============================================================================
