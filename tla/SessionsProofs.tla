--------------------------- MODULE SessionsProofs ---------------------------
(***************************************************************************)
(* Proofs about Sessions, for any number of tabs and devices, of refresh   *)
(* tokens and of password changes.                                         *)
(***************************************************************************)
EXTENDS Sessions, TLAPS

-----------------------------------------------------------------------------
(* The inductive invariant.                                                *)

\* No password change is between its two writes, and none ended there.
Settled == ~torn /\ \A t \in Tabs : req[t].at # "hashed"

\* What belongs to the old password, a session or a request about to write one, is marked.
EraInv ==
  Settled =>
    /\ \A i \in Live : rows[i].era = era \/ rows[i].raced
    /\ \A t \in Tabs : req[t].at \in {"read", "revoked"} => req[t].era = era \/ req[t].raced

Good(k) == rows[k].state = "revoked" => rows[k].swept

\* A token on its way to its client is known to nobody else.
FreshInv ==
  \A t \in Tabs : req[t].at = "minted" =>
    /\ req[t].k # 0
    /\ Good(req[t].k)
    /\ \A u \in Tabs \ {t} : req[u].k # req[t].k
    /\ \A d \in Devices : store[d].refresh # req[t].k

\* A token is kept by one device, and presented by a tab of that device which waits for
\* the answer; a tab that does not wait has cleared it away.
OwnerInv ==
  /\ \A d, e \in Devices : store[d].refresh = store[e].refresh /\ store[d].refresh # 0 => d = e
  /\ \A t \in Tabs, d \in Devices :
       /\ req[t].op \in {"refresh", "logout"} /\ req[t].at \in {"asked", "read"}
       /\ store[d].refresh = req[t].k /\ req[t].k # 0
       => d = deviceOf[t] /\ ~req[t].gone

\* A tab that will write over the token its device keeps.
Replaces(t) ==
  \/ req[t].op = "refresh" /\ req[t].at \in {"revoked", "minted"} /\ ~req[t].gone
  \/ req[t].op = "logout" /\ req[t].at = "served"

UsedUpInv ==
  \A d \in Devices : store[d].refresh # 0 /\ ~Good(store[d].refresh) =>
    \E t \in Tabs : deviceOf[t] = d /\ Replaces(t)

\* A call for data has only been asked for.
CallInv == \A t \in Tabs : req[t].op = "call" => req[t].at = "asked"

\* One request at most is under way, it presents the token of the storage, and the
\* session that lives is the one it will leave there.
Orderly(d) ==
  /\ \A t, u \in InFlight(d) : t = u
  /\ \A t \in InFlight(d) :
       /\ ~req[t].gone
       /\ req[t].op \in {"refresh", "logout"} /\ req[t].at \in {"asked", "read"}
            => req[t].k = store[d].refresh
       /\ req[t].op = "login" /\ req[t].at = "read" => store[d] = Cleared
  /\ \A i \in Live : rows[i].dev = d =>
       \/ \E t \in InFlight(d) : req[t].at = "minted" /\ req[t].k = i
       \/ /\ store[d].refresh = i
          /\ \A t \in InFlight(d) : req[t].at \notin {"revoked", "minted", "refused", "served"}

OrderlyInv == \A d \in Devices \ slipped : Orderly(d)

Inv ==
  /\ TypeOK
  /\ EraInv
  /\ FreshInv
  /\ OwnerInv
  /\ UsedUpInv
  /\ CallInv
  /\ OrderlyInv

-----------------------------------------------------------------------------
(* Lemmas.                                                                 *)

LEMMA RowType ==
  /\ Unused.state = "unused"
  /\ \A row \in Row :
       /\ row # Unused /\ row.state \in {"live", "revoked", "expired"}
       /\ row.dev \in Devices /\ row.era \in 0..MaxEra
       /\ row.raced \in BOOLEAN /\ row.swept \in BOOLEAN
BY DEF Row, Unused

LEMMA RequestType ==
  /\ Idle.op = "idle" /\ Idle.at = "idle" /\ Idle.k = 0 /\ Idle.gone = FALSE
  /\ \A s \in Request :
       /\ s # Idle
       /\ s.op \in {"call", "refresh", "login", "change", "logout"}
       /\ s.at \in {"asked", "read", "revoked", "minted", "refused", "hashed", "served"}
       /\ s.k \in 0..MaxTokens /\ s.era \in 0..MaxEra
       /\ s.raced \in BOOLEAN /\ s.gone \in BOOLEAN
BY DEF Request, Idle

LEMMA StorageType ==
  /\ Cleared \in Storage /\ Cleared.refresh = 0 /\ Cleared.access = "none"
  /\ \A s \in Storage : s.refresh \in 0..MaxTokens /\ s.access \in {"none", "fresh", "stale"}
BY SessionsAssumption DEF Cleared, Storage

\* A token that is named is a row, and a live one is.
LEMMA TokenType ==
  ASSUME TypeOK
  PROVE  /\ \A i \in Live : i \in Ids /\ rows[i] \in Row
         /\ \A t \in Tabs : req[t].k # 0 => req[t].k \in Ids /\ rows[req[t].k] \in Row
         /\ \A d \in Devices :
              store[d].refresh # 0 => store[d].refresh \in Ids /\ rows[store[d].refresh] \in Row
<1>1. \A k \in 0..MaxTokens : k # 0 => k \in Ids
  BY SessionsAssumption DEF Ids
<1>2. \A t \in Tabs : req[t].k \in 0..MaxTokens
  BY RequestType, SessionsAssumption DEF TypeOK
<1>3. \A d \in Devices : store[d].refresh \in 0..MaxTokens
  BY StorageType DEF TypeOK
<1>4. \A i \in Ids : rows[i] # Unused => rows[i] \in Row
  BY DEF TypeOK
<1>5. \A i \in Live : i \in Ids /\ rows[i] \in Row
  BY <1>4, RowType DEF Live
<1> QED
  BY <1>1, <1>2, <1>3, <1>4, <1>5 DEF TypeOK

\* A request is replaced by another, and nobody else's changes.
LEMMA OthersStay ==
  ASSUME TypeOK, NEW t \in Tabs, NEW s \in Request \cup {Idle}, Proceed(t, s)
  PROVE  /\ req'[t] = s
         /\ \A u \in Tabs \ {t} : req'[u] = req[u]
         /\ req' \in [Tabs -> Request \cup {Idle}]
BY DEF TypeOK, Proceed

LEMMA ClearType ==
  ASSUME TypeOK, NEW t \in Tabs, ClearStore(t)
  PROVE  /\ deviceOf[t] \in Devices
         /\ store' \in [Devices -> Storage]
         /\ store'[deviceOf[t]] = Cleared
         /\ \A d \in Devices \ {deviceOf[t]} : store'[d] = store[d]
BY StorageType DEF TypeOK, ClearStore

\* What a tab does leaves the devices of the others as orderly as they were.
LEMMA ElsewhereOrderly ==
  ASSUME TypeOK, OrderlyInv, NEW t \in Tabs, NEW s \in Request \cup {Idle}, Proceed(t, s),
         deviceOf' = deviceOf, slipped \subseteq slipped',
         NEW d \in Devices \ slipped', d # deviceOf[t], store'[d] = store[d],
         \A i \in Live' : rows'[i].dev = d => i \in Live /\ rows[i].dev = d
  PROVE  Orderly(d)'
<1>1. \A u \in Tabs \ {t} : req'[u] = req[u]
  BY OthersStay
<1>2. InFlight(d)' = InFlight(d) /\ t \notin InFlight(d) /\ InFlight(d) \subseteq Tabs
  BY <1>1 DEF InFlight
<1>3. \A u \in InFlight(d) : req'[u] = req[u]
  BY <1>1, <1>2
<1>4. Orderly(d)
  BY DEF OrderlyInv
<1> QED
  BY <1>2, <1>3, <1>4 DEF Orderly

-----------------------------------------------------------------------------
(* Every step preserves the invariant.                                     *)

LEMMA InitInv == Init => Inv
<1> SUFFICES ASSUME Init
             PROVE  Inv
  OBVIOUS
<1>1. /\ deviceOf \in [Tabs -> Devices] /\ era = 0 /\ torn = FALSE /\ slipped = {}
      /\ rows \in [Ids -> {Unused}] /\ store \in [Devices -> {Cleared}]
      /\ req \in [Tabs -> {Idle}]
  BY SessionsAssumption DEF Init
<1>2. Live = {} /\ \A d \in Devices : InFlight(d) = {}
  BY <1>1, RowType DEF Live, InFlight
<1>3. TypeOK
  <2>1. 0 \in 0..MaxEra
    BY SessionsAssumption
  <2>2. \A d \in Devices : store[d].refresh = 0
    BY <1>1, StorageType
  <2>3. \A t \in Tabs : req[t].k = 0 /\ req[t].op # "refresh"
    BY <1>1, RequestType
  <2>4. store \in [Devices -> Storage]
    BY <1>1, StorageType
  <2> QED
    BY <1>1, <2>1, <2>2, <2>3, <2>4 DEF TypeOK
<1>4. EraInv /\ FreshInv /\ OwnerInv /\ UsedUpInv
  BY <1>1, <1>2, StorageType, RequestType DEF EraInv, FreshInv, OwnerInv, UsedUpInv
<1>5. CallInv /\ OrderlyInv
  BY <1>1, <1>2, RequestType DEF CallInv, OrderlyInv, Orderly
<1> QED
  BY <1>3, <1>4, <1>5 DEF Inv

LEMMA AccessExpiresStep ==
  ASSUME Inv, NEW d \in Devices, AccessExpires(d)
  PROVE  Inv'
<1> USE DEF Inv
<1>1. UNCHANGED <<era, rows, req, slipped, torn, deviceOf>>
  BY DEF AccessExpires
<1>2. /\ store' \in [Devices -> Storage]
      /\ \A e \in Devices : store'[e].refresh = store[e].refresh
      /\ \A e \in Devices : store[e] = Cleared => store'[e] = Cleared
  BY StorageType DEF AccessExpires, TypeOK, Storage
<1>3. TypeOK'
  BY <1>1, <1>2 DEF TypeOK
<1>4. EraInv' /\ FreshInv'
  BY <1>1, <1>2 DEF EraInv, FreshInv, Settled, Live, Good
<1>5. OwnerInv' /\ UsedUpInv' /\ CallInv' /\ OrderlyInv'
  BY <1>1, <1>2
     DEF OwnerInv, UsedUpInv, CallInv, OrderlyInv, Orderly, Live, Good, InFlight, Replaces
<1> QED
  BY <1>3, <1>4, <1>5

\* A tab asks for something: for nothing that another waits for, and not beside others on
\* a device where nothing has slipped.
LEMMA AskStep ==
  ASSUME Inv, NEW t \in Tabs, NEW s \in Request, req[t] = Idle, Proceed(t, s),
         UNCHANGED <<rows, torn, deviceOf, store>>, era' \in 0..MaxEra,
         era' = era \/ s.at = "hashed",
         slipped' = slipped \cup {deviceOf[t]}
           \/ (slipped' = slipped /\ InFlight(deviceOf[t]) = {}),
         s.op # "refresh", s.at \in {"asked", "read", "hashed", "served"}, ~s.gone,
         s.k \in {0, store[deviceOf[t]].refresh},
         s.at = "read" => s.op = "login" /\ s.era = era,
         s.op = "call" => s.at = "asked",
         deviceOf[t] \notin slipped' =>
           /\ s.op = "logout" => s.k = store[deviceOf[t]].refresh
           /\ s.op = "login" => store[deviceOf[t]] = Cleared
           /\ s.at # "served"
  PROVE  Inv'
<1> USE DEF Inv
<1>1. /\ req'[t] = s
      /\ \A u \in Tabs \ {t} : req'[u] = req[u]
      /\ req' \in [Tabs -> Request \cup {Idle}]
  BY OthersStay
<1>2. deviceOf[t] \in Devices
  BY DEF TypeOK
<1>3. TypeOK'
  <2>1. s.k # 0 => rows[s.k] # Unused
    BY <1>2 DEF TypeOK
  <2> QED
    BY <1>1, <1>2, <2>1 DEF TypeOK
<1>4. EraInv'
  BY <1>1, RequestType DEF EraInv, Settled, Live
<1>5. FreshInv'
  BY <1>1, <1>2 DEF FreshInv, Good
<1>6. OwnerInv'
  BY <1>1, <1>2 DEF OwnerInv
<1>7. UsedUpInv'
  BY <1>1, RequestType DEF UsedUpInv, Good, Replaces
<1>8. CallInv'
  BY <1>1, RequestType DEF CallInv
<1>9. OrderlyInv'
  <2>1. ASSUME NEW d \in Devices \ slipped', d # deviceOf[t]
        PROVE  Orderly(d)'
    BY <2>1, ElsewhereOrderly DEF Live
  <2>2. ASSUME deviceOf[t] \notin slipped'
        PROVE  Orderly(deviceOf[t])'
    <3> DEFINE d == deviceOf[t]
    <3>1. InFlight(d) = {} /\ d \in Devices \ slipped
      BY <1>2, <2>2
    <3>2. InFlight(d)' = {t}
      BY <1>1, <3>1, RequestType DEF InFlight
    <3>3. \A i \in Live : rows[i].dev = d => store[d].refresh = i
      BY <3>1 DEF OrderlyInv, Orderly
    <3>4. Live' = Live
      BY DEF Live
    <3> QED
      BY <1>1, <2>2, <3>2, <3>3, <3>4 DEF Orderly
  <2> QED
    BY <2>1, <2>2 DEF OrderlyInv
<1> QED
  BY <1>3, <1>4, <1>5, <1>6, <1>7, <1>8, <1>9

\* Any of the requests a tab may begin.
LEMMA AsksStep ==
  ASSUME Inv, NEW t \in Tabs, req[t] = Idle,
         UNCHANGED <<rows, torn, deviceOf, store>>,
         NEW op \in {"call", "login", "change", "logout"},
         NEW at \in {"asked", "read", "hashed", "served"},
         NEW k \in {0, store[deviceOf[t]].refresh},
         Proceed(t, Asks(op, at, k)),
         era' \in 0..MaxEra, era' = era \/ at = "hashed",
         \/ BesideOthers(t) /\ at # "served"
                            /\ (op = "logout" => k = store[deviceOf[t]].refresh)
                            /\ (op = "login" => store[deviceOf[t]] = Cleared)
         \/ Slips(deviceOf[t]),
         at = "read" => op = "login",
         op = "call" => at = "asked"
  PROVE  Inv'
<1> DEFINE s == Asks(op, at, k)
<1>1. deviceOf[t] \in Devices /\ k \in 0..MaxTokens
  BY StorageType, SessionsAssumption DEF Inv, TypeOK
<1>2. /\ s \in Request /\ s.op = op /\ s.at = at /\ s.k = k /\ s.era = era
      /\ s.raced = FALSE /\ s.gone = FALSE
  <2>1. era \in 0..MaxEra
    BY DEF Inv, TypeOK
  <2> QED
    BY <1>1, <2>1 DEF Asks, Request
<1>3. slipped' = slipped \cup {deviceOf[t]}
        \/ (slipped' = slipped /\ InFlight(deviceOf[t]) = {})
  BY DEF BesideOthers, Slips
<1>4. deviceOf[t] \notin slipped' =>
        /\ s.op = "logout" => s.k = store[deviceOf[t]].refresh
        /\ s.op = "login" => store[deviceOf[t]] = Cleared
        /\ s.at # "served"
  BY <1>2 DEF Slips
<1>5. Proceed(t, s)
  OBVIOUS
<1> HIDE DEF s
<1> QED
  BY <1>2, <1>3, <1>4, <1>5, AskStep

LEMMA BeginStep ==
  ASSUME Inv, NEW t \in Tabs, Call(t) \/ Logout(t) \/ Login(t) \/ ChangeHash(t)
  PROVE  Inv'
<1>1. era \in 0..MaxEra
  BY DEF Inv, TypeOK
<1>2. CASE Call(t)
  <2>1. /\ req[t] = Idle /\ UNCHANGED <<rows, torn, deviceOf, store, era>>
        /\ Proceed(t, Asks("call", "asked", 0)) /\ BesideOthers(t)
    BY <1>2 DEF Call, Begin, Proceed
  <2> QED
    BY <1>1, <2>1, AsksStep
<1>3. CASE Logout(t)
  <2> DEFINE k == store[deviceOf[t]].refresh
  <2>1. req[t] = Idle /\ UNCHANGED <<rows, torn, deviceOf, store, era>>
    BY <1>3 DEF Logout, Begin
  <2>2. CASE Proceed(t, Asks("logout", "asked", k)) /\ BesideOthers(t)
    BY <1>1, <2>1, <2>2, AsksStep
  <2>3. CASE Proceed(t, Asks("logout", "served", k)) /\ Slips(deviceOf[t])
    BY <1>1, <2>1, <2>3, AsksStep
  <2> QED
    BY <1>3, <2>2, <2>3 DEF Logout, Begin, Proceed
<1>4. CASE Login(t)
  <2>1. /\ req[t] = Idle /\ UNCHANGED <<rows, torn, deviceOf, store, era>>
        /\ Proceed(t, Asks("login", "read", 0))
        /\ (BesideOthers(t) /\ store[deviceOf[t]] = Cleared) \/ Slips(deviceOf[t])
    BY <1>4 DEF Login, Begin, Proceed
  <2> QED
    BY <1>1, <2>1, AsksStep
<1>5. CASE ChangeHash(t)
  <2>1. /\ req[t] = Idle /\ UNCHANGED <<rows, torn, deviceOf, store>>
        /\ Proceed(t, Asks("change", "hashed", 0)) /\ BesideOthers(t)
    BY <1>5 DEF ChangeHash
  <2>2. era' \in 0..MaxEra
    BY <1>1, <1>5, SessionsAssumption DEF ChangeHash
  <2> QED
    BY <2>1, <2>2, AsksStep
<1> QED
  BY <1>2, <1>3, <1>4, <1>5

\* A tab gives up its request and clears the storage of its device.
LEMMA ClearStep ==
  ASSUME Inv, NEW t \in Tabs, ClearStore(t), UNCHANGED <<era, rows, torn, deviceOf>>,
         NEW s \in Request \cup {Idle}, Proceed(t, s),
         \/ s = Idle /\ req[t].at # "hashed"
         \/ /\ s.gone /\ s.k = req[t].k /\ s.op = req[t].op /\ s.at = req[t].at
            /\ s.era = req[t].era /\ s.raced = req[t].raced,
         \/ slipped' = slipped \cup {deviceOf[t]}
         \/ /\ slipped' = slipped /\ s = Idle /\ req[t] # Idle
            /\ \/ req[t].at \in {"refused", "served"}
               \/ req[t].at = "asked" /\ store[deviceOf[t]].refresh = 0
  PROVE  Inv'
<1> USE DEF Inv
<1>1. /\ req'[t] = s
      /\ \A u \in Tabs \ {t} : req'[u] = req[u]
      /\ req' \in [Tabs -> Request \cup {Idle}]
  BY OthersStay
<1>2. /\ deviceOf[t] \in Devices
      /\ store' \in [Devices -> Storage]
      /\ store'[deviceOf[t]] = Cleared
      /\ \A d \in Devices \ {deviceOf[t]} : store'[d] = store[d]
  BY ClearType
<1>3. TypeOK'
  BY <1>1, <1>2, StorageType, RequestType DEF TypeOK
<1>4. EraInv'
  <2>1. Settled' => Settled
    BY <1>1 DEF Settled
  <2>2. \A u \in Tabs : req'[u].at \in {"read", "revoked"} =>
          req'[u].era = req[u].era /\ req'[u].raced = req[u].raced /\ req'[u].at = req[u].at
    BY <1>1, RequestType
  <2> QED
    BY <2>1, <2>2 DEF EraInv, Live
<1>5. FreshInv'
  BY <1>1, <1>2, StorageType, RequestType DEF FreshInv, Good
<1>6. OwnerInv'
  BY <1>1, <1>2, StorageType, RequestType DEF OwnerInv
<1>7. UsedUpInv'
  BY <1>1, <1>2, StorageType DEF UsedUpInv, Good, Replaces
<1>8. CallInv'
  BY <1>1, RequestType DEF CallInv
<1>9. OrderlyInv'
  <2>1. ASSUME NEW d \in Devices \ slipped', d # deviceOf[t]
        PROVE  Orderly(d)'
    BY <1>2, <2>1, ElsewhereOrderly DEF Live
  <2>2. ASSUME deviceOf[t] \notin slipped'
        PROVE  Orderly(deviceOf[t])'
    <3> DEFINE d == deviceOf[t]
    <3>1. /\ t \in InFlight(d) /\ d \in Devices \ slipped /\ s = Idle
          /\ \/ req[t].at \in {"refused", "served"}
             \/ req[t].at = "asked" /\ store[d].refresh = 0
      BY <1>2, <2>2 DEF InFlight
    <3>2. InFlight(d) = {t} /\ Orderly(d)
      BY <3>1 DEF OrderlyInv, Orderly
    <3>3. InFlight(d)' = {}
      BY <1>1, <3>1, <3>2 DEF InFlight
    <3>4. \A i \in Live : rows[i].dev # d
      BY <3>1, <3>2, TokenType, SessionsAssumption DEF Orderly, Ids
    <3>5. Live' = Live
      BY DEF Live
    <3> QED
      BY <3>3, <3>4, <3>5 DEF Orderly
  <2> QED
    BY <2>1, <2>2 DEF OrderlyInv
<1> QED
  BY <1>3, <1>4, <1>5, <1>6, <1>7, <1>8, <1>9

LEMMA EndStep ==
  ASSUME Inv, NEW t \in Tabs, Refused(t) \/ RestoreFails(t) \/ FinishLogout(t)
  PROVE  Inv'
<1>1. TypeOK
  BY DEF Inv
<1>2. CASE Refused(t)
  BY <1>2, RequestType, ClearStep DEF Refused, Done
<1>3. CASE RestoreFails(t)
  <2>1. Proceed(t, Idle)
    BY <1>1, <1>3 DEF RestoreFails, Proceed, TypeOK
  <2> QED
    BY <1>3, <2>1, RequestType, ClearStep DEF RestoreFails, Slips
<1>4. CASE FinishLogout(t)
  BY <1>4, RequestType, ClearStep DEF FinishLogout, Done
<1> QED
  BY <1>2, <1>3, <1>4

\* A refusal by the server becomes a refresh, or the end of the session.
LEMMA UnauthorizedStep ==
  ASSUME Inv, NEW t \in Tabs, Unauthorized(t)
  PROVE  Inv'
<1> USE DEF Inv
<1> DEFINE d == deviceOf[t]
           k == store[d].refresh
           s == Asks("refresh", "asked", k)
<1>1. /\ req[t].op = "call" /\ req[t].at = "asked" /\ d \in Devices
      /\ k \in 0..MaxTokens
      /\ UNCHANGED <<era, rows, slipped, torn, deviceOf>>
  BY StorageType DEF Unauthorized, CallInv, TypeOK
<1>2. CASE k = 0 /\ Done(t) /\ ClearStore(t)
  BY <1>1, <1>2, RequestType, ClearStep DEF Done
<1>3. CASE k # 0 /\ Proceed(t, s) /\ UNCHANGED store
  <2>1. /\ s \in Request /\ s.op = "refresh" /\ s.at = "asked" /\ s.k = k
        /\ s.raced = FALSE /\ s.gone = FALSE
    BY <1>1 DEF Asks, Request, TypeOK
  <2>2. Proceed(t, s) /\ k # 0 /\ UNCHANGED store /\ req[t] # Idle
    BY <1>1, <1>3, RequestType
  <2> HIDE DEF s
  <2>3. /\ req'[t] = s
        /\ \A u \in Tabs \ {t} : req'[u] = req[u]
        /\ req' \in [Tabs -> Request \cup {Idle}]
    BY <2>1, <2>2, OthersStay
  <2>4. Live' = Live
    BY <1>1 DEF Live
  <2>5. TypeOK'
    BY <1>1, <2>1, <2>2, <2>3 DEF TypeOK
  <2>6. EraInv'
    BY <1>1, <2>1, <2>3, <2>4 DEF EraInv, Settled
  <2>7. FreshInv'
    BY <1>1, <2>1, <2>2, <2>3 DEF FreshInv, Good
  <2>8. OwnerInv'
    BY <1>1, <2>1, <2>2, <2>3 DEF OwnerInv
  <2>9. UsedUpInv'
    BY <1>1, <2>1, <2>2, <2>3 DEF UsedUpInv, Good, Replaces
  <2>10. CallInv'
    BY <2>1, <2>3 DEF CallInv
  <2>11. OrderlyInv'
    <3>1. ASSUME NEW e \in Devices \ slipped', e # d
          PROVE  Orderly(e)'
      BY <1>1, <2>1, <2>2, <2>4, <3>1, ElsewhereOrderly
    <3>2. ASSUME d \notin slipped'
          PROVE  Orderly(d)'
      <4>1. t \in InFlight(d) /\ Orderly(d)
        BY <1>1, <2>2, <3>2 DEF InFlight, OrderlyInv
      <4>2. InFlight(d) = {t} /\ \A i \in Live : rows[i].dev = d => k = i
        BY <1>1, <4>1 DEF Orderly
      <4>3. InFlight(d)' = {t}
        BY <1>1, <2>1, <2>3, <4>2, RequestType DEF InFlight
      <4> QED
        BY <1>1, <2>1, <2>2, <2>3, <2>4, <4>2, <4>3 DEF Orderly
    <3> QED
      BY <1>1, <3>1, <3>2 DEF OrderlyInv
  <2> QED
    BY <2>5, <2>6, <2>7, <2>8, <2>9, <2>10, <2>11
<1> QED
  BY <1>2, <1>3 DEF Unauthorized

\* The new tokens are written over the old ones.
LEMMA ReceiveStep ==
  ASSUME Inv, NEW t \in Tabs, Receive(t)
  PROVE  Inv'
<1> USE DEF Inv
<1> DEFINE d == deviceOf[t]
           k == req[t].k
<1>1. /\ req[t].at = "minted" /\ ~req[t].gone /\ d \in Devices /\ req[t] # Idle
      /\ UNCHANGED <<era, rows, slipped, torn, deviceOf>> /\ Proceed(t, Idle)
      /\ k \in 0..MaxTokens /\ k # 0 /\ Good(k) /\ rows[k] # Unused
      /\ \A u \in Tabs \ {t} : req[u].k # k
      /\ \A e \in Devices : store[e].refresh # k
  BY RequestType DEF Receive, Done, TypeOK, FreshInv
<1>2. /\ req'[t] = Idle
      /\ \A u \in Tabs \ {t} : req'[u] = req[u]
      /\ req' \in [Tabs -> Request \cup {Idle}]
  BY <1>1, OthersStay
<1>3. /\ store' \in [Devices -> Storage]
      /\ store'[d].refresh = k
      /\ \A e \in Devices \ {d} : store'[e] = store[e]
  BY <1>1 DEF Receive, TypeOK, Storage
<1>4. Live' = Live
  BY <1>1 DEF Live
<1>5. TypeOK'
  BY <1>1, <1>2, <1>3, RequestType DEF TypeOK
<1>6. EraInv'
  <2>1. Settled' => Settled
    BY <1>1, <1>2 DEF Settled
  <2> QED
    BY <1>1, <1>2, <1>4, <2>1, RequestType DEF EraInv
<1>7. FreshInv'
  <2> SUFFICES ASSUME NEW u \in Tabs, req'[u].at = "minted"
               PROVE  /\ req'[u].k # 0
                      /\ rows'[req'[u].k].state = "revoked" => rows'[req'[u].k].swept
                      /\ \A v \in Tabs \ {u} : req'[v].k # req'[u].k
                      /\ \A e \in Devices : store'[e].refresh # req'[u].k
    BY DEF FreshInv, Good
  <2>1. u # t /\ req'[u] = req[u]
    BY <1>2, RequestType
  <2>2. /\ req[u].k # 0 /\ Good(req[u].k)
        /\ \A v \in Tabs \ {u} : req[v].k # req[u].k
        /\ \A e \in Devices : store[e].refresh # req[u].k
    BY <2>1 DEF FreshInv
  <2>3. rows'[req'[u].k].state = "revoked" => rows'[req'[u].k].swept
    BY <1>1, <2>1, <2>2 DEF Good
  <2>4. \A v \in Tabs \ {u} : req'[v].k # req'[u].k
    BY <1>2, <2>1, <2>2, RequestType
  <2>5. \A e \in Devices : store'[e].refresh # req'[u].k
    BY <1>1, <1>3, <2>1, <2>2
  <2> QED
    BY <2>1, <2>2, <2>3, <2>4, <2>5
<1>8. OwnerInv'
  <2>1. \A c, e \in Devices :
          store'[c].refresh = store'[e].refresh /\ store'[c].refresh # 0 => c = e
    BY <1>1, <1>3 DEF OwnerInv
  <2>2. ASSUME NEW u \in Tabs, NEW e \in Devices,
               req'[u].op \in {"refresh", "logout"}, req'[u].at \in {"asked", "read"},
               store'[e].refresh = req'[u].k, req'[u].k # 0
        PROVE  e = deviceOf'[u] /\ ~req'[u].gone
    <3>1. u # t /\ req'[u] = req[u]
      BY <1>2, <2>2, RequestType
    <3>2. e # d /\ store'[e] = store[e]
      BY <1>1, <1>3, <2>2, <3>1
    <3> QED
      BY <1>1, <2>2, <3>1, <3>2 DEF OwnerInv
  <2> QED
    BY <2>1, <2>2 DEF OwnerInv
<1>9. UsedUpInv'
  <2> SUFFICES ASSUME NEW e \in Devices, store'[e].refresh # 0,
                      rows'[store'[e].refresh].state = "revoked",
                      ~rows'[store'[e].refresh].swept
               PROVE  \E u \in Tabs : deviceOf'[u] = e /\ Replaces(u)'
    BY DEF UsedUpInv, Good
  <2>1. e # d
    BY <1>1, <1>3 DEF Good
  <2>2. store[e].refresh # 0 /\ ~Good(store[e].refresh)
    BY <1>1, <1>3, <2>1 DEF Good
  <2>3. PICK u \in Tabs : deviceOf[u] = e /\ Replaces(u)
    BY <2>2 DEF UsedUpInv
  <2>4. u # t
    BY <2>1, <2>3
  <2> QED
    BY <1>1, <1>2, <2>3, <2>4 DEF Replaces
<1>10. CallInv'
  BY <1>2, RequestType DEF CallInv
<1>11. OrderlyInv'
  <2>1. ASSUME NEW e \in Devices \ slipped', e # d
        PROVE  Orderly(e)'
    BY <1>1, <1>3, <1>4, <2>1, ElsewhereOrderly
  <2>2. ASSUME d \notin slipped'
        PROVE  Orderly(d)'
    <3>1. t \in InFlight(d) /\ Orderly(d)
      BY <1>1, <2>2 DEF InFlight, OrderlyInv
    <3>2. InFlight(d) = {t} /\ \A i \in Live : rows[i].dev = d => i = k
      BY <1>1, <3>1 DEF Orderly
    <3>3. InFlight(d)' = {}
      BY <1>1, <1>2, <3>2 DEF InFlight
    <3> QED
      BY <1>1, <1>3, <1>4, <3>2, <3>3 DEF Orderly
  <2> QED
    BY <1>1, <2>1, <2>2 DEF OrderlyInv
<1> QED
  BY <1>5, <1>6, <1>7, <1>8, <1>9, <1>10, <1>11

\* A client stops waiting, or a request ends that nobody waits for.
LEMMA QuietStep ==
  ASSUME Inv, NEW t \in Tabs, NEW s \in Request \cup {Idle}, Proceed(t, s),
         UNCHANGED <<era, rows, store, deviceOf>>, torn' \in BOOLEAN,
         \/ s = Idle
         \/ /\ s.op = req[t].op /\ s.k = req[t].k /\ s.era = req[t].era
            /\ s.raced = req[t].raced
            /\ \/ s.at = req[t].at
               \/ s.op = "logout" /\ s.at = "served"
               \/ s.op = "refresh" /\ s.at = "refused",
         (torn' = torn /\ (req[t].at # "hashed" \/ s.at = "hashed")) \/ torn',
         ~Replaces(t),
         s.op \in {"refresh", "logout"} => s.at \notin {"asked", "read"},
         \/ slipped' = slipped \cup {deviceOf[t]}
         \/ /\ slipped' = slipped /\ s = Idle
            /\ req[t] # Idle /\ (req[t].gone \/ req[t].at = "hashed")
  PROVE  Inv'
<1> USE DEF Inv
<1>1. /\ req'[t] = s
      /\ \A u \in Tabs \ {t} : req'[u] = req[u]
      /\ req' \in [Tabs -> Request \cup {Idle}]
  BY OthersStay
<1>2. Live' = Live /\ deviceOf[t] \in Devices
  BY DEF Live, TypeOK
<1>3. TypeOK'
  BY <1>1, <1>2, RequestType DEF TypeOK
<1>4. EraInv'
  <2>1. Settled' => Settled
    BY <1>1 DEF Settled, TypeOK
  <2> QED
    BY <1>1, <1>2, <2>1, RequestType DEF EraInv
<1>5. FreshInv'
  BY <1>1, RequestType DEF FreshInv, Good
<1>6. CallInv'
  BY <1>1, RequestType DEF CallInv
<1>7. OwnerInv'
  <2> SUFFICES ASSUME NEW u \in Tabs, NEW e \in Devices,
                      req'[u].op \in {"refresh", "logout"}, req'[u].at \in {"asked", "read"},
                      store[e].refresh = req'[u].k, req'[u].k # 0
               PROVE  e = deviceOf[u] /\ ~req'[u].gone
    BY DEF OwnerInv
  <2>1. CASE u # t
    BY <1>1, <2>1 DEF OwnerInv
  <2>2. CASE u = t
    BY <1>1, <2>2, RequestType DEF OwnerInv
  <2> QED
    BY <2>1, <2>2
<1>8. UsedUpInv'
  BY <1>1 DEF UsedUpInv, Good, Replaces
<1>9. OrderlyInv'
  <2>1. ASSUME NEW e \in Devices \ slipped', e # deviceOf[t]
        PROVE  Orderly(e)'
    BY <1>2, <2>1, ElsewhereOrderly
  <2>2. ASSUME deviceOf[t] \notin slipped'
        PROVE  Orderly(deviceOf[t])'
    <3> DEFINE d == deviceOf[t]
    <3>1. /\ t \in InFlight(d) /\ Orderly(d) /\ s = Idle
          /\ (req[t].gone \/ req[t].at = "hashed")
      BY <1>2, <2>2 DEF InFlight, OrderlyInv
    <3>2. InFlight(d) = {t} /\ req[t].at = "hashed"
      BY <3>1 DEF Orderly
    <3>3. \A i \in Live : rows[i].dev = d => store[d].refresh = i
      BY <3>1, <3>2 DEF Orderly
    <3>4. InFlight(d)' = {}
      BY <1>1, <3>1, <3>2 DEF InFlight
    <3> QED
      BY <1>2, <3>3, <3>4 DEF Orderly
  <2> QED
    BY <1>2, <2>1, <2>2 DEF OrderlyInv
<1> QED
  BY <1>3, <1>4, <1>5, <1>6, <1>7, <1>8, <1>9

LEMMA LostStep ==
  ASSUME Inv, NEW t \in Tabs, Lose(t) \/ Discard(t) \/ LogoutLost(t) \/ FailChange(t) \/ RefuseAccount(t)
  PROVE  Inv'
<1>1. /\ TypeOK /\ Idle.op = "idle" /\ Idle.at = "idle" /\ req[t] \in Request \cup {Idle}
      /\ torn \in BOOLEAN
  BY RequestType DEF Inv, TypeOK
<1>2. CASE Lose(t)
  <2> DEFINE s == [req[t] EXCEPT !.gone = TRUE]
  <2>1. req[t] \in Request /\ req[t].op \in {"refresh", "login"} /\ ~req[t].gone
    BY <1>1, <1>2 DEF Lose
  <2>2. /\ s \in Request /\ s.op = req[t].op /\ s.at = req[t].at /\ s.k = req[t].k
        /\ s.era = req[t].era /\ s.raced = req[t].raced /\ s.gone
    BY <2>1 DEF Request
  <2>3. Proceed(t, s) /\ UNCHANGED <<era, rows, torn, deviceOf>>
        /\ slipped' = slipped \cup {deviceOf[t]}
        /\ IF req[t].op = "refresh" THEN ClearStore(t) ELSE UNCHANGED store
    BY <1>2 DEF Lose, Slips
  <2> HIDE DEF s
  <2>4. CASE req[t].op = "refresh"
    BY <2>2, <2>3, <2>4, ClearStep
  <2>5. CASE req[t].op = "login"
    BY <1>1, <2>1, <2>2, <2>3, <2>5, QuietStep DEF Replaces
  <2> QED
    BY <2>1, <2>4, <2>5
<1>3. CASE Discard(t)
  BY <1>1, <1>3, QuietStep DEF Discard, Done, Replaces
<1>4. CASE LogoutLost(t)
  <2> DEFINE s == [req[t] EXCEPT !.at = "served"]
  <2>1. req[t] \in Request /\ req[t].op = "logout" /\ req[t].at = "asked"
    BY <1>1, <1>4 DEF LogoutLost
  <2>2. /\ s \in Request /\ s.op = req[t].op /\ s.at = "served" /\ s.k = req[t].k
        /\ s.era = req[t].era /\ s.raced = req[t].raced
    BY <2>1 DEF Request
  <2>3. Proceed(t, s) /\ UNCHANGED <<era, rows, store, torn, deviceOf>>
        /\ slipped' = slipped \cup {deviceOf[t]}
    BY <1>4 DEF LogoutLost, Slips
  <2> HIDE DEF s
  <2> QED
    BY <1>1, <2>1, <2>2, <2>3, QuietStep DEF Replaces
<1>5. CASE FailChange(t)
  BY <1>1, <1>5, QuietStep DEF FailChange, Done, Replaces
<1>6. CASE RefuseAccount(t)
  <2> DEFINE s == [req[t] EXCEPT !.at = "refused"]
  <2>1. req[t] \in Request /\ req[t].op = "refresh" /\ req[t].at = "asked"
    BY <1>1, <1>6 DEF RefuseAccount
  <2>2. /\ s \in Request /\ s.op = "refresh" /\ s.at = "refused" /\ s.k = req[t].k
        /\ s.era = req[t].era /\ s.raced = req[t].raced
    BY <2>1 DEF Request
  <2>3. Proceed(t, s) /\ UNCHANGED <<era, rows, store, torn, deviceOf>>
        /\ slipped' = slipped \cup {deviceOf[t]}
    BY <1>6 DEF RefuseAccount, Slips
  <2> HIDE DEF s
  <2> QED
    BY <1>1, <2>1, <2>2, <2>3, QuietStep DEF Replaces
<1> QED
  BY <1>2, <1>3, <1>4, <1>5, <1>6

\* The server revokes or writes off the token a request presents, and no other.
LEMMA SpendStep ==
  ASSUME Inv, NEW t \in Tabs, NEW s \in Request, Proceed(t, s),
         UNCHANGED <<era, store, slipped, torn, deviceOf>>,
         req[t].op \in {"refresh", "logout"}, req[t].at \in {"asked", "read"},
         s.op = req[t].op, s.k = req[t].k, s.gone = req[t].gone,
         s.era = req[t].era, s.raced = req[t].raced,
         s.at \in {"refused", "revoked", "served"},
         s.at = "served" => s.op = "logout",
         s.at = "revoked" => req[t].at = "read",
         rows' \in [Ids -> Row \cup {Unused}],
         \A i \in Ids : i # req[t].k => rows'[i] = rows[i],
         req[t].k # 0 => req[t].k \notin Live' /\ rows'[req[t].k] # Unused,
         s.at = "refused" => \A i \in Ids : rows'[i].state = "revoked" => rows'[i] = rows[i],
         s.at = "revoked" => s.op = "refresh"
  PROVE  Inv'
<1> USE DEF Inv
<1> DEFINE d == deviceOf[t]
           k == req[t].k
<1>1. /\ req'[t] = s
      /\ \A u \in Tabs \ {t} : req'[u] = req[u]
      /\ req' \in [Tabs -> Request \cup {Idle}]
  BY OthersStay
<1>2. /\ d \in Devices /\ req[t] # Idle
      /\ \A u \in Tabs : req[u].k # 0 => req[u].k \in Ids
      /\ \A e \in Devices : store[e].refresh # 0 => store[e].refresh \in Ids
  BY RequestType, TokenType DEF TypeOK
<1>3. \A i \in Live' : i \in Live /\ i # k /\ rows'[i] = rows[i]
  BY SessionsAssumption DEF Live, Ids
<1>4. TypeOK'
  <2>1. \A i \in Ids : rows[i] # Unused => rows'[i] # Unused
    BY <1>2, SessionsAssumption DEF Ids
  <2> QED
    BY <1>1, <1>2, <2>1 DEF TypeOK
<1>5. EraInv'
  <2>1. Settled' => Settled
    BY <1>1 DEF Settled
  <2> QED
    BY <1>1, <1>3, <2>1 DEF EraInv
<1>6. FreshInv'
  BY <1>1, <1>2 DEF FreshInv, Good
<1>7. CallInv'
  BY <1>1 DEF CallInv
<1>8. OwnerInv'
  BY <1>1 DEF OwnerInv
<1>9. UsedUpInv'
  <2> SUFFICES ASSUME NEW e \in Devices, store[e].refresh # 0, ~Good(store[e].refresh)'
               PROVE  \E u \in Tabs : deviceOf[u] = e /\ Replaces(u)'
    BY DEF UsedUpInv, Good
  <2>1. CASE store[e].refresh = k
    <3>1. e = d /\ ~req[t].gone
      BY <2>1 DEF OwnerInv
    <3>2. CASE s.at = "refused"
      <4>1. ~Good(k)
        BY <1>2, <2>1, <3>2 DEF Good
      <4>2. PICK u \in Tabs : deviceOf[u] = e /\ Replaces(u)
        BY <2>1, <4>1 DEF UsedUpInv
      <4> QED
        BY <1>1, <4>2 DEF Replaces
    <3>3. CASE s.at \in {"revoked", "served"}
      BY <1>1, <3>1, <3>3 DEF Replaces
    <3> QED
      BY <3>2, <3>3
  <2>2. CASE store[e].refresh # k
    <3>1. ~Good(store[e].refresh)
      BY <1>2, <2>2 DEF Good
    <3>2. PICK u \in Tabs : deviceOf[u] = e /\ Replaces(u)
      BY <3>1 DEF UsedUpInv
    <3> QED
      BY <1>1, <3>2 DEF Replaces
  <2> QED
    BY <2>1, <2>2
<1>10. OrderlyInv'
  <2>1. ASSUME NEW e \in Devices \ slipped', e # d
        PROVE  Orderly(e)'
    BY <1>3, <2>1, ElsewhereOrderly
  <2>2. ASSUME d \notin slipped'
        PROVE  Orderly(d)'
    <3>1. t \in InFlight(d) /\ Orderly(d)
      BY <1>2, <2>2 DEF InFlight, OrderlyInv
    <3>2. InFlight(d) = {t} /\ ~req[t].gone /\ k = store[d].refresh
          /\ \A i \in Live : rows[i].dev = d => k = i
      BY <3>1 DEF Orderly
    <3>3. InFlight(d)' = {t}
      BY <1>1, <3>1, <3>2, RequestType DEF InFlight
    <3> QED
      BY <1>1, <1>3, <3>2, <3>3 DEF Orderly
  <2> QED
    BY <1>2, <2>1, <2>2 DEF OrderlyInv
<1> QED
  BY <1>4, <1>5, <1>6, <1>7, <1>8, <1>9, <1>10

LEMMA ServeStep ==
  ASSUME Inv, NEW t \in Tabs, RevokePresented(t) \/ ServeLogout(t)
  PROVE  Inv'
<1> DEFINE k == req[t].k
<1>1. /\ TypeOK /\ req[t] \in Request \cup {Idle} /\ Idle.op = "idle"
      /\ rows \in [Ids -> Row \cup {Unused}]
  BY RequestType DEF Inv, TypeOK
<1>2. \A i \in Ids : rows[i] \in Row =>
        /\ Revoked(i) \in [Ids -> Row \cup {Unused}]
        /\ Revoked(i)[i].state = "revoked" /\ Revoked(i)[i] # Unused
        /\ \A j \in Ids : j # i => Revoked(i)[j] = rows[j]
  BY <1>1, RowType DEF Revoked, Row
<1>3. CASE RevokePresented(t)
  <2> DEFINE s == [req[t] EXCEPT !.at = "revoked"]
  <2>1. /\ req[t] \in Request /\ req[t].op = "refresh" /\ req[t].at = "read"
        /\ k \in Ids /\ rows[k] \in Row
        /\ rows' = Revoked(k) /\ Proceed(t, s)
        /\ UNCHANGED <<era, store, slipped, torn, deviceOf>>
    BY <1>1, <1>3, TokenType DEF RevokePresented, TypeOK
  <2>2. /\ s \in Request /\ s.op = "refresh" /\ s.k = k /\ s.gone = req[t].gone
        /\ s.era = req[t].era /\ s.raced = req[t].raced /\ s.at = "revoked"
    BY <2>1 DEF Request
  <2>3. k \notin Live'
    BY <1>2, <2>1 DEF Live
  <2> HIDE DEF s
  <2> QED
    BY <1>2, <2>1, <2>2, <2>3, SpendStep
<1>4. CASE ServeLogout(t)
  <2> DEFINE s == [req[t] EXCEPT !.at = "served"]
  <2>1. /\ req[t] \in Request /\ req[t].op = "logout" /\ req[t].at = "asked"
        /\ rows' = IF k \in Live THEN Revoked(k) ELSE rows
        /\ Proceed(t, s)
        /\ UNCHANGED <<era, store, slipped, torn, deviceOf>>
    BY <1>1, <1>4 DEF ServeLogout
  <2>2. /\ s \in Request /\ s.op = "logout" /\ s.k = k /\ s.gone = req[t].gone
        /\ s.era = req[t].era /\ s.raced = req[t].raced /\ s.at = "served"
    BY <2>1 DEF Request
  <2> HIDE DEF s
  <2>3. CASE k \in Live
    <3>1. k \in Ids /\ rows[k] \in Row
      BY <1>1, <2>3, TokenType
    <3>2. k \notin Live'
      BY <1>2, <2>1, <2>3, <3>1 DEF Live
    <3> QED
      BY <1>2, <2>1, <2>2, <2>3, <3>1, <3>2, SpendStep
  <2>4. CASE k \notin Live
    <3>1. k \notin Live' /\ (k # 0 => rows'[k] # Unused)
      BY <1>1, <2>1, <2>4 DEF Live, TypeOK
    <3> QED
      BY <1>1, <2>1, <2>2, <2>4, <3>1, SpendStep
  <2> QED
    BY <2>3, <2>4
<1> QED
  BY <1>3, <1>4

\* The account's sessions are all ended, and what has read and not written is marked.
LEMMA SweepStep ==
  ASSUME Inv, NEW t \in Tabs, NEW s \in Request \cup {Idle},
         rows' = Swept, UNCHANGED <<era, store, slipped, torn, deviceOf>>,
         req' \in [Tabs -> Request \cup {Idle}], req'[t] = s,
         \A u \in Tabs \ {t} :
           /\ req'[u].op = req[u].op /\ req'[u].at = req[u].at /\ req'[u].k = req[u].k
           /\ req'[u].gone = req[u].gone /\ (req'[u] = Idle <=> req[u] = Idle)
           /\ req'[u].era = req[u].era /\ (req[u].raced => req'[u].raced),
         ~Replaces(t), s.at \notin {"asked", "read", "revoked", "minted", "hashed"},
         s.k \in {0, req[t].k}, s.op # "call", s.op = "refresh" => s.k # 0,
         s # Idle => req[t] # Idle /\ s.gone = req[t].gone,
         req[t].at = "hashed" =>
           \A u \in Tabs \ {t} : req[u].at \in {"read", "revoked"} => req'[u].raced
  PROVE  Inv'
<1> USE DEF Inv
<1>1. /\ rows' \in [Ids -> Row \cup {Unused}]
      /\ \A i \in Ids : /\ rows'[i].state # "live"
                        /\ rows[i] # Unused => rows'[i] # Unused
                        /\ (rows[i].state = "revoked" => rows[i].swept)
                             => (rows'[i].state = "revoked" => rows'[i].swept)
  <2>1. rows \in [Ids -> Row \cup {Unused}]
    BY DEF TypeOK
  <2>2. ASSUME NEW i \in Ids, i \in Live
        PROVE  /\ rows'[i] \in Row /\ rows'[i].state = "revoked" /\ rows'[i].swept
    <3>1. rows[i] \in Row
      BY <2>1, <2>2, RowType DEF Live
    <3>2. [rows[i] EXCEPT !.state = "revoked", !.swept = TRUE] \in Row
      BY <3>1 DEF Row
    <3> QED
      BY <2>2, <3>1, <3>2 DEF Swept, Row
  <2>3. ASSUME NEW i \in Ids, i \notin Live
        PROVE  rows'[i] = rows[i] /\ rows[i].state # "live"
    BY <2>3 DEF Swept, Live
  <2>4. rows' = [i \in Ids |-> rows'[i]]
    BY DEF Swept
  <2> QED
    BY <2>1, <2>2, <2>3, <2>4, RowType
<1>2. Live' = {}
  BY <1>1 DEF Live
<1>3. /\ \A u \in Tabs : req[u].k # 0 => req[u].k \in Ids
      /\ \A d \in Devices : store[d].refresh # 0 => store[d].refresh \in Ids
  BY TokenType
<1>4. TypeOK'
  BY <1>1, <1>3 DEF TypeOK
<1>5. EraInv'
  <2>1. ASSUME Settled', NEW u \in Tabs, req'[u].at \in {"read", "revoked"}
        PROVE  req'[u].era = era \/ req'[u].raced
    <3>1. u # t /\ req[u].at \in {"read", "revoked"}
      BY <2>1
    <3>2. CASE req[t].at = "hashed"
      BY <3>1, <3>2
    <3>3. CASE req[t].at # "hashed"
      <4>1. Settled
        BY <2>1, <3>3 DEF Settled
      <4>2. req[u].era = era \/ req[u].raced
        BY <3>1, <4>1 DEF EraInv
      <4> QED
        BY <3>1, <4>2
    <3> QED
      BY <3>2, <3>3
  <2> QED
    BY <1>2, <2>1 DEF EraInv
<1>6. FreshInv'
  BY <1>1, <1>3 DEF FreshInv, Good
<1>7. CallInv'
  BY DEF CallInv
<1>8. OwnerInv'
  BY DEF OwnerInv
<1>9. UsedUpInv'
  BY <1>1, <1>3 DEF UsedUpInv, Good, Replaces
<1>10. OrderlyInv'
  <2> SUFFICES ASSUME NEW d \in Devices \ slipped
               PROVE  Orderly(d)'
    BY DEF OrderlyInv
  <2>1. Orderly(d) /\ InFlight(d)' \subseteq InFlight(d)
    BY DEF OrderlyInv, InFlight
  <2> QED
    BY <1>2, <2>1 DEF Orderly, InFlight
<1> QED
  BY <1>4, <1>5, <1>6, <1>7, <1>8, <1>9, <1>10

LEMMA RevokeAllStep ==
  ASSUME Inv, NEW t \in Tabs, RevokeAll(t)
  PROVE  Inv'
<1>1. /\ rows' = Swept /\ req[t].op = "change" /\ req[t].at = "hashed"
      /\ UNCHANGED <<era, store, slipped, torn, deviceOf>>
      /\ req' = [u \in Tabs |-> IF u = t THEN Idle ELSE Overtaken(req[u])]
  BY DEF RevokeAll
<1>2. ASSUME NEW r \in Request \cup {Idle}
      PROVE  /\ Overtaken(r) \in Request \cup {Idle}
             /\ Overtaken(r).op = r.op /\ Overtaken(r).at = r.at /\ Overtaken(r).k = r.k
             /\ Overtaken(r).gone = r.gone /\ Overtaken(r).era = r.era
             /\ (Overtaken(r) = Idle <=> r = Idle)
             /\ (r.raced => Overtaken(r).raced)
             /\ r.at \in {"read", "revoked"} => Overtaken(r).raced
  <2>1. CASE r = Idle
    BY <2>1, RequestType DEF Overtaken
  <2>2. CASE r \in Request
    <3>1. /\ [r EXCEPT !.raced = TRUE] \in Request
          /\ [r EXCEPT !.raced = TRUE] # Idle /\ r # Idle
      BY <2>2, RequestType DEF Request
    <3> QED
      BY <2>2, <3>1 DEF Overtaken, Request
  <2> QED
    BY <2>1, <2>2
<1>3. req \in [Tabs -> Request \cup {Idle}]
  BY DEF Inv, TypeOK
<1>4. /\ req' \in [Tabs -> Request \cup {Idle}] /\ req'[t] = Idle
      /\ \A u \in Tabs \ {t} : req'[u] = Overtaken(req[u])
  BY <1>1, <1>2, <1>3
<1>5. \A u \in Tabs \ {t} :
        /\ req'[u].op = req[u].op /\ req'[u].at = req[u].at /\ req'[u].k = req[u].k
        /\ req'[u].gone = req[u].gone /\ (req'[u] = Idle <=> req[u] = Idle)
        /\ req'[u].era = req[u].era /\ (req[u].raced => req'[u].raced)
        /\ req[u].at \in {"read", "revoked"} => req'[u].raced
  BY <1>2, <1>3, <1>4
<1>6. Idle.op = "idle" /\ Idle.at = "idle" /\ Idle.k = 0 /\ ~Replaces(t)
  BY <1>1, RequestType DEF Replaces
<1> QED
  BY <1>1, <1>4, <1>5, <1>6, SweepStep

LEMMA ReadStep ==
  ASSUME Inv, NEW t \in Tabs, ReadToken(t)
  PROVE  Inv'
<1> USE DEF Inv
<1> DEFINE r == req[t]
           k == r.k
           s == [r EXCEPT !.at = "refused"]
<1>1. /\ r \in Request /\ r.op = "refresh" /\ r.at = "asked" /\ r # Idle
      /\ k \in Ids /\ k # 0 /\ rows[k] \in Row /\ deviceOf[t] \in Devices
      /\ UNCHANGED <<era, store, slipped, torn, deviceOf>>
      /\ rows \in [Ids -> Row \cup {Unused}]
  BY RequestType, TokenType DEF ReadToken, TypeOK
<1>2. /\ s \in Request /\ s.op = "refresh" /\ s.k = k /\ s.gone = r.gone
      /\ s.era = r.era /\ s.raced = r.raced /\ s.at = "refused"
  BY <1>1 DEF Request
<1>3. CASE /\ rows[k].state # "revoked"
           /\ rows' = [rows EXCEPT ![k].state = "expired"] /\ Proceed(t, s)
  <2>1. /\ rows' \in [Ids -> Row \cup {Unused}]
        /\ rows'[k].state = "expired" /\ rows'[k] # Unused
        /\ \A i \in Ids : i # k => rows'[i] = rows[i]
    BY <1>1, <1>3, RowType DEF Row
  <2>2. k \notin Live'
    BY <2>1 DEF Live
  <2>3. \A i \in Ids : rows'[i].state = "revoked" => rows'[i] = rows[i]
    BY <2>1
  <2> HIDE DEF s
  <2> QED
    BY <1>1, <1>2, <1>3, <2>1, <2>2, <2>3, SpendStep
<1>4. CASE rows[k].state = "revoked" /\ rows' = Swept /\ Proceed(t, s)
  <2> HIDE DEF s
  <2>1. /\ req'[t] = s
        /\ \A u \in Tabs \ {t} : req'[u] = req[u]
        /\ req' \in [Tabs -> Request \cup {Idle}]
    BY <1>2, <1>4, OthersStay
  <2>2. ~Replaces(t) /\ r.at # "hashed"
    BY <1>1 DEF Replaces
  <2> QED
    BY <1>1, <1>2, <1>4, <2>1, <2>2, SweepStep
<1>5. ASSUME /\ rows[k].state = "live" /\ UNCHANGED rows
             /\ Proceed(t, [r EXCEPT !.at = "read", !.era = rows[k].era, !.raced = rows[k].raced])
      PROVE  Inv'
  <2> DEFINE q == [r EXCEPT !.at = "read", !.era = rows[k].era, !.raced = rows[k].raced]
  <2>1. /\ q \in Request /\ q.op = "refresh" /\ q.k = k /\ q.gone = r.gone
        /\ q.era = rows[k].era /\ q.raced = rows[k].raced /\ q.at = "read"
    BY <1>1, RowType DEF Request
  <2>2. Proceed(t, q)
    BY <1>5
  <2> HIDE DEF q
  <2>3. /\ req'[t] = q
        /\ \A u \in Tabs \ {t} : req'[u] = req[u]
        /\ req' \in [Tabs -> Request \cup {Idle}]
    BY <2>1, <2>2, OthersStay
  <2>4. Live' = Live /\ k \in Live
    BY <1>1, <1>5 DEF Live
  <2>5. TypeOK'
    BY <1>1, <1>5, <2>1, <2>3 DEF TypeOK
  <2>6. EraInv'
    <3>1. Settled' => Settled
      BY <1>1, <2>3 DEF Settled
    <3> QED
      BY <1>1, <1>5, <2>1, <2>3, <2>4, <3>1 DEF EraInv
  <2>7. FreshInv' /\ CallInv'
    BY <1>1, <1>5, <2>1, <2>3 DEF FreshInv, Good, CallInv
  <2>8. OwnerInv'
    BY <1>1, <2>1, <2>3 DEF OwnerInv
  <2>9. UsedUpInv'
    BY <1>1, <1>5, <2>3 DEF UsedUpInv, Good, Replaces
  <2>10. OrderlyInv'
    <3>1. ASSUME NEW e \in Devices \ slipped', e # deviceOf[t]
          PROVE  Orderly(e)'
      BY <1>1, <1>5, <2>1, <2>2, <2>4, <3>1, ElsewhereOrderly
    <3>2. ASSUME deviceOf[t] \notin slipped'
          PROVE  Orderly(deviceOf[t])'
      <4> DEFINE d == deviceOf[t]
      <4>1. t \in InFlight(d) /\ Orderly(d)
        BY <1>1, <3>2 DEF InFlight, OrderlyInv
      <4>2. InFlight(d) = {t} /\ ~r.gone /\ k = store[d].refresh
            /\ \A i \in Live : rows[i].dev = d => k = i
        BY <1>1, <4>1 DEF Orderly
      <4>3. InFlight(d)' = {t}
        BY <1>1, <2>1, <2>3, <4>2, RequestType DEF InFlight
      <4> QED
        BY <1>1, <1>5, <2>1, <2>3, <2>4, <4>2, <4>3 DEF Orderly
    <3> QED
      BY <1>1, <3>1, <3>2 DEF OrderlyInv
  <2> QED
    BY <2>5, <2>6, <2>7, <2>8, <2>9, <2>10
<1> QED
  BY <1>1, <1>3, <1>4, <1>5 DEF ReadToken

\* The new row is one that nothing names yet.
LEMMA MintStep ==
  ASSUME Inv, NEW t \in Tabs, Mint(t)
  PROVE  Inv'
<1> USE DEF Inv
<1> DEFINE r == req[t]
           d == deviceOf[t]
<1>1. /\ UNCHANGED <<era, store, slipped, torn, deviceOf>> /\ d \in Devices
      /\ r \in Request /\ r # Idle
      /\ \/ r.op = "refresh" /\ r.at = "revoked"
         \/ r.op = "login" /\ r.at = "read"
  BY RequestType DEF Mint, TypeOK
<1>2. PICK i \in Ids :
        /\ rows[i] = Unused
        /\ rows' = [rows EXCEPT ![i] =
             [dev |-> d, era |-> r.era, state |-> "live", raced |-> r.raced, swept |-> FALSE]]
        /\ Proceed(t, [r EXCEPT !.at = "minted", !.k = i])
  BY DEF Mint
<1> DEFINE s == [r EXCEPT !.at = "minted", !.k = i]
<1>3. /\ s \in Request /\ s.op = r.op /\ s.k = i /\ s.gone = r.gone
      /\ s.era = r.era /\ s.raced = r.raced /\ s.at = "minted"
  <2>1. i \in 0..MaxTokens
    BY SessionsAssumption DEF Ids
  <2> HIDE DEF r
  <2> QED
    BY <1>1, <2>1 DEF Request
<1>4. Proceed(t, s)
  BY <1>2
<1> HIDE DEF s
<1>5. /\ req'[t] = s
      /\ \A u \in Tabs \ {t} : req'[u] = req[u]
      /\ req' \in [Tabs -> Request \cup {Idle}]
  BY <1>3, <1>4, OthersStay
<1>6. /\ rows' \in [Ids -> Row \cup {Unused}]
      /\ rows'[i] \in Row /\ rows'[i].dev = d /\ rows'[i].state = "live"
      /\ rows'[i].era = r.era /\ rows'[i].raced = r.raced
      /\ \A j \in Ids : j # i => rows'[j] = rows[j]
  BY <1>1, <1>2, RequestType DEF TypeOK, Row
<1>7. /\ \A u \in Tabs : req[u].k # i
      /\ \A e \in Devices : store[e].refresh # i
      /\ i # 0 /\ i \notin Live
  BY <1>2, RowType, SessionsAssumption DEF TypeOK, Live, Ids
<1>8. Live' = Live \cup {i} /\ \A j \in Live : j \in Ids /\ j # i /\ rows'[j] = rows[j]
  BY <1>6, <1>7 DEF Live
<1>9. /\ \A u \in Tabs : req[u].k # 0 => req[u].k \in Ids /\ rows'[req[u].k] = rows[req[u].k]
      /\ \A e \in Devices :
           store[e].refresh # 0 =>
             store[e].refresh \in Ids /\ rows'[store[e].refresh] = rows[store[e].refresh]
  BY <1>6, <1>7, TokenType
<1>10. TypeOK'
  BY <1>1, <1>3, <1>5, <1>6, <1>7, <1>9, RowType DEF TypeOK
<1>11. EraInv'
  <2>1. Settled' => Settled
    BY <1>1, <1>5 DEF Settled
  <2> QED
    BY <1>1, <1>3, <1>5, <1>6, <1>8, <2>1 DEF EraInv
<1>12. FreshInv'
  <2>1. \A u \in Tabs : req'[u].k # 0 => u = t \/ (req'[u] = req[u] /\ req'[u].k # i)
    BY <1>5, <1>7
  <2> QED
    BY <1>1, <1>3, <1>5, <1>6, <1>7, <1>9, <2>1 DEF FreshInv, Good
<1>13. CallInv'
  BY <1>1, <1>3, <1>5 DEF CallInv
<1>14. OwnerInv'
  BY <1>1, <1>3, <1>5 DEF OwnerInv
<1>15. UsedUpInv'
  <2>1. \A u \in Tabs : Replaces(u) => Replaces(u)'
    BY <1>1, <1>3, <1>5 DEF Replaces
  <2> QED
    BY <1>1, <1>9, <2>1 DEF UsedUpInv, Good
<1>16. OrderlyInv'
  <2>1. ASSUME NEW e \in Devices \ slipped', e # d
        PROVE  Orderly(e)'
    <3>1. \A j \in Live' : rows'[j].dev = e => j \in Live /\ rows[j].dev = e
      BY <1>6, <1>8, <2>1
    <3> QED
      BY <1>1, <1>3, <1>4, <2>1, <3>1, ElsewhereOrderly
  <2>2. ASSUME d \notin slipped'
        PROVE  Orderly(d)'
    <3>1. t \in InFlight(d) /\ Orderly(d)
      BY <1>1, <2>2 DEF InFlight, OrderlyInv
    <3>2. InFlight(d) = {t} /\ ~r.gone /\ \A j \in Live : rows[j].dev # d
      BY <1>1, <3>1, StorageType, TokenType, SessionsAssumption DEF Orderly, Ids
    <3>3. InFlight(d)' = {t}
      BY <1>1, <1>3, <1>5, <3>2, RequestType DEF InFlight
    <3> QED
      BY <1>1, <1>3, <1>5, <1>6, <1>8, <3>2, <3>3 DEF Orderly
  <2> QED
    BY <1>1, <2>1, <2>2 DEF OrderlyInv
<1> QED
  BY <1>10, <1>11, <1>12, <1>13, <1>14, <1>15, <1>16

LEMMA NextInv == Inv /\ [Next]_vars => Inv'
<1> SUFFICES ASSUME Inv, [Next]_vars
             PROVE  Inv'
  OBVIOUS
<1>1. CASE \E d \in Devices : AccessExpires(d)
  BY <1>1, AccessExpiresStep
<1>2. ASSUME NEW t \in Tabs, Client(t)
      PROVE  Inv'
  BY <1>2, BeginStep, UnauthorizedStep, ReceiveStep, EndStep, LostStep DEF Client
<1>3. ASSUME NEW t \in Tabs, Server(t)
      PROVE  Inv'
  BY <1>3, ReadStep, ServeStep, MintStep, BeginStep, RevokeAllStep, LostStep DEF Server
<1>4. CASE UNCHANGED vars
  BY <1>4 DEF vars, Inv, TypeOK, EraInv, Settled, FreshInv, OwnerInv, UsedUpInv, CallInv,
              OrderlyInv, Orderly, Live, Good, InFlight, Replaces
<1> QED
  BY <1>1, <1>2, <1>3, <1>4 DEF Next

LEMMA Invariance == Spec => []Inv
BY InitInv, NextInv, PTL DEF Spec

-----------------------------------------------------------------------------
(* What it implies.                                                        *)

\* The rows, the storages and the requests keep their shape, and no client or request
\* ever names a token without a row (refresh_tokens, auth/token.service.ts).
THEOREM TypeCorrect == Spec => []TypeOK
<1>1. Inv => TypeOK
  BY DEF Inv
<1> QED
  BY <1>1, Invariance, PTL

\* After a password change the sessions of before go on only where a refresh or a
\* login was half-way when it revoked them, or where it failed between its two writes
\* (auth.service.ts, changePassword and resetPassword).
THEOREM PasswordEndsSessions == Spec => []OldSessionsNeedARace
<1>1. Inv => OldSessionsNeedARace
  BY DEF Inv, EraInv, Settled, OldSessionsNeedARace
<1> QED
  BY <1>1, Invariance, PTL

\* A device whose requests never overlapped or got lost has one session at most, the
\* one in its storage (rotateRefreshToken and logout with apiClient's refresh).
THEOREM OneSession == Spec => []OneSessionPerDevice
<1>1. Inv => OneSessionPerDevice
  BY DEF Inv, OrderlyInv, Orderly, OneSessionPerDevice
<1> QED
  BY <1>1, Invariance, PTL

\* However the tabs interleave, the token left in the storage of a quiet device is not
\* one its own refresh or logout has used up: presenting it cannot raise the alarm that
\* signs the account out (rotateRefreshToken).
THEOREM StoredTokens == Spec => []StoredTokenIsUsable
<1>1. Inv => StoredTokenIsUsable
  <2> SUFFICES ASSUME Inv, NEW d \in Devices, InFlight(d) = {}, store[d].refresh # 0,
                      ~Good(store[d].refresh)
               PROVE  FALSE
    BY DEF StoredTokenIsUsable, Good
  <2>1. PICK t \in Tabs : deviceOf[t] = d /\ Replaces(t)
    BY DEF Inv, UsedUpInv
  <2>2. req[t] # Idle
    BY <2>1, RequestType DEF Replaces
  <2> QED
    BY <2>1, <2>2 DEF InFlight
<1> QED
  BY <1>1, Invariance, PTL
=============================================================================
