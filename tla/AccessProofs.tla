---------------------------- MODULE AccessProofs ----------------------------
(***************************************************************************)
(* Proofs about getting in and about what is done with it: SignIn, for any *)
(* sign-ins in flight, names, addresses, limits, window, size of the tables,*)
(* timeouts and set-password calls; LiveJwks, for any keys, sets,          *)
(* verifications, lengths of the cooldown and of a fetch, rotations, failures*)
(* and abandoned fetches; OperatorCommands, for any calls, people, targets,*)
(* lost or late answers, failed journal writes, hang-ups and deaths.       *)
(***************************************************************************)
EXTENDS SignIn, LiveJwks, OperatorCommands, FiniteSetTheorems, TLAPS

-----------------------------------------------------------------------------
(***************************************************************************)
(* SignIn.                                                                 *)
(***************************************************************************)
(***************************************************************************)
(* Types.                                                                   *)
(***************************************************************************)
Stage == {"idle", "load", "insert", "check", "hash", "address", "create"}
Sign  == [name : Name, addr : Addr, right : Nat \cup {None}, t : Time, op : Version \cup {None}]

IsTable(tab) ==
    tab \in [DOMAIN tab -> Wind] /\ IsFiniteSet(DOMAIN tab) /\ Cardinality(DOMAIN tab) <= MaxKeys

Account ==
    /\ file \in Version \cup {Torn, None} /\ version \in 0..MaxVersions
    /\ file = Torn => version \in Version
    /\ operator \in Version \cup {None}
Handlers ==
    /\ pc \in [Login -> Stage] /\ login \in [Login -> Sign]
    /\ \A l \in Login : pc[l] = "insert" => login[l].op \in Version
SessionRows ==
    /\ sessions \in [DOMAIN sessions -> Session] /\ DOMAIN sessions \subseteq DOMAIN born
    /\ \A s \in DOMAIN sessions : sessions[s].created = born[s]

SignInTyped == now \in Time /\ IsTable(accounts) /\ IsTable(addresses) /\ Account /\ Handlers /\ SessionRows

(***************************************************************************)
(* The passwords still to be tried against a key, and what they may add.    *)
(***************************************************************************)
AccountTried(k) == {l \in Login : pc[l] = "hash" /\ login[l].name = k}
AddressTried(k) == {l \in Login : pc[l] \in {"hash", "address"} /\ login[l].addr = k}

\* Those whose failure would join the window; their number and the failures
\* counted so far stay below the limit and the sign-ins in flight.
Joining(w, ls, lg) == {l \in ls : Live(w, lg[l].t)}
Fits(limit, w, ls, lg) == w.failures + Cardinality(Joining(w, ls, lg)) < limit + Cardinality(Login)

AccountsFit  == \A k \in DOMAIN accounts : Fits(AccountLimit, accounts[k], AccountTried(k), login)
AddressesFit == \A k \in DOMAIN addresses : Fits(AddressLimit, addresses[k], AddressTried(k), login)

\* Whatever was answered was answered from the record held, which never changes.
FromHeld == \A v \in answered : v = operator /\ v # None

SignInv == SignInTyped /\ AccountsFit /\ AddressesFit /\ FromHeld

(***************************************************************************)
(* Windows and the sign-ins that may join them.                             *)
(***************************************************************************)
LEMMA Limits ==
    /\ AccountLimit \in Nat \ {0} /\ AddressLimit \in Nat \ {0} /\ Window \in Nat \ {0}
    /\ MaxKeys \in Nat \ {0} /\ IdleTimeout \in Nat \ {0} /\ Lifetime \in Nat \ {0}
    /\ Horizon \in Nat /\ MaxVersions \in Nat /\ IsFiniteSet(Login)
    /\ None \notin Version /\ Torn \notin Version /\ Torn # None
  BY SignInAssumption DEF Version

LEMMA Counts ==
    ASSUME NEW big \in SUBSET Login, NEW small \in SUBSET big
    PROVE  /\ IsFiniteSet(big) /\ Cardinality(small) \in Nat /\ Cardinality(big) \in Nat
           /\ Cardinality(Login) \in Nat
           /\ Cardinality(small) <= Cardinality(big) /\ Cardinality(big) <= Cardinality(Login)
  <1>1. IsFiniteSet(Login)
    BY Limits
  <1>2. IsFiniteSet(big) /\ Cardinality(big) <= Cardinality(Login)
    BY <1>1, FS_Subset
  <1>3. IsFiniteSet(small) /\ Cardinality(small) <= Cardinality(big)
    BY <1>2, FS_Subset
  <1>4. QED
    BY <1>1, <1>2, <1>3, FS_CardinalityType

\* Fewer sign-ins that may join a window leave it as bounded.
LEMMA FitsFewer ==
    ASSUME NEW limit \in Nat, NEW w \in Wind, NEW lg, NEW lg2, NEW ls \in SUBSET Login, NEW ls2 \in SUBSET ls,
           Fits(limit, w, ls, lg), \A l \in ls2 : lg2[l].t = lg[l].t
    PROVE  Fits(limit, w, ls2, lg2)
  <1>1. Joining(w, ls2, lg2) \subseteq Joining(w, ls, lg) /\ Joining(w, ls, lg) \subseteq Login
    BY DEF Joining
  <1>2. PICK m \in SUBSET Login : m = Joining(w, ls, lg)
    BY <1>1
  <1>3. PICK n \in SUBSET m : n = Joining(w, ls2, lg2)
    BY <1>1, <1>2
  <1>4. /\ Cardinality(m) \in Nat /\ Cardinality(n) \in Nat /\ Cardinality(Login) \in Nat
        /\ Cardinality(n) <= Cardinality(m)
    BY Counts
  <1>5. w.failures \in Nat
    BY DEF Wind
  <1>6. QED
    BY <1>2, <1>3, <1>4, <1>5 DEF Fits

\* A key below its limit lets anybody in.
LEMMA FitsBelow ==
    ASSUME NEW limit \in Nat, NEW w \in Wind, NEW lg, NEW ls \in SUBSET Login, w.failures < limit
    PROVE  Fits(limit, w, ls, lg)
  <1>1. PICK n \in SUBSET Login : n = Joining(w, ls, lg)
    BY DEF Joining
  <1>2. Cardinality(n) \in Nat /\ Cardinality(Login) \in Nat /\ Cardinality(n) <= Cardinality(Login)
    BY Counts
  <1>3. w.failures \in Nat
    BY DEF Wind
  <1>4. QED
    BY <1>1, <1>2, <1>3 DEF Fits

\* A first failure: the sign-in it is counted for no longer waits to be.
LEMMA FitsFirst ==
    ASSUME NEW limit \in Nat \ {0}, NEW w \in Wind, w.failures = 1, NEW lg,
           NEW l \in Login, NEW ls \in SUBSET (Login \ {l})
    PROVE  Fits(limit, w, ls, lg)
  <1>1. PICK n \in SUBSET (Login \ {l}) : n = Joining(w, ls, lg)
    BY DEF Joining
  <1>2. Cardinality(Login \ {l}) = Cardinality(Login) - 1
    BY Limits, FS_RemoveElement
  <1>3. /\ Cardinality(n) \in Nat /\ Cardinality(Login \ {l}) \in Nat /\ Cardinality(Login) \in Nat
        /\ Cardinality(n) <= Cardinality(Login \ {l})
    BY Counts
  <1>4. QED
    BY <1>1, <1>2, <1>3 DEF Fits

\* One failure more: the sign-in it is counted for was among those that could join.
LEMMA FitsCounted ==
    ASSUME NEW limit \in Nat, NEW w \in Wind, NEW w2 \in Wind, NEW lg, NEW ls \in SUBSET Login, NEW l \in ls,
           Fits(limit, w, ls, lg), Live(w, lg[l].t),
           w2.started = w.started, w2.failures = w.failures + 1
    PROVE  Fits(limit, w2, ls \ {l}, lg)
  <1>1. PICK m \in SUBSET Login : m = Joining(w, ls, lg)
    BY DEF Joining
  <1>2. PICK n \in SUBSET (m \ {l}) : n = Joining(w2, ls \ {l}, lg)
    BY <1>1 DEF Joining, Live
  <1>3. l \in m /\ IsFiniteSet(m) /\ Cardinality(m) \in Nat
    BY <1>1, Counts DEF Joining
  <1>4. Cardinality(m \ {l}) = Cardinality(m) - 1
    BY <1>3, FS_RemoveElement
  <1>5. /\ Cardinality(n) \in Nat /\ Cardinality(m \ {l}) \in Nat /\ Cardinality(Login) \in Nat
        /\ Cardinality(n) <= Cardinality(m \ {l})
    BY Counts
  <1>6. w.failures \in Nat
    BY DEF Wind
  <1>7. QED
    BY <1>1, <1>2, <1>3, <1>4, <1>5, <1>6 DEF Fits

(***************************************************************************)
(* What counting a failure and clearing a key make of a table.              *)
(***************************************************************************)
LEMMA KeepTable ==
    ASSUME NEW tab, IsTable(tab), NEW ks \in SUBSET (DOMAIN tab)
    PROVE  IsTable(Keep(tab, ks)) /\ DOMAIN Keep(tab, ks) = ks /\ \A j \in ks : Keep(tab, ks)[j] = tab[j]
  <1>1. DOMAIN Keep(tab, ks) = ks /\ \A j \in ks : Keep(tab, ks)[j] = tab[j]
    BY DEF Keep
  <1>2. IsFiniteSet(ks) /\ Cardinality(ks) <= Cardinality(DOMAIN tab)
    BY FS_Subset DEF IsTable
  <1>3. Cardinality(ks) \in Nat /\ Cardinality(DOMAIN tab) \in Nat
    BY <1>2, FS_CardinalityType DEF IsTable
  <1>4. Cardinality(ks) <= MaxKeys
    BY <1>2, <1>3, Limits DEF IsTable
  <1>5. Keep(tab, ks) \in [ks -> Wind]
    BY DEF Keep, IsTable
  <1>6. QED
    BY <1>1, <1>2, <1>4, <1>5 DEF IsTable

\* make_room leaves a part of the table, with room for one more.
LEMMA RoomMade ==
    ASSUME NEW tab, IsTable(tab), NEW t, NEW f \in MakeRoom(tab, t)
    PROVE  \E ks \in SUBSET (DOMAIN tab) : f = Keep(tab, ks) /\ Cardinality(ks) < MaxKeys
  <1> DEFINE live == {k \in DOMAIN tab : Live(tab[k], t)}
             oldest == {k \in live : \A j \in live : tab[k].started <= tab[j].started}
  <1>1. live \in SUBSET (DOMAIN tab) /\ IsFiniteSet(live)
    BY FS_Subset DEF IsTable
  <1>2. Cardinality(live) \in Nat /\ Cardinality(live) <= MaxKeys
    <2>1. Cardinality(live) <= Cardinality(DOMAIN tab)
      BY <1>1, FS_Subset DEF IsTable
    <2>2. Cardinality(live) \in Nat /\ Cardinality(DOMAIN tab) \in Nat
      BY <1>1, FS_CardinalityType DEF IsTable
    <2>3. QED
      BY <2>1, <2>2, Limits DEF IsTable
  <1>3. CASE Cardinality(live) < MaxKeys
    <2>1. f = Keep(tab, live)
      BY <1>3 DEF MakeRoom
    <2>2. QED
      BY <1>1, <1>3, <2>1
  <1>4. CASE ~ (Cardinality(live) < MaxKeys)
    <2>1. PICK k \in oldest : f = Keep(tab, live \ {k})
      BY <1>4 DEF MakeRoom
    <2>2. k \in live /\ Cardinality(live \ {k}) = Cardinality(live) - 1
      BY <1>1, FS_RemoveElement
    <2>3. Cardinality(live \ {k}) < MaxKeys /\ live \ {k} \in SUBSET (DOMAIN tab)
      BY <1>1, <1>2, <2>2, Limits
    <2>4. QED
      BY <2>1, <2>3
  <1>5. QED
    BY <1>3, <1>4

\* A part of a table and one window more are a table.
LEMMA WithFresh ==
    ASSUME NEW tab, IsTable(tab), NEW ks \in SUBSET (DOMAIN tab), NEW k, k \notin ks,
           Cardinality(ks) < MaxKeys, NEW g \in [ks \cup {k} -> Wind]
    PROVE  IsTable(g)
  <1>1. IsFiniteSet(ks) /\ Cardinality(ks) \in Nat
    BY FS_Subset, FS_CardinalityType DEF IsTable
  <1>2. IsFiniteSet(ks \cup {k}) /\ Cardinality(ks \cup {k}) = Cardinality(ks) + 1
    BY <1>1, FS_AddElement
  <1>3. Cardinality(ks \cup {k}) <= MaxKeys
    BY <1>1, <1>2, Limits
  <1>4. QED
    BY <1>2, <1>3 DEF IsTable

\* record_failure: the key has one failure more, or a first one; every other
\* window that is left is as it was.
LEMMA FailedTable ==
    ASSUME NEW tab, IsTable(tab), NEW k, NEW t \in Time, NEW g \in Failed(tab, k, t)
    PROVE  /\ IsTable(g) /\ k \in DOMAIN g
           /\ \A j \in DOMAIN g : j # k => j \in DOMAIN tab /\ g[j] = tab[j]
           /\ \/ g[k].failures = 1
              \/ /\ k \in DOMAIN tab /\ Live(tab[k], t)
                 /\ g[k].started = tab[k].started /\ g[k].failures = tab[k].failures + 1
  <1> DEFINE fresh == [started |-> t, failures |-> 1]
             with(f) == [j \in DOMAIN f \cup {k} |-> IF j = k THEN fresh ELSE f[j]]
  <1>1. fresh \in Wind
    BY DEF Wind
  <1>2. CASE k \in DOMAIN tab
    <2>1. tab[k] \in Wind
      BY <1>2 DEF IsTable
    <2>2. PICK w : w = (IF Live(tab[k], t) THEN [tab[k] EXCEPT !.failures = @ + 1] ELSE fresh)
      OBVIOUS
    <2>3. g = [tab EXCEPT ![k] = w]
      BY <1>2, <2>2 DEF Failed
    <2>4. /\ w \in Wind
          /\ \/ w.failures = 1
             \/ Live(tab[k], t) /\ w.started = tab[k].started /\ w.failures = tab[k].failures + 1
      BY <1>1, <2>1, <2>2 DEF Wind
    <2>5. g \in [DOMAIN tab -> Wind] /\ DOMAIN g = DOMAIN tab /\ g[k] = w /\ \A j \in DOMAIN g : j # k => g[j] = tab[j]
      BY <1>2, <2>3, <2>4 DEF IsTable
    <2>6. QED
      BY <1>2, <2>4, <2>5 DEF IsTable
  <1>3. ASSUME k \notin DOMAIN tab, NEW ks \in SUBSET (DOMAIN tab), Cardinality(ks) < MaxKeys,
               g = with(Keep(tab, ks))
        PROVE  /\ IsTable(g) /\ k \in DOMAIN g
               /\ \A j \in DOMAIN g : j # k => j \in DOMAIN tab /\ g[j] = tab[j]
               /\ g[k].failures = 1
    <2>1. PICK w \in Wind : w = fresh
      BY <1>1
    <2>2. DOMAIN Keep(tab, ks) = ks /\ \A j \in ks : Keep(tab, ks)[j] = tab[j] /\ tab[j] \in Wind
      BY KeepTable DEF IsTable
    <2>3. k \notin ks /\ Cardinality(ks) < MaxKeys
      BY <1>3
    <2>4. g = [j \in ks \cup {k} |-> IF j = k THEN w ELSE tab[j]]
      BY <1>3, <2>1, <2>2
    <2>5. DOMAIN g = ks \cup {k} /\ g[k] = w /\ (\A j \in ks : g[j] = tab[j]) /\ g \in [ks \cup {k} -> Wind]
      BY <2>2, <2>3, <2>4
    <2>6. IsTable(g)
      BY <2>3, <2>5, WithFresh
    <2>7. QED
      BY <2>1, <2>5, <2>6
  <1>4. CASE k \notin DOMAIN tab /\ Cardinality(DOMAIN tab) >= MaxKeys
    <2>1. PICK f \in MakeRoom(tab, t) : g = with(f)
      BY <1>4 DEF Failed
    <2>2. PICK ks \in SUBSET (DOMAIN tab) : f = Keep(tab, ks) /\ Cardinality(ks) < MaxKeys
      BY RoomMade
    <2>3. QED
      BY <1>3, <1>4, <2>1, <2>2
  <1>5. CASE k \notin DOMAIN tab /\ ~ (Cardinality(DOMAIN tab) >= MaxKeys)
    <2>1. g = with(tab)
      BY <1>5 DEF Failed
    <2>2. tab = Keep(tab, DOMAIN tab)
      BY DEF Keep, IsTable
    <2>3. Cardinality(DOMAIN tab) < MaxKeys
      BY <1>5, FS_CardinalityType, Limits DEF IsTable
    <2>4. g = with(Keep(tab, DOMAIN tab))
      BY <2>1, <2>2
    <2>5. QED
      BY <1>3, <1>5, <2>3, <2>4
  <1>6. QED
    BY <1>2, <1>4, <1>5

(***************************************************************************)
(* Steps that count nothing.                                                *)
(***************************************************************************)
\* The windows that are left are as they were, and nobody is let in.
LEMMA AccountsStay ==
    ASSUME SignInv, \A k \in DOMAIN accounts' : k \in DOMAIN accounts /\ accounts'[k] = accounts[k],
           \A l \in Login : pc'[l] = "hash" => pc[l] = "hash" /\ login'[l] = login[l]
    PROVE  AccountsFit'
  <1>1. SUFFICES ASSUME NEW k \in DOMAIN accounts' PROVE Fits(AccountLimit, accounts'[k], AccountTried(k)', login')
    BY DEF AccountsFit, Fits, Joining, Live
  <1>2. /\ AccountTried(k)' \in SUBSET AccountTried(k) /\ AccountTried(k) \in SUBSET Login
        /\ \A l \in AccountTried(k)' : login'[l].t = login[l].t
    BY DEF AccountTried
  <1>3. accounts'[k] = accounts[k] /\ accounts[k] \in Wind /\ Fits(AccountLimit, accounts[k], AccountTried(k), login)
    BY DEF SignInv, SignInTyped, IsTable, AccountsFit
  <1>4. QED
    BY <1>2, <1>3, FitsFewer, Limits

LEMMA AddressesStay ==
    ASSUME SignInv, \A k \in DOMAIN addresses' : k \in DOMAIN addresses /\ addresses'[k] = addresses[k],
           \A l \in Login : pc'[l] \in {"hash", "address"} => pc[l] \in {"hash", "address"} /\ login'[l] = login[l]
    PROVE  AddressesFit'
  <1>1. SUFFICES ASSUME NEW k \in DOMAIN addresses' PROVE Fits(AddressLimit, addresses'[k], AddressTried(k)', login')
    BY DEF AddressesFit, Fits, Joining, Live
  <1>2. /\ AddressTried(k)' \in SUBSET AddressTried(k) /\ AddressTried(k) \in SUBSET Login
        /\ \A l \in AddressTried(k)' : login'[l].t = login[l].t
    BY DEF AddressTried
  <1>3. addresses'[k] = addresses[k] /\ addresses[k] \in Wind
        /\ Fits(AddressLimit, addresses[k], AddressTried(k), login)
    BY DEF SignInv, SignInTyped, IsTable, AddressesFit
  <1>4. QED
    BY <1>2, <1>3, FitsFewer, Limits

\* No table and no sign-in changes.
LEMMA NothingTried ==
    ASSUME SignInv, UNCHANGED <<throttle, handlers>>
    PROVE  AccountsFit' /\ AddressesFit' /\ IsTable(accounts)' /\ IsTable(addresses)' /\ Handlers'
  <1>1. UNCHANGED <<accounts, addresses, login, pc>>
    BY DEF throttle, handlers
  <1>2. QED
    BY <1>1, AccountsStay, AddressesStay DEF SignInv, SignInTyped, IsTable, Handlers

\* A sign-in moves that was not, and is not, between the check and its counts.
LEMMA MovesOutside ==
    ASSUME SignInv, UNCHANGED throttle, NEW l \in Login, NEW to \in Stage \ {"hash", "address"},
           pc' = [pc EXCEPT ![l] = to], NEW me \in Sign, login' = [login EXCEPT ![l] = me],
           to = "insert" => me.op \in Version
    PROVE  AccountsFit' /\ AddressesFit' /\ IsTable(accounts)' /\ IsTable(addresses)' /\ Handlers'
  <1>1. UNCHANGED <<accounts, addresses>>
    BY DEF throttle
  <1>2. /\ pc'[l] = to /\ login'[l] = me
        /\ \A d \in Login : d # l => pc'[d] = pc[d] /\ login'[d] = login[d]
    BY DEF SignInv, SignInTyped, Handlers
  <1>3. Handlers'
    BY <1>2 DEF SignInv, SignInTyped, Handlers
  <1>4. QED
    BY <1>1, <1>2, <1>3, AccountsStay, AddressesStay DEF SignInv, SignInTyped, IsTable

LEMMA BlankSign == Blank \in Sign
  <1>1. (CHOOSE a \in Addr : TRUE) \in Addr
    BY SignInAssumption, Zenon
  <1>2. PICK a \in Addr : Blank = [name |-> Owner, addr |-> a, right |-> None, t |-> 0, op |-> None]
    BY <1>1, Zenon DEF Blank
  <1>3. QED
    BY <1>2, Limits DEF Sign, Name, Time

(***************************************************************************)
(* set-password, the clock, and the record.                                 *)
(***************************************************************************)
LEMMA PasswordStep ==
    ASSUME SignInv, Tick \/ SetPasswordBegin \/ SetPasswordEnd
    PROVE  SignInv'
  <1>1. UNCHANGED <<throttle, handlers, table, operator, answered>>
    BY DEF Tick, SetPasswordBegin, SetPasswordEnd, account
  <1>2. now' \in Time
    BY Limits DEF Tick, SetPasswordBegin, SetPasswordEnd, SignInv, SignInTyped, Time
  <1>3. Account'
    <2>1. CASE Tick
      BY <2>1 DEF Tick, account, SignInv, SignInTyped, Account
    <2>2. CASE SetPasswordBegin
      BY <2>2, Limits DEF SetPasswordBegin, SignInv, SignInTyped, Account, Version
    <2>3. CASE SetPasswordEnd
      BY <2>3, Limits DEF SetPasswordEnd, SignInv, SignInTyped, Account, Version
    <2>4. QED
      BY <2>1, <2>2, <2>3
  <1>4. SessionRows' /\ FromHeld'
    BY <1>1 DEF table, SignInv, SignInTyped, SessionRows, FromHeld
  <1>5. QED
    BY <1>1, <1>2, <1>3, <1>4, NothingTried DEF SignInv, SignInTyped

LEMMA ArriveStep ==
    ASSUME SignInv, NEW l \in Login, NEW n \in Name, NEW a \in Addr, NEW right \in {version, None},
           Arrive(l, n, a, right)
    PROVE  SignInv'
  <1>1. PICK me : me = [name |-> n, addr |-> a, right |-> right, t |-> now, op |-> operator]
    OBVIOUS
  <1>2. PICK to \in {"load", "check"} : to = (IF operator = None THEN "load" ELSE "check")
    OBVIOUS
  <1>3. /\ pc' = [pc EXCEPT ![l] = to] /\ login' = [login EXCEPT ![l] = me]
        /\ answered' = IF operator = None THEN answered ELSE answered \cup {operator}
        /\ UNCHANGED <<now, throttle, file, version, operator, table>>
    BY <1>1, <1>2 DEF Arrive, Goto
  <1>4. me \in Sign
    BY <1>1, Limits DEF Sign, SignInv, SignInTyped, Account, Version
  <1>5. FromHeld'
    BY <1>3 DEF SignInv, FromHeld
  <1>6. Account' /\ SessionRows' /\ now' \in Time
    BY <1>3 DEF SignInv, SignInTyped, Account, SessionRows, table
  <1>7. AccountsFit' /\ AddressesFit' /\ IsTable(accounts)' /\ IsTable(addresses)' /\ Handlers'
    BY <1>3, <1>4, MovesOutside DEF Stage
  <1>8. QED
    BY <1>5, <1>6, <1>7 DEF SignInv, SignInTyped

LEMMA LoadStep ==
    ASSUME SignInv, NEW l \in Login, Load(l)
    PROVE  SignInv'
  <1>1. UNCHANGED <<now, throttle, account, table>> /\ login[l] \in Sign
    BY DEF Load, SignInv, SignInTyped, Handlers
  <1>2. Account' /\ SessionRows' /\ now' \in Time /\ FromHeld'
    BY <1>1 DEF SignInv, SignInTyped, Account, SessionRows, FromHeld, account, table
  <1>3. CASE file \in Version
    <2>1. PICK me : me = [login[l] EXCEPT !.op = file]
      OBVIOUS
    <2>2. pc' = [pc EXCEPT ![l] = "insert"] /\ login' = [login EXCEPT ![l] = me]
      BY <1>3, <2>1 DEF Load, Goto
    <2>3. me \in Sign /\ me.op \in Version
      BY <1>1, <1>3, <2>1 DEF Sign
    <2>4. QED
      BY <1>1, <1>2, <2>2, <2>3, MovesOutside DEF Stage, SignInv, SignInTyped
  <1>4. CASE file \notin Version
    <2>1. PICK me \in Sign, to \in Stage \ {"hash", "address"} : me = Blank /\ to = "idle"
      BY BlankSign DEF Stage
    <2>2. pc' = [pc EXCEPT ![l] = to] /\ login' = [login EXCEPT ![l] = me] /\ to # "insert"
      BY <1>4, <2>1 DEF Load, Goto
    <2>3. QED
      BY <1>1, <1>2, <2>2, MovesOutside DEF SignInv, SignInTyped
  <1>5. QED
    BY <1>3, <1>4

\* get_or_insert keeps the record the answers so far came from.
LEMMA InsertStep ==
    ASSUME SignInv, NEW l \in Login, Insert(l)
    PROVE  SignInv'
  <1>1. /\ pc[l] = "insert" /\ pc' = [pc EXCEPT ![l] = "check"]
        /\ operator' = (IF operator = None THEN login[l].op ELSE operator)
        /\ answered' = answered \cup {operator'}
        /\ UNCHANGED <<now, throttle, file, version, table>>
    BY DEF Insert, Goto
  <1>2. login[l] \in Sign /\ login[l].op \in Version /\ now \in Time
    BY <1>1 DEF SignInv, SignInTyped, Handlers
  <1>3. operator' \in Version
    BY <1>1, <1>2 DEF SignInv, SignInTyped, Account
  <1>4. PICK me : me = [login[l] EXCEPT !.op = operator', !.t = now]
    OBVIOUS
  <1>5. login' = [login EXCEPT ![l] = me] /\ me \in Sign
    BY <1>2, <1>3, <1>4 DEF Insert, Sign
  <1>6. FromHeld'
    BY <1>1, <1>3, Limits DEF SignInv, FromHeld
  <1>7. Account' /\ SessionRows' /\ now' \in Time
    BY <1>1, <1>3 DEF SignInv, SignInTyped, Account, SessionRows, table
  <1>8. AccountsFit' /\ AddressesFit' /\ IsTable(accounts)' /\ IsTable(addresses)' /\ Handlers'
    <2>1. PICK to \in Stage \ {"hash", "address"} : to = "check"
      BY DEF Stage
    <2>2. pc' = [pc EXCEPT ![l] = to] /\ to # "insert" /\ UNCHANGED throttle
      BY <1>1, <2>1
    <2>3. QED
      BY <1>5, <2>2, MovesOutside
  <1>9. QED
    BY <1>6, <1>7, <1>8 DEF SignInv, SignInTyped

(***************************************************************************)
(* The throttle.                                                            *)
(***************************************************************************)
\* A held key sends the sign-in away; one that is let in finds its windows
\* below their limits, or over before its instant.
LEMMA CheckStep ==
    ASSUME SignInv, NEW l \in Login, Check(l)
    PROVE  SignInv'
  <1> DEFINE held == \/ Held(accounts, login[l].name, AccountLimit, login[l].t)
                     \/ Held(addresses, login[l].addr, AddressLimit, login[l].t)
  <1>1. /\ pc[l] = "check" /\ pc' = [pc EXCEPT ![l] = IF held THEN "idle" ELSE "hash"]
        /\ login' = IF held THEN [login EXCEPT ![l] = Blank] ELSE login
        /\ UNCHANGED <<now, throttle, account, table>>
    BY DEF Check, Goto
  <1>2. Account' /\ SessionRows' /\ now' \in Time /\ FromHeld'
    BY <1>1 DEF SignInv, SignInTyped, Account, SessionRows, FromHeld, account, table
  <1>3. CASE held
    <2>1. PICK me \in Sign, to \in Stage \ {"hash", "address"} : me = Blank /\ to = "idle"
      BY BlankSign DEF Stage
    <2>2. pc' = [pc EXCEPT ![l] = to] /\ login' = [login EXCEPT ![l] = me] /\ to # "insert"
      BY <1>1, <1>3, <2>1
    <2>3. QED
      BY <1>1, <1>2, <2>2, MovesOutside DEF SignInv, SignInTyped
  <1>4. CASE ~ held
    <2>1. login' = login /\ pc' = [pc EXCEPT ![l] = "hash"] /\ accounts' = accounts /\ addresses' = addresses
      BY <1>1, <1>4 DEF throttle
    <2>2. pc' \in [Login -> Stage] /\ pc'[l] = "hash" /\ \A d \in Login : d # l => pc'[d] = pc[d]
      BY <2>1 DEF SignInv, SignInTyped, Handlers, Stage
    <2>3. Handlers' /\ IsTable(accounts)' /\ IsTable(addresses)'
      BY <2>1, <2>2 DEF SignInv, SignInTyped, Handlers, IsTable
    <2>4. AccountsFit'
      <3>1. SUFFICES ASSUME NEW k \in DOMAIN accounts PROVE Fits(AccountLimit, accounts[k], AccountTried(k)', login)
        BY <2>1 DEF AccountsFit, Fits, Joining, Live
      <3>2. accounts[k] \in Wind /\ accounts[k].failures \in Nat /\ Fits(AccountLimit, accounts[k], AccountTried(k), login)
        BY DEF SignInv, SignInTyped, IsTable, AccountsFit, Wind
      <3>3. AccountTried(k)' \in SUBSET Login
        BY DEF AccountTried
      <3>4. CASE accounts[k].failures < AccountLimit
        BY <3>2, <3>3, <3>4, FitsBelow, Limits
      <3>5. CASE ~ (accounts[k].failures < AccountLimit)
        <4>1. login[l].name = k => ~ Live(accounts[k], login[l].t)
          BY <1>4, <3>2, <3>5, Limits DEF Held
        <4>2. Joining(accounts[k], AccountTried(k)', login) = Joining(accounts[k], AccountTried(k), login)
          BY <1>1, <2>1, <2>2, <4>1 DEF Joining, AccountTried
        <4>3. QED
          BY <3>2, <4>2 DEF Fits
      <3>6. QED
        BY <3>4, <3>5
    <2>5. AddressesFit'
      <3>1. SUFFICES ASSUME NEW k \in DOMAIN addresses PROVE Fits(AddressLimit, addresses[k], AddressTried(k)', login)
        BY <2>1 DEF AddressesFit, Fits, Joining, Live
      <3>2. addresses[k] \in Wind /\ addresses[k].failures \in Nat /\ Fits(AddressLimit, addresses[k], AddressTried(k), login)
        BY DEF SignInv, SignInTyped, IsTable, AddressesFit, Wind
      <3>3. AddressTried(k)' \in SUBSET Login
        BY DEF AddressTried
      <3>4. CASE addresses[k].failures < AddressLimit
        BY <3>2, <3>3, <3>4, FitsBelow, Limits
      <3>5. CASE ~ (addresses[k].failures < AddressLimit)
        <4>1. login[l].addr = k => ~ Live(addresses[k], login[l].t)
          BY <1>4, <3>2, <3>5, Limits DEF Held
        <4>2. Joining(addresses[k], AddressTried(k)', login) = Joining(addresses[k], AddressTried(k), login)
          BY <1>1, <2>1, <2>2, <4>1 DEF Joining, AddressTried
        <4>3. QED
          BY <3>2, <4>2 DEF Fits
      <3>6. QED
        BY <3>4, <3>5
    <2>6. QED
      BY <1>2, <2>3, <2>4, <2>5 DEF SignInv, SignInTyped
  <1>5. QED
    BY <1>3, <1>4

LEMMA CountAccountStep ==
    ASSUME SignInv, NEW l \in Login, CountAccount(l)
    PROVE  SignInv'
  <1>1. /\ pc[l] = "hash" /\ pc' = [pc EXCEPT ![l] = "address"]
        /\ accounts' \in Failed(accounts, login[l].name, login[l].t)
        /\ UNCHANGED <<now, addresses, account, login, table>>
    BY DEF CountAccount, Goto
  <1>2. Account' /\ SessionRows' /\ now' \in Time /\ FromHeld'
    BY <1>1 DEF SignInv, SignInTyped, Account, SessionRows, FromHeld, account, table
  <1>3. PICK me \in Name, t \in Time : me = login[l].name /\ t = login[l].t
    BY DEF SignInv, SignInTyped, Handlers, Sign
  <1>4. PICK g \in Failed(accounts, me, t) : g = accounts'
    BY <1>1, <1>3
  <1>5. /\ IsTable(g) /\ me \in DOMAIN g
        /\ \A j \in DOMAIN g : j # me => j \in DOMAIN accounts /\ g[j] = accounts[j]
        /\ \/ g[me].failures = 1
           \/ /\ me \in DOMAIN accounts /\ Live(accounts[me], t)
              /\ g[me].started = accounts[me].started /\ g[me].failures = accounts[me].failures + 1
    BY <1>4, FailedTable DEF SignInv, SignInTyped
  <1>6. pc' \in [Login -> Stage] /\ pc'[l] = "address" /\ \A d \in Login : d # l => pc'[d] = pc[d]
    BY <1>1 DEF SignInv, SignInTyped, Handlers, Stage
  <1>7. Handlers' /\ IsTable(accounts)' /\ IsTable(addresses)'
    BY <1>1, <1>4, <1>5, <1>6 DEF SignInv, SignInTyped, Handlers, IsTable
  <1>8. AddressesFit'
    BY <1>1, <1>6, AddressesStay
  <1>9. AccountsFit'
    <2>1. SUFFICES ASSUME NEW k \in DOMAIN g PROVE Fits(AccountLimit, g[k], AccountTried(k)', login)
      BY <1>1, <1>4 DEF AccountsFit, Fits, Joining, Live
    <2>2. AccountTried(k)' \in SUBSET AccountTried(k) /\ AccountTried(k) \in SUBSET Login
      BY <1>1, <1>6 DEF AccountTried
    <2>3. CASE k # me
      <3>1. g[k] = accounts[k] /\ g[k] \in Wind /\ Fits(AccountLimit, accounts[k], AccountTried(k), login)
        BY <1>5, <2>3 DEF SignInv, AccountsFit, IsTable
      <3>2. QED
        BY <2>2, <3>1, FitsFewer, Limits
    <2>4. CASE k = me
      <3>1. AccountTried(me)' = AccountTried(me) \ {l} /\ l \in AccountTried(me)
        BY <1>1, <1>3, <1>6 DEF AccountTried
      <3>2. g[me] \in Wind
        BY <1>5 DEF IsTable
      <3>3. CASE g[me].failures = 1
        <4>1. l \in Login /\ AccountTried(me)' \in SUBSET (Login \ {l})
          BY <2>2, <2>4, <3>1
        <4>2. QED
          BY <2>4, <3>2, <3>3, <4>1, FitsFirst, Limits
      <3>4. CASE ~ (g[me].failures = 1)
        <4>1. accounts[me] \in Wind /\ Fits(AccountLimit, accounts[me], AccountTried(me), login)
          BY <1>5, <3>4 DEF SignInv, SignInTyped, IsTable, AccountsFit
        <4>2. QED
          BY <1>3, <1>5, <2>2, <2>4, <3>1, <3>2, <3>4, <4>1, FitsCounted, Limits
      <3>5. QED
        BY <3>3, <3>4
    <2>5. QED
      BY <2>3, <2>4
  <1>10. QED
    BY <1>2, <1>7, <1>8, <1>9 DEF SignInv, SignInTyped

LEMMA CountAddressStep ==
    ASSUME SignInv, NEW l \in Login, CountAddress(l)
    PROVE  SignInv'
  <1>1. /\ pc[l] = "address" /\ pc' = [pc EXCEPT ![l] = "idle"]
        /\ addresses' \in Failed(addresses, login[l].addr, login[l].t)
        /\ login' = [login EXCEPT ![l] = Blank]
        /\ UNCHANGED <<now, accounts, account, table>>
    BY DEF CountAddress, Goto
  <1>2. Account' /\ SessionRows' /\ now' \in Time /\ FromHeld'
    BY <1>1 DEF SignInv, SignInTyped, Account, SessionRows, FromHeld, account, table
  <1>3. PICK me \in Addr, t \in Time : me = login[l].addr /\ t = login[l].t
    BY DEF SignInv, SignInTyped, Handlers, Sign
  <1>4. PICK g \in Failed(addresses, me, t) : g = addresses'
    BY <1>1, <1>3
  <1>5. /\ IsTable(g) /\ me \in DOMAIN g
        /\ \A j \in DOMAIN g : j # me => j \in DOMAIN addresses /\ g[j] = addresses[j]
        /\ \/ g[me].failures = 1
           \/ /\ me \in DOMAIN addresses /\ Live(addresses[me], t)
              /\ g[me].started = addresses[me].started /\ g[me].failures = addresses[me].failures + 1
    BY <1>4, FailedTable DEF SignInv, SignInTyped
  <1>6. /\ pc' \in [Login -> Stage] /\ login' \in [Login -> Sign] /\ pc'[l] = "idle"
        /\ \A d \in Login : d # l => pc'[d] = pc[d] /\ login'[d] = login[d]
    BY <1>1, BlankSign DEF SignInv, SignInTyped, Handlers, Stage
  <1>7. Handlers' /\ IsTable(accounts)' /\ IsTable(addresses)'
    BY <1>1, <1>4, <1>5, <1>6 DEF SignInv, SignInTyped, Handlers, IsTable
  <1>8. AccountsFit'
    BY <1>1, <1>6, AccountsStay
  <1>9. AddressesFit'
    <2>1. SUFFICES ASSUME NEW k \in DOMAIN g PROVE Fits(AddressLimit, g[k], AddressTried(k)', login')
      BY <1>4 DEF AddressesFit, Fits, Joining, Live
    <2>2. /\ AddressTried(k)' \in SUBSET AddressTried(k) /\ AddressTried(k) \in SUBSET Login
          /\ \A d \in AddressTried(k)' : login'[d].t = login[d].t
      BY <1>6 DEF AddressTried
    <2>3. CASE k # me
      <3>1. g[k] = addresses[k] /\ g[k] \in Wind /\ Fits(AddressLimit, addresses[k], AddressTried(k), login)
        BY <1>5, <2>3 DEF SignInv, AddressesFit, IsTable
      <3>2. QED
        BY <2>2, <3>1, FitsFewer, Limits
    <2>4. CASE k = me
      <3>1. AddressTried(me)' = AddressTried(me) \ {l} /\ l \in AddressTried(me)
        BY <1>1, <1>3, <1>6 DEF AddressTried
      <3>2. g[me] \in Wind
        BY <1>5 DEF IsTable
      <3>3. CASE g[me].failures = 1
        <4>1. l \in Login /\ AddressTried(me)' \in SUBSET (Login \ {l})
          BY <2>2, <2>4, <3>1
        <4>2. QED
          BY <2>4, <3>2, <3>3, <4>1, FitsFirst, Limits
      <3>4. CASE ~ (g[me].failures = 1)
        <4>1. addresses[me] \in Wind /\ Fits(AddressLimit, addresses[me], AddressTried(me), login)
          BY <1>5, <3>4 DEF SignInv, SignInTyped, IsTable, AddressesFit
        <4>2. Fits(AddressLimit, g[me], AddressTried(me)', login)
          BY <1>3, <1>5, <2>2, <2>4, <3>1, <3>2, <3>4, <4>1, FitsCounted, Limits
        <4>3. AddressTried(me)' \in SUBSET Login
          BY <2>2, <2>4
        <4>4. QED
          BY <2>2, <2>4, <3>2, <4>2, <4>3, FitsFewer, Limits
      <3>5. QED
        BY <3>3, <3>4
    <2>5. QED
      BY <2>3, <2>4
  <1>10. QED
    BY <1>2, <1>7, <1>8, <1>9 DEF SignInv, SignInTyped

LEMMA ClearStep ==
    ASSUME SignInv, NEW l \in Login, Clear(l)
    PROVE  SignInv'
  <1>1. /\ pc[l] = "hash" /\ pc' = [pc EXCEPT ![l] = "create"]
        /\ accounts' = Keep(accounts, DOMAIN accounts \ {login[l].name})
        /\ addresses' = Keep(addresses, DOMAIN addresses \ {login[l].addr})
        /\ UNCHANGED <<now, account, login, table>>
    BY DEF Clear, Goto
  <1>2. Account' /\ SessionRows' /\ now' \in Time /\ FromHeld'
    BY <1>1 DEF SignInv, SignInTyped, Account, SessionRows, FromHeld, account, table
  <1>3. PICK ks \in SUBSET (DOMAIN accounts), ds \in SUBSET (DOMAIN addresses) :
            accounts' = Keep(accounts, ks) /\ addresses' = Keep(addresses, ds)
    BY <1>1
  <1>4. IsTable(accounts)' /\ \A k \in DOMAIN accounts' : k \in DOMAIN accounts /\ accounts'[k] = accounts[k]
    <2>1. /\ IsTable(Keep(accounts, ks)) /\ DOMAIN Keep(accounts, ks) = ks
          /\ \A j \in ks : Keep(accounts, ks)[j] = accounts[j]
      BY KeepTable DEF SignInv, SignInTyped
    <2>2. QED
      BY <1>3, <2>1 DEF IsTable
  <1>5. IsTable(addresses)' /\ \A k \in DOMAIN addresses' : k \in DOMAIN addresses /\ addresses'[k] = addresses[k]
    <2>1. /\ IsTable(Keep(addresses, ds)) /\ DOMAIN Keep(addresses, ds) = ds
          /\ \A j \in ds : Keep(addresses, ds)[j] = addresses[j]
      BY KeepTable DEF SignInv, SignInTyped
    <2>2. QED
      BY <1>3, <2>1 DEF IsTable
  <1>6. pc' \in [Login -> Stage] /\ pc'[l] = "create" /\ \A d \in Login : d # l => pc'[d] = pc[d]
    BY <1>1 DEF SignInv, SignInTyped, Handlers, Stage
  <1>7. Handlers'
    BY <1>1, <1>6 DEF SignInv, SignInTyped, Handlers
  <1>8. AccountsFit' /\ AddressesFit'
    BY <1>1, <1>4, <1>5, <1>6, AccountsStay, AddressesStay
  <1>9. QED
    BY <1>2, <1>4, <1>5, <1>7, <1>8 DEF SignInv, SignInTyped

(***************************************************************************)
(* Sessions.                                                                *)
(***************************************************************************)
\* Rows are dropped, used or added; a row keeps the instant it was created at.
LEMMA CreateStep ==
    ASSUME SignInv, NEW l \in Login, NEW s \in Sid, Create(l, s)
    PROVE  SignInv'
  <1>1. /\ pc' = [pc EXCEPT ![l] = "idle"] /\ login' = [login EXCEPT ![l] = Blank]
        /\ s \notin DOMAIN born /\ UNCHANGED <<now, throttle, account>>
    BY DEF Create, Goto
  <1>2. PICK ss \in SUBSET (DOMAIN sessions) :
            sessions' = [i \in ss \cup {s} |-> IF i = s THEN [last |-> now, created |-> now] ELSE sessions[i]]
    BY DEF Create
  <1>3. born' = [i \in DOMAIN born \cup {s} |-> IF i = s THEN now ELSE born[i]]
    BY DEF Create
  <1>4. now \in Time /\ [last |-> now, created |-> now] \in Session
    BY DEF SignInv, SignInTyped, Session
  <1>5. DOMAIN sessions \subseteq DOMAIN born /\ \A i \in ss : sessions[i] \in Session /\ sessions[i].created = born[i]
    BY DEF SignInv, SignInTyped, SessionRows
  <1>6. DOMAIN sessions' = ss \cup {s} /\ DOMAIN born' = DOMAIN born \cup {s}
    BY <1>2, <1>3
  <1>7. ASSUME NEW i \in ss \cup {s} PROVE sessions'[i] \in Session /\ sessions'[i].created = born'[i]
    <2>1. CASE i = s
      BY <1>2, <1>3, <1>4, <2>1
    <2>2. CASE i # s
      BY <1>1, <1>2, <1>3, <1>5, <2>2
    <2>3. QED
      BY <2>1, <2>2
  <1>8. SessionRows'
    <2>1. sessions' \in [ss \cup {s} -> Session]
      BY <1>2, <1>7
    <2>2. QED
      BY <1>5, <1>6, <1>7, <2>1 DEF SessionRows
  <1>9. Account' /\ now' \in Time /\ FromHeld'
    BY <1>1 DEF SignInv, SignInTyped, Account, FromHeld, account
  <1>10. PICK me \in Sign, to \in Stage \ {"hash", "address"} : me = Blank /\ to = "idle"
    BY BlankSign DEF Stage
  <1>11. pc' = [pc EXCEPT ![l] = to] /\ login' = [login EXCEPT ![l] = me] /\ to # "insert" /\ UNCHANGED throttle
    BY <1>1, <1>10
  <1>12. QED
    BY <1>8, <1>9, <1>11, MovesOutside DEF SignInv, SignInTyped

LEMMA UseStep ==
    ASSUME SignInv, NEW s \in Sid, Touch(s) \/ Revoke(s)
    PROVE  SignInv'
  <1>1. UNCHANGED <<now, throttle, account, handlers, born>> /\ s \in DOMAIN sessions
    BY DEF Touch, Revoke
  <1>2. now \in Time /\ sessions \in [DOMAIN sessions -> Session] /\ sessions[s] \in Session
    BY <1>1 DEF SignInv, SignInTyped, SessionRows
  <1>3. SessionRows'
    <2>1. CASE sessions' = [sessions EXCEPT ![s].last = now]
      <3>1. PICK row : row = [sessions[s] EXCEPT !.last = now]
        OBVIOUS
      <3>2. row \in Session /\ row.created = sessions[s].created
        BY <1>2, <3>1 DEF Session
      <3>3. sessions' = [sessions EXCEPT ![s] = row]
        BY <2>1, <3>1
      <3>4. QED
        BY <1>1, <1>2, <3>2, <3>3 DEF SignInv, SignInTyped, SessionRows
    <2>2. CASE sessions' = Rows(DOMAIN sessions \ {s})
      BY <1>1, <1>2, <2>2 DEF Rows, SignInv, SignInTyped, SessionRows
    <2>3. QED
      BY <2>1, <2>2 DEF Touch, Revoke
  <1>4. Account' /\ now' \in Time /\ FromHeld'
    BY <1>1 DEF SignInv, SignInTyped, Account, FromHeld, account
  <1>5. QED
    BY <1>1, <1>3, <1>4, NothingTried DEF SignInv, SignInTyped

(***************************************************************************)
(* The invariant, and what follows from it.                                 *)
(***************************************************************************)
LEMMA InitSign == Init => SignInv
  <1>1. SUFFICES ASSUME Init PROVE SignInv
    OBVIOUS
  <1>2. /\ now = 0 /\ accounts = [k \in {} |-> 0] /\ addresses = [k \in {} |-> 0]
        /\ file = None /\ version = 0 /\ operator = None /\ answered = {}
        /\ login = [l \in Login |-> Blank] /\ pc = [l \in Login |-> "idle"]
        /\ sessions = [s \in {} |-> 0] /\ born = [s \in {} |-> 0]
    BY <1>1 DEF Init
  <1>3. DOMAIN accounts = {} /\ DOMAIN addresses = {} /\ DOMAIN sessions = {}
    BY <1>2
  <1>4. IsTable(accounts) /\ IsTable(addresses)
    BY <1>2, <1>3, FS_EmptySet, Limits DEF IsTable
  <1>5. now \in Time /\ Account
    BY <1>2, Limits DEF Time, Account
  <1>6. Handlers
    BY <1>2, BlankSign DEF Handlers, Stage
  <1>7. SessionRows
    BY <1>2, <1>3 DEF SessionRows
  <1>8. AccountsFit /\ AddressesFit /\ FromHeld
    BY <1>2, <1>3 DEF AccountsFit, AddressesFit, FromHeld
  <1>9. QED
    BY <1>4, <1>5, <1>6, <1>7, <1>8 DEF SignInv, SignInTyped

LEMMA SignStep == SignInv /\ [Next]_vars => SignInv'
  <1>1. SUFFICES ASSUME SignInv, [Next]_vars PROVE SignInv'
    OBVIOUS
  <1>2. CASE Tick \/ SetPasswordBegin \/ SetPasswordEnd
    BY <1>1, <1>2, PasswordStep
  <1>3. CASE \E l \in Login, n \in Name, a \in Addr, right \in {version, None} : Arrive(l, n, a, right)
    BY <1>1, <1>3, ArriveStep
  <1>4. ASSUME NEW l \in Login, LoginStep(l) PROVE SignInv'
    <2>1. CASE Load(l) \/ Insert(l)
      BY <1>1, <2>1, LoadStep, InsertStep
    <2>2. CASE Check(l) \/ CountAccount(l)
      BY <1>1, <2>2, CheckStep, CountAccountStep
    <2>3. CASE CountAddress(l) \/ Clear(l)
      BY <1>1, <2>3, CountAddressStep, ClearStep
    <2>4. CASE \E s \in Sid : Create(l, s)
      BY <1>1, <2>4, CreateStep
    <2>5. QED
      BY <1>4, <2>1, <2>2, <2>3, <2>4 DEF LoginStep
  <1>5. CASE \E s \in Sid : Touch(s) \/ Revoke(s)
    BY <1>1, <1>5, UseStep
  <1>6. CASE UNCHANGED vars
    <2>1. UNCHANGED <<now, throttle, account, handlers, table>>
      BY <1>6 DEF vars
    <2>2. Account' /\ SessionRows' /\ now' \in Time /\ FromHeld'
      BY <1>1, <2>1 DEF SignInv, SignInTyped, Account, SessionRows, FromHeld, account, table
    <2>3. QED
      BY <1>1, <2>1, <2>2, NothingTried DEF SignInv, SignInTyped
  <1>7. QED
    BY <1>1, <1>2, <1>3, <1>4, <1>5, <1>6 DEF Next

LEMMA SignHolds == Spec => []SignInv
  BY InitSign, SignStep, PTL DEF Spec

\* The clock, the two tables within MaxKeys, the record and the sessions keep
\* their types (throttle.rs, auth.rs, ctx.rs).
THEOREM SignInTypeCorrect == Spec => []SignInTypeOK
  <1>1. SignInv => SignInTypeOK
    BY DEF SignInv, SignInTyped, IsTable, Account, Handlers, SessionRows, Stage, SignInTypeOK, Tables
  <1>2. QED
    BY <1>1, SignHolds, PTL

\* Sign-ins and set-password that race agree on one operator, the passwords tried
\* in a window stay below the limit and the sign-ins in flight, and no session is
\* live past its lifetime (ctx.rs: operator; throttle.rs; auth.rs: Sessions).
THEOREM SignInIsSoundHolds == Spec => []SignInIsSound
  <1>1. ASSUME SignInv PROVE OneOperator
    <2>1. answered \in SUBSET {operator}
      BY <1>1 DEF SignInv, FromHeld
    <2>2. IsFiniteSet({operator}) /\ Cardinality({operator}) = 1
      BY FS_Singleton
    <2>3. PICK one : one = {operator}
      OBVIOUS
    <2>4. IsFiniteSet(answered) /\ Cardinality(answered) <= 1
      BY <2>1, <2>2, <2>3, FS_Subset
    <2>5. QED
      BY <2>4 DEF OneOperator
  <1>2. ASSUME SignInv PROVE OvershootBounded
    <2>1. ASSUME NEW k \in DOMAIN accounts PROVE accounts[k].failures < AccountLimit + Cardinality(Login)
      <3>1. PICK n \in SUBSET Login : n = Joining(accounts[k], AccountTried(k), login)
        BY DEF Joining, AccountTried
      <3>2. Cardinality(n) \in Nat /\ Cardinality(Login) \in Nat
        BY Counts
      <3>3. accounts[k].failures \in Nat /\ Fits(AccountLimit, accounts[k], AccountTried(k), login)
        BY <1>2 DEF SignInv, SignInTyped, IsTable, AccountsFit, Wind
      <3>4. QED
        BY <3>1, <3>2, <3>3, Limits DEF Fits
    <2>2. ASSUME NEW k \in DOMAIN addresses PROVE addresses[k].failures < AddressLimit + Cardinality(Login)
      <3>1. PICK n \in SUBSET Login : n = Joining(addresses[k], AddressTried(k), login)
        BY DEF Joining, AddressTried
      <3>2. Cardinality(n) \in Nat /\ Cardinality(Login) \in Nat
        BY Counts
      <3>3. addresses[k].failures \in Nat /\ Fits(AddressLimit, addresses[k], AddressTried(k), login)
        BY <1>2 DEF SignInv, SignInTyped, IsTable, AddressesFit, Wind
      <3>4. QED
        BY <3>1, <3>2, <3>3, Limits DEF Fits
    <2>3. QED
      BY <2>1, <2>2 DEF OvershootBounded
  <1>3. ASSUME SignInv PROVE SessionsEnd
    BY <1>3 DEF SignInv, SignInTyped, SessionRows, SessionsEnd, IsLive
  <1>4. SignInv => SignInIsSound
    BY <1>1, <1>2, <1>3 DEF SignInIsSound
  <1>5. QED
    BY <1>4, SignHolds, PTL

-----------------------------------------------------------------------------
(***************************************************************************)
(* LiveJwks.                                                               *)
(***************************************************************************)
Kids(set) == {p.kid : p \in set}

(***************************************************************************)
(* Types and the lock.                                                      *)
(***************************************************************************)
Instant == Nat \cup {Never}
JwksTyped ==
    /\ tick \in Ticks /\ since \in Nat
    /\ idp \in SUBSET Published /\ body \in SUBSET Published
    /\ gone \in [Kid -> Instant]
    /\ keys \subseteq Kid /\ fetchedAt \in Ticks \cup {Never} /\ lastAttempt \in Ticks \cup {Never}
    /\ want \in [Finder -> Kid]
    /\ where \in [Task -> {"idle", "wait", "fetch", "reply"}]
    /\ accepted = <<>> \/ accepted \in Kid \X Nat
    /\ attempts \subseteq Nat

\* The one that fetches holds the lock, and its fetch is the last attempt.
Locked ==
    /\ \A f \in Task : where[f] \in {"fetch", "reply"} <=> holder = f
    /\ holder # Nobody => holder \in Task /\ since = lastAttempt /\ tick - since <= FetchTimeout

\* Every attempt is one of the past.
Attempted ==
    /\ lastAttempt <= tick /\ fetchedAt <= tick
    /\ \A s \in attempts : s <= lastAttempt

(***************************************************************************)
(* What an answer on its way and the cache still vouch for.                 *)
(***************************************************************************)
\* A key of the set is published, or was withdrawn no earlier than `start`.
Current(ks, start) == \A k \in ks : k \in Kids(idp) \/ (gone[k] # Never /\ gone[k] >= start)

Answered == \A f \in Task : where[f] = "reply" => Current(Kids(body), since) /\ Clean(body) \subseteq trusted
Cached   == (keys # {} => fetchedAt # Never) /\ Current(keys, fetchedAt)

\* As long as every fetch succeeds, the cache is that of the last attempt.
Succeeded == ~ missed /\ holder = Nobody => fetchedAt = lastAttempt

\* What was accepted was accepted before now.
Past == accepted # <<>> => accepted[2] <= tick

JwksInv ==
    /\ JwksTyped /\ Locked /\ Attempted /\ Answered /\ Cached /\ Succeeded /\ Past
    /\ Clean(idp) \subseteq trusted
    /\ KeysAreTheProviders

(***************************************************************************)
(* Sets and what they vouch for.                                            *)
(***************************************************************************)
LEMMA SetFacts ==
    ASSUME NEW set \in SUBSET Published
    PROVE  Kids(set) \subseteq Kid /\ Clean(set) \subseteq Kids(set) /\ Usable(set) \subseteq Clean(set)
  <1>1. \A p \in set : p.kid \in Kid
    BY DEF Published
  <1>2. Usable(set) \subseteq Clean(set)
    <2>1. CASE \E p \in set : p.class = "secret"
      BY <2>1 DEF Usable
    <2>2. CASE \A p \in set : p.class # "secret"
      BY <2>2 DEF Usable, Clean
    <2>3. QED
      BY <2>1, <2>2
  <1>3. QED
    BY <1>1, <1>2 DEF Kids, Clean

LEMMA Alike ==
    ASSUME JwksInv, UNCHANGED provider
    PROVE  /\ Clean(idp)' \subseteq trusted'
           /\ \A ks, start : Current(ks, start) <=> (\A k \in ks : k \in Kids(idp)' \/ (gone'[k] # Never /\ gone'[k] >= start))
  BY DEF provider, Kids, Clean, Current, JwksInv

\* A key withdrawn now was published until now.
LEMMA CurrentRotates ==
    ASSUME JwksTyped, NEW set \in Sets, Rotate(set), NEW ks \in SUBSET Kid, NEW start \in Int, start <= tick,
           Current(ks, start)
    PROVE  \A k \in ks : k \in Kids(idp)' \/ (gone'[k] # Never /\ gone'[k] >= start)
  <1>1. ASSUME NEW k \in ks PROVE k \in Kids(idp)' \/ (gone'[k] # Never /\ gone'[k] >= start)
    <2>1. /\ Kids(idp)' = Kids(set) /\ tick \in Nat
          /\ gone' = [d \in Kid |-> IF d \in Kids(idp) \ Kids(set) THEN tick ELSE gone[d]]
      BY DEF Rotate, Kids, JwksTyped, Ticks
    <2>2. CASE k \in Kids(set)
      BY <2>1, <2>2
    <2>3. CASE k \in Kids(idp) \ Kids(set)
      BY <2>1, <2>3 DEF Never
    <2>4. CASE k \notin Kids(idp) /\ k \notin Kids(set)
      BY <2>1, <2>4 DEF Current
    <2>5. QED
      BY <2>2, <2>3, <2>4
  <1>2. QED
    BY <1>1

\* Nothing is accepted, fetched or withdrawn: the properties stand.
LEMMA PropertiesStand ==
    ASSUME JwksInv, UNCHANGED <<provider, keys, accepted, attempts>>, (missed' = missed) \/ missed'
    PROVE  KeysAreTheProviders'
  <1>1. OneFetchPerCooldown' /\ NothingFromASecretSet'
    BY DEF JwksInv, KeysAreTheProviders, OneFetchPerCooldown, NothingFromASecretSet, provider
  <1>2. WithdrawnKeyAges'
    BY DEF JwksInv, KeysAreTheProviders, WithdrawnKeyAges, provider, Never
  <1>3. QED
    BY <1>1, <1>2 DEF KeysAreTheProviders

(***************************************************************************)
(* Steps that leave the provider alone.                                     *)
(***************************************************************************)
\* The cache and the answer on its way are as current as before.
LEMMA StillCached ==
    ASSUME JwksInv, UNCHANGED <<provider, keys, fetchedAt>>
    PROVE  Cached' /\ (Clean(idp) \subseteq trusted)'
  BY Alike DEF JwksInv, Cached, Current, provider, Kids, Clean

LEMMA StillAnswered ==
    ASSUME JwksInv, UNCHANGED <<provider, body, since>>,
           \A f \in Task : where'[f] = "reply" => where[f] = "reply"
    PROVE  Answered'
  BY DEF JwksInv, Answered, Current, provider, Kids, Clean

LEMMA PassStep ==
    ASSUME JwksInv, Pass
    PROVE  JwksInv'
  <1>1. /\ tick' = tick + 1 /\ tick < LastTick /\ (holder # Nobody => tick - since < FetchTimeout)
        /\ UNCHANGED <<provider, cache, flight, record, failed>>
    BY DEF Pass
  <1>2. JwksTyped'
    BY <1>1, JwksAssumption DEF JwksInv, JwksTyped, Ticks, provider, cache, flight, record
  <1>3. Locked'
    BY <1>1, JwksAssumption DEF JwksInv, JwksTyped, Ticks, Locked, cache, flight, provider
  <1>4. Attempted' /\ Past'
    BY <1>1 DEF JwksInv, JwksTyped, Ticks, Attempted, Past, cache, record, Never
  <1>5. Answered' /\ Cached' /\ (Clean(idp) \subseteq trusted)'
    BY <1>1, StillCached, StillAnswered DEF cache, flight
  <1>6. Succeeded'
    BY <1>1 DEF JwksInv, Succeeded, cache, flight, record
  <1>7. KeysAreTheProviders'
    BY <1>1, PropertiesStand DEF cache, record
  <1>8. QED
    BY <1>2, <1>3, <1>4, <1>5, <1>6, <1>7 DEF JwksInv

LEMMA RotateStep ==
    ASSUME JwksInv, NEW set \in Sets, Rotate(set)
    PROVE  JwksInv'
  <1>1. /\ idp' = set /\ trusted' = trusted \cup Clean(set)
        /\ gone' = [k \in Kid |-> IF k \in Kids(idp) \ Kids(set) THEN tick ELSE gone[k]]
        /\ UNCHANGED <<tick, cache, flight, record, failed>>
    BY DEF Rotate, Kids
  <1>2. JwksTyped'
    BY <1>1, JwksAssumption DEF JwksInv, JwksTyped, Ticks, Instant, cache, flight, record
  <1>3. Locked' /\ Attempted' /\ Past' /\ Succeeded'
    BY <1>1 DEF JwksInv, Locked, Attempted, Past, Succeeded, cache, flight, record
  <1>4. Answered'
    <2>1. SUFFICES ASSUME NEW f \in Task, where'[f] = "reply" PROVE Current(Kids(body), since)' /\ (Clean(body) \subseteq trusted)'
      BY DEF Answered
    <2>2. where[f] = "reply" /\ body' = body /\ since' = since
      BY <1>1, <2>1 DEF flight
    <2>3. since <= tick /\ since \in Int
      BY <2>2, JwksAssumption DEF JwksInv, Locked, Attempted, JwksTyped, Ticks
    <2>4. Current(Kids(body), since) /\ Clean(body) \subseteq trusted /\ Kids(body) \in SUBSET Kid
      BY <2>2, SetFacts DEF JwksInv, Answered, JwksTyped
    <2>5. \A k \in Kids(body) : k \in Kids(idp)' \/ (gone'[k] # Never /\ gone'[k] >= since)
      BY <2>3, <2>4, CurrentRotates DEF JwksInv
    <2>6. QED
      BY <1>1, <2>2, <2>4, <2>5 DEF Current, Kids, Clean
  <1>5. Cached'
    <2>1. keys' = keys /\ fetchedAt' = fetchedAt /\ keys \in SUBSET Kid /\ fetchedAt \in Int /\ fetchedAt <= tick
      BY <1>1 DEF cache, JwksInv, JwksTyped, Ticks, Attempted, Never
    <2>2. \A k \in keys : k \in Kids(idp)' \/ (gone'[k] # Never /\ gone'[k] >= fetchedAt)
      BY <2>1, CurrentRotates DEF JwksInv, Cached
    <2>3. QED
      BY <2>1, <2>2 DEF JwksInv, Cached, Current, Kids
  <1>6. (Clean(idp) \subseteq trusted)'
    BY <1>1 DEF Clean
  <1>7. OneFetchPerCooldown' /\ NothingFromASecretSet'
    BY <1>1 DEF JwksInv, KeysAreTheProviders, OneFetchPerCooldown, NothingFromASecretSet, record, cache
  <1>8. WithdrawnKeyAges'
    <2>1. SUFFICES ASSUME ~ missed, accepted # <<>>
                   PROVE  accepted[1] \in Kids(set) \/ (/\ gone'[accepted[1]] # Never
                                                        /\ \/ accepted[2] - gone'[accepted[1]] < MaxAge
                                                           \/ accepted[2] - gone'[accepted[1]] <= FetchTimeout)
      BY <1>1 DEF WithdrawnKeyAges, record, Kids
    <2>2. PICK k \in Kid, t \in Nat : k = accepted[1] /\ t = accepted[2]
      BY <2>1 DEF JwksInv, JwksTyped
    <2>3. t <= tick /\ tick \in Nat
      BY <2>1, <2>2 DEF JwksInv, Past, JwksTyped, Ticks
    <2>4. CASE k \in Kids(idp)
      BY <1>1, <2>2, <2>3, <2>4, JwksAssumption DEF Never
    <2>5. CASE k \notin Kids(idp)
      BY <1>1, <2>1, <2>2, <2>5 DEF JwksInv, KeysAreTheProviders, WithdrawnKeyAges, Kids
    <2>6. QED
      BY <2>4, <2>5
  <1>9. QED
    BY <1>2, <1>3, <1>4, <1>5, <1>6, <1>7, <1>8 DEF JwksInv, KeysAreTheProviders

LEMMA AskStep ==
    ASSUME JwksInv, NEW f \in Finder, NEW k \in Kid, Ask(f, k)
    PROVE  JwksInv'
  <1>1. /\ where[f] = "idle" /\ where' = [where EXCEPT ![f] = "wait"] /\ want' = [want EXCEPT ![f] = k]
        /\ UNCHANGED <<tick, provider, cache, holder, body, since, record, failed>>
    BY DEF Ask
  <1>2. JwksTyped' /\ \A d \in Task : where'[d] # where[d] => d = f /\ where'[d] = "wait"
    BY <1>1 DEF JwksInv, JwksTyped, Ticks, provider, cache, record, Task
  <1>3. Locked'
    BY <1>1, <1>2 DEF JwksInv, Locked, cache, provider
  <1>4. Attempted' /\ Past' /\ Succeeded'
    BY <1>1 DEF JwksInv, Attempted, Past, Succeeded, cache, record
  <1>5. Answered' /\ Cached' /\ (Clean(idp) \subseteq trusted)'
    BY <1>1, <1>2, StillCached, StillAnswered DEF cache
  <1>6. KeysAreTheProviders'
    BY <1>1, PropertiesStand DEF cache, record
  <1>7. QED
    BY <1>2, <1>3, <1>4, <1>5, <1>6 DEF JwksInv

LEMMA ReplyStep ==
    ASSUME JwksInv, NEW f \in Task, Reply(f)
    PROVE  JwksInv'
  <1>1. /\ where[f] = "fetch" /\ where' = [where EXCEPT ![f] = "reply"] /\ body' = idp
        /\ UNCHANGED <<tick, provider, cache, holder, since, want, record, failed>>
    BY DEF Reply
  <1>2. JwksTyped' /\ \A d \in Task : where'[d] # where[d] => d = f /\ where'[d] = "reply"
    BY <1>1 DEF JwksInv, JwksTyped, Ticks, provider, cache, record
  <1>3. Locked'
    BY <1>1, <1>2 DEF JwksInv, Locked, cache, provider
  <1>4. Attempted' /\ Past' /\ Succeeded'
    BY <1>1 DEF JwksInv, Attempted, Past, Succeeded, cache, record
  <1>5. Cached' /\ (Clean(idp) \subseteq trusted)'
    BY <1>1, StillCached DEF cache
  <1>6. Answered'
    BY <1>1, <1>5 DEF Answered, Current, Kids, Clean, provider
  <1>7. KeysAreTheProviders'
    BY <1>1, PropertiesStand DEF cache, record
  <1>8. QED
    BY <1>2, <1>3, <1>4, <1>5, <1>6, <1>7 DEF JwksInv

(***************************************************************************)
(* A fetch begins.                                                          *)
(***************************************************************************)
\* The lock is free; a verification has waited for the cooldown.
LEMMA AttemptStep ==
    ASSUME JwksInv, NEW f \in Task, where[f] = "wait", holder = Nobody, AttemptLocked(f),
           f # WarmUp => lastAttempt = Never \/ tick - lastAttempt >= Cooldown
    PROVE  JwksInv'
  <1>1. /\ holder' = f /\ since' = tick /\ lastAttempt' = tick
        /\ where' = [where EXCEPT ![f] = "fetch"]
        /\ attempts' = IF f = WarmUp THEN attempts ELSE attempts \cup {tick}
        /\ UNCHANGED <<tick, provider, keys, fetchedAt, body, want, accepted, missed, failed>>
    BY DEF AttemptLocked
  <1>2. tick \in Nat /\ tick \in Ticks /\ f # Nobody /\ \A d \in Task : where[d] \notin {"fetch", "reply"}
    BY JwksAssumption DEF JwksInv, JwksTyped, Ticks, Locked
  <1>3. /\ where' \in [Task -> {"idle", "wait", "fetch", "reply"}] /\ where'[f] = "fetch"
        /\ \A d \in Task : d # f => where'[d] = where[d]
    BY <1>1 DEF JwksInv, JwksTyped
  <1>4. JwksTyped'
    BY <1>1, <1>2, <1>3 DEF JwksInv, JwksTyped, Ticks, provider
  <1>5. Locked'
    BY <1>1, <1>2, <1>3, JwksAssumption DEF Locked
  <1>6. Attempted' /\ Past' /\ Succeeded'
    BY <1>1, <1>2 DEF JwksInv, Attempted, JwksTyped, Ticks, Never, Past, Succeeded
  <1>7. Answered'
    BY <1>2, <1>3 DEF Answered
  <1>8. Cached' /\ (Clean(idp) \subseteq trusted)'
    BY <1>1, StillCached
  <1>9. KeysAreTheProviders'
    <2>1. NothingFromASecretSet' /\ WithdrawnKeyAges'
      BY <1>1 DEF JwksInv, KeysAreTheProviders, NothingFromASecretSet, WithdrawnKeyAges, provider, Never
    <2>2. CASE f = WarmUp
      BY <1>1, <2>1, <2>2 DEF JwksInv, KeysAreTheProviders, OneFetchPerCooldown
    <2>3. CASE f # WarmUp
      <3>1. \A s \in attempts : s \in Nat /\ s <= tick /\ tick - s >= Cooldown
        BY <1>2, <2>3, JwksAssumption DEF JwksInv, Attempted, JwksTyped, Ticks, Never
      <3>2. OneFetchPerCooldown'
        <4>1. SUFFICES ASSUME NEW s \in attempts', NEW t \in attempts', s < t PROVE t - s >= Cooldown
          BY DEF OneFetchPerCooldown
        <4>2. CASE s \in attempts /\ t \in attempts
          BY <4>1, <4>2 DEF JwksInv, KeysAreTheProviders, OneFetchPerCooldown
        <4>3. CASE s \in attempts /\ t = tick
          BY <3>1, <4>3
        <4>4. CASE s = tick
          BY <1>1, <1>2, <2>3, <3>1, <4>1, <4>4
        <4>5. QED
          BY <1>1, <2>3, <4>2, <4>3, <4>4
      <3>3. QED
        BY <2>1, <3>2 DEF KeysAreTheProviders
    <2>4. QED
      BY <2>2, <2>3
  <1>10. QED
    BY <1>4, <1>5, <1>6, <1>7, <1>8, <1>9 DEF JwksInv

LEMMA WarmStep ==
    ASSUME JwksInv, Warm
    PROVE  JwksInv'
  <1>1. WarmUp \in Task /\ where[WarmUp] = "wait" /\ holder = Nobody
    BY DEF Warm, Task
  <1>2. CASE fetchedAt = Never
    BY <1>1, <1>2, AttemptStep DEF Warm
  <1>3. CASE fetchedAt # Never
    <2>1. /\ where' = [where EXCEPT ![WarmUp] = "idle"]
          /\ UNCHANGED <<tick, provider, cache, holder, body, since, want, record, failed>>
      BY <1>3 DEF Warm
    <2>2. JwksTyped' /\ \A d \in Task : where'[d] # where[d] => d = WarmUp /\ where'[d] = "idle"
      BY <1>1, <2>1 DEF JwksInv, JwksTyped, Ticks, provider, cache, record
    <2>3. Locked'
      BY <1>1, <2>1, <2>2 DEF JwksInv, Locked, cache, provider
    <2>4. Attempted' /\ Past' /\ Succeeded'
      BY <2>1 DEF JwksInv, Attempted, Past, Succeeded, cache, record
    <2>5. Answered' /\ Cached' /\ (Clean(idp) \subseteq trusted)'
      BY <2>1, <2>2, StillCached, StillAnswered DEF cache
    <2>6. KeysAreTheProviders'
      BY <2>1, PropertiesStand DEF cache, record
    <2>7. QED
      BY <2>2, <2>3, <2>4, <2>5, <2>6 DEF JwksInv
  <1>4. QED
    BY <1>2, <1>3

(***************************************************************************)
(* A verification is answered from the cache.                               *)
(***************************************************************************)
\* A cache that is not refreshed is younger than MaxAge, by its own date or by
\* that of the last attempt, which succeeded.
LEMMA YoungCache ==
    ASSUME JwksInv, holder = Nobody, ~ missed, NEW k \in keys, ~ Due(k)
    PROVE  fetchedAt \in Nat /\ tick - fetchedAt < MaxAge
  <1>1. fetchedAt \in Nat /\ tick \in Nat
    BY DEF JwksInv, Cached, JwksTyped, Ticks, Never
  <1>2. fetchedAt = lastAttempt
    BY DEF JwksInv, Succeeded
  <1>3. CASE tick - fetchedAt < MaxAge
    BY <1>1, <1>3
  <1>4. CASE lastAttempt # Never /\ ~ (tick - lastAttempt >= Cooldown)
    BY <1>1, <1>2, <1>4, JwksAssumption
  <1>5. QED
    BY <1>1, <1>3, <1>4, JwksAssumption DEF Due, Never

LEMMA FindStep ==
    ASSUME JwksInv, NEW f \in Task, Find(f)
    PROVE  JwksInv'
  <1>1. where[f] = "wait" /\ holder = Nobody /\ f # WarmUp /\ f \in Finder
    BY DEF Find, Task
  <1>2. CASE Due(want[f])
    <2>1. lastAttempt = Never \/ tick - lastAttempt >= Cooldown
      BY <1>2 DEF Due
    <2>2. QED
      BY <1>1, <1>2, <2>1, AttemptStep DEF Find
  <1>3. CASE ~ Due(want[f])
    <2>1. /\ accepted' = IF want[f] \in keys THEN <<want[f], tick>> ELSE accepted
          /\ where' = [where EXCEPT ![f] = "idle"]
          /\ UNCHANGED <<tick, provider, cache, holder, body, since, want, attempts, missed, failed>>
      BY <1>3 DEF Find, Answer
    <2>2. PICK k \in Kid : k = want[f]
      BY <1>1 DEF JwksInv, JwksTyped
    <2>3. JwksTyped' /\ \A d \in Task : where'[d] # where[d] => d = f /\ where'[d] = "idle"
      BY <1>1, <2>1, <2>2 DEF JwksInv, JwksTyped, Ticks, provider, cache
    <2>4. Locked'
      BY <1>1, <2>1, <2>3 DEF JwksInv, Locked, cache
    <2>5. Attempted' /\ Succeeded'
      BY <2>1 DEF JwksInv, Attempted, Succeeded, cache
    <2>6. Past'
      BY <2>1, <2>2 DEF JwksInv, Past, JwksTyped, Ticks
    <2>7. Answered' /\ Cached' /\ (Clean(idp) \subseteq trusted)'
      BY <2>1, <2>3, StillCached, StillAnswered DEF cache
    <2>8. CASE k \in keys
      <3>1. accepted' = <<k, tick>>
        BY <2>1, <2>2, <2>8
      <3>2. OneFetchPerCooldown' /\ NothingFromASecretSet'
        BY <2>1 DEF JwksInv, KeysAreTheProviders, OneFetchPerCooldown, NothingFromASecretSet, cache, provider
      <3>3. WithdrawnKeyAges'
        <4>1. SUFFICES ASSUME ~ missed
                       PROVE  k \in Kids(idp) \/ (gone[k] # Never /\ tick - gone[k] < MaxAge)
          BY <2>1, <3>1 DEF WithdrawnKeyAges, provider, Kids
        <4>2. fetchedAt \in Nat /\ tick - fetchedAt < MaxAge
          BY <1>1, <1>3, <2>2, <2>8, <4>1, YoungCache
        <4>3. k \in Kids(idp) \/ (gone[k] # Never /\ gone[k] >= fetchedAt)
          BY <2>8 DEF JwksInv, Cached, Current
        <4>4. gone[k] \in Int /\ tick \in Nat /\ MaxAge \in Nat
          BY JwksAssumption DEF JwksInv, JwksTyped, Ticks, Instant, Never
        <4>5. QED
          BY <4>2, <4>3, <4>4
      <3>4. QED
        BY <2>3, <2>4, <2>5, <2>6, <2>7, <3>2, <3>3 DEF JwksInv, KeysAreTheProviders
    <2>9. CASE k \notin keys
      <3>1. KeysAreTheProviders'
        BY <2>1, <2>2, <2>9, PropertiesStand DEF cache
      <3>2. QED
        BY <2>3, <2>4, <2>5, <2>6, <2>7, <3>1 DEF JwksInv
    <2>10. QED
      BY <2>8, <2>9
  <1>4. QED
    BY <1>2, <1>3

(***************************************************************************)
(* A fetch ends.                                                            *)
(***************************************************************************)
\* The lock is let go, whatever came of the fetch.
LEMMA Released ==
    ASSUME JwksInv, NEW f \in Task, where[f] \in {"fetch", "reply"},
           holder' = Nobody, body' = {}, where' = [where EXCEPT ![f] = "idle"],
           UNCHANGED <<tick, provider, lastAttempt, since, want, attempts>>,
           Nobody \notin Task
    PROVE  /\ holder = f /\ since = lastAttempt /\ tick - since <= FetchTimeout /\ since \in Nat
           /\ where' \in [Task -> {"idle", "wait", "fetch", "reply"}]
           /\ \A d \in Task : where'[d] \notin {"fetch", "reply"}
           /\ Locked' /\ Answered' /\ (Clean(idp) \subseteq trusted)'
  <1>1. /\ holder = f /\ since = lastAttempt /\ tick - since <= FetchTimeout /\ since \in Nat
        /\ f # Nobody
    BY DEF JwksInv, Locked, JwksTyped
  <1>2. where' \in [Task -> {"idle", "wait", "fetch", "reply"}]
    BY DEF JwksInv, JwksTyped
  <1>3. \A d \in Task : where'[d] \notin {"fetch", "reply"}
    BY <1>1 DEF JwksInv, JwksTyped, Locked
  <1>4. Locked' /\ Answered'
    BY <1>3 DEF Locked, Answered
  <1>5. (Clean(idp) \subseteq trusted)'
    BY Alike
  <1>6. QED
    BY <1>1, <1>2, <1>3, <1>4, <1>5

LEMMA FetchedStep ==
    ASSUME JwksInv, NEW f \in Task, Fetched(f)
    PROVE  JwksInv'
  <1>1. /\ where[f] = "reply" /\ keys' = Usable(body) /\ fetchedAt' = since
        /\ holder' = Nobody /\ body' = {} /\ where' = [where EXCEPT ![f] = "idle"]
        /\ accepted' = accepted \/ (f # WarmUp /\ want[f] \in keys' /\ accepted' = <<want[f], tick>>)
        /\ UNCHANGED <<tick, provider, lastAttempt, since, want, attempts, missed, failed>>
    BY DEF Fetched, Leave, Answer
  <1>2. /\ holder = f /\ since = lastAttempt /\ tick - since <= FetchTimeout /\ since \in Nat
        /\ where' \in [Task -> {"idle", "wait", "fetch", "reply"}]
        /\ Locked' /\ Answered' /\ (Clean(idp) \subseteq trusted)'
    BY <1>1, Released, JwksAssumption
  <1>3. /\ keys' \subseteq Kids(body) /\ Kids(body) \subseteq Kid /\ keys' \subseteq trusted
        /\ Current(Kids(body), since)
    BY <1>1, SetFacts DEF JwksInv, JwksTyped, Answered
  <1>4. tick \in Nat /\ since \in Ticks
    BY <1>2 DEF JwksInv, JwksTyped, Ticks, Never
  <1>5. accepted' = accepted \/ \E k \in keys' : accepted' = <<k, tick>>
    BY <1>1
  <1>6. JwksTyped' /\ Past'
    <2>1. (accepted' = <<>> \/ accepted' \in Kid \X Nat) /\ Past'
      <3>1. CASE accepted' = accepted
        BY <1>1, <3>1 DEF JwksInv, JwksTyped, Past
      <3>2. ASSUME NEW k \in keys', accepted' = <<k, tick>>
            PROVE  accepted' \in Kid \X Nat /\ Past'
        BY <1>1, <1>3, <1>4, <3>2 DEF Past
      <3>3. QED
        BY <1>5, <3>1, <3>2
    <2>2. QED
      BY <1>1, <1>2, <1>3, <1>4, <2>1 DEF JwksInv, JwksTyped, provider, Ticks
  <1>7. Attempted' /\ Succeeded'
    BY <1>1, <1>2 DEF JwksInv, Attempted, Succeeded
  <1>8. Cached'
    BY <1>1, <1>2, <1>3 DEF Cached, Current, provider, Kids, Never
  <1>9. OneFetchPerCooldown' /\ NothingFromASecretSet'
    BY <1>1, <1>3 DEF JwksInv, KeysAreTheProviders, OneFetchPerCooldown, NothingFromASecretSet, provider
  <1>10. WithdrawnKeyAges'
    <2>1. CASE accepted' = accepted
      BY <1>1, <2>1 DEF JwksInv, KeysAreTheProviders, WithdrawnKeyAges, provider, Never
    <2>2. ASSUME NEW k \in keys', accepted' = <<k, tick>>
          PROVE  WithdrawnKeyAges'
      <3>1. k \in Kids(idp) \/ (gone[k] # Never /\ gone[k] >= since)
        BY <1>3 DEF Current
      <3>2. gone[k] \in Int /\ FetchTimeout \in Nat
        BY <1>3, JwksAssumption DEF JwksInv, JwksTyped, Instant, Never
      <3>3. k \in Kids(idp) \/ (gone[k] # Never /\ tick - gone[k] <= FetchTimeout)
        BY <1>2, <1>4, <3>1, <3>2
      <3>4. QED
        BY <1>1, <2>2, <3>3 DEF WithdrawnKeyAges, provider, Kids
    <2>3. QED
      BY <1>5, <2>1, <2>2
  <1>11. QED
    BY <1>2, <1>6, <1>7, <1>8, <1>9, <1>10 DEF JwksInv, KeysAreTheProviders

\* A fetch that failed, was refused or was given up leaves the cache as it was.
LEMMA LostStep ==
    ASSUME JwksInv, NEW f \in Task, where[f] \in {"fetch", "reply"},
           holder' = Nobody, body' = {}, where' = [where EXCEPT ![f] = "idle"],
           UNCHANGED <<tick, provider, cache, since, want, attempts>>, missed' = TRUE,
           accepted' = accepted \/ (f \in Finder /\ accepted' = <<want[f], tick>>)
    PROVE  JwksInv'
  <1>1. /\ where' \in [Task -> {"idle", "wait", "fetch", "reply"}]
        /\ Locked' /\ Answered' /\ (Clean(idp) \subseteq trusted)'
    BY Released, JwksAssumption DEF cache
  <1>2. JwksTyped' /\ Past'
    <2>1. tick \in Nat /\ \A d \in Finder : want[d] \in Kid
      BY DEF JwksInv, JwksTyped, Ticks
    <2>2. (accepted' = <<>> \/ accepted' \in Kid \X Nat) /\ Past'
      BY <2>1 DEF JwksInv, JwksTyped, Past
    <2>3. QED
      BY <1>1, <2>2 DEF JwksInv, JwksTyped, provider, cache
  <1>3. Attempted' /\ Succeeded'
    BY DEF JwksInv, Attempted, Succeeded, cache
  <1>4. Cached'
    BY StillCached DEF cache
  <1>5. KeysAreTheProviders'
    BY DEF JwksInv, KeysAreTheProviders, OneFetchPerCooldown, NothingFromASecretSet, WithdrawnKeyAges,
           provider, cache
  <1>6. QED
    BY <1>1, <1>2, <1>3, <1>4, <1>5 DEF JwksInv

LEMMA FailedStep ==
    ASSUME JwksInv, NEW f \in Task, FetchFailed(f)
    PROVE  JwksInv'
  <1>1. /\ where[f] \in {"fetch", "reply"} /\ holder' = Nobody /\ body' = {}
        /\ where' = [where EXCEPT ![f] = "idle"] /\ missed' = TRUE
        /\ UNCHANGED <<tick, provider, cache, since, want, attempts>>
    BY DEF FetchFailed, Leave, Answer, cache
  <1>2. accepted' = accepted \/ (f \in Finder /\ accepted' = <<want[f], tick>>)
    BY DEF FetchFailed, Leave, Answer, Task
  <1>3. QED
    BY <1>1, <1>2, LostStep

LEMMA GivenUpStep ==
    ASSUME JwksInv, NEW f \in Task, GivenUp(f)
    PROVE  JwksInv'
  BY LostStep DEF GivenUp

(***************************************************************************)
(* The invariant, and what follows from it.                                 *)
(***************************************************************************)
LEMMA InitJwks ==
    ASSUME JwksInit
    PROVE  JwksInv
  <1>1. /\ tick = 0 /\ idp \in Sets /\ gone = [k \in Kid |-> Never] /\ keys = {} /\ fetchedAt = Never
        /\ lastAttempt = Never /\ holder = Nobody /\ body = {} /\ since = 0
        /\ want \in [Finder -> Kid]
        /\ where = [f \in Task |-> IF f = WarmUp THEN "wait" ELSE "idle"]
        /\ accepted = <<>> /\ attempts = {} /\ trusted = Clean(idp)
    <2>1. (CHOOSE k \in Kid : TRUE) \in Kid
      BY Zenon, JwksAssumption
    <2>2. PICK first \in Kid : first = (CHOOSE k \in Kid : TRUE)
      BY <2>1, Zenon
    <2>3. want = [f \in Finder |-> first]
      BY <2>2, Zenon DEF JwksInit
    <2>4. want \in [Finder -> Kid]
      BY <2>2, <2>3
    <2>5. QED
      BY <2>4, Zenon DEF JwksInit
  <1>2. JwksTyped
    BY <1>1, JwksAssumption DEF JwksTyped, Ticks, Instant
  <1>3. Locked /\ Attempted /\ Answered /\ Cached /\ Succeeded /\ Past
    BY <1>1, JwksAssumption DEF Locked, Attempted, Answered, Cached, Current, Succeeded, Past, Never
  <1>4. KeysAreTheProviders
    BY <1>1 DEF KeysAreTheProviders, OneFetchPerCooldown, WithdrawnKeyAges, NothingFromASecretSet
  <1>5. QED
    BY <1>1, <1>2, <1>3, <1>4 DEF JwksInv

LEMMA JwksStep ==
    ASSUME JwksInv, [JwksNext]_jwksVars
    PROVE  JwksInv'
  <1>1. CASE Pass
    BY <1>1, PassStep
  <1>2. CASE \E set \in Sets : Rotate(set)
    BY <1>2, RotateStep
  <1>3. CASE \E f \in Finder, k \in Kid : Ask(f, k)
    BY <1>3, AskStep
  <1>4. ASSUME NEW f \in Task, Find(f) \/ Reply(f) \/ Fetched(f) \/ FetchFailed(f) \/ GivenUp(f)
        PROVE  JwksInv'
    BY <1>4, FindStep, ReplyStep, FetchedStep, FailedStep, GivenUpStep
  <1>5. CASE Warm
    BY <1>5, WarmStep
  <1>6. CASE UNCHANGED jwksVars
    <2>1. JwksTyped' /\ Locked' /\ Attempted' /\ Succeeded' /\ Past'
      BY <1>6 DEF jwksVars, provider, cache, flight, record, JwksInv, JwksTyped, Locked, Attempted, Succeeded, Past
    <2>2. Answered' /\ Cached' /\ (Clean(idp) \subseteq trusted)' /\ KeysAreTheProviders'
      BY <1>6, StillCached, StillAnswered, PropertiesStand DEF jwksVars, cache, flight, record
    <2>3. QED
      BY <2>1, <2>2 DEF JwksInv
  <1>7. QED
    BY <1>1, <1>2, <1>3, <1>4, <1>5, <1>6 DEF JwksNext

LEMMA JwksHolds == JwksSpec => []JwksInv
  <1>1. JwksInit => JwksInv
    BY InitJwks
  <1>2. JwksInv /\ [JwksNext]_jwksVars => JwksInv'
    BY JwksStep
  <1>3. QED
    BY <1>1, <1>2, PTL DEF JwksSpec

\* The cache, the lock and the verifications keep their types (LiveState, LiveJwks).
THEOREM JwksTypeCorrect == JwksSpec => []JwksTypeOK
  <1>1. JwksInv => JwksTypeOK
    BY DEF JwksInv, JwksTyped, Locked, JwksTypeOK
  <1>2. QED
    BY <1>1, JwksHolds, PTL

\* The provider is asked at most once per cooldown, a withdrawn key is accepted
\* less than MaxAge longer as long as no fetch fails, and no cached key comes from
\* a set that carried a secret (oidc.rs: find, attempt_locked, validate_jwks_bytes).
THEOREM KeysAreTheProvidersHolds == JwksSpec => []KeysAreTheProviders
  <1>1. JwksInv => KeysAreTheProviders
    BY DEF JwksInv
  <1>2. QED
    BY <1>1, JwksHolds, PTL

-----------------------------------------------------------------------------
(***************************************************************************)
(* OperatorCommands.                                                       *)
(***************************************************************************)
Remote == Cloud \cup Once

(***************************************************************************)
(* Types.                                                                   *)
(***************************************************************************)
Stages == {"new", "flight", "journal", "over"}
CommandTyped ==
    /\ moment \in Nat
    /\ stage \in [Attempt -> Stages] /\ call \in [Attempt -> Call \cup {Nil}]
    /\ answer \in [Attempt -> Answers \cup {Nil}]
    /\ asked \in [Attempt -> Nat] /\ expires \in [Attempt -> Nat]

(***************************************************************************)
(* What is true of one attempt.                                             *)
(***************************************************************************)
\* Before it is made nothing has happened; a request under way has not been
\* acted on, carries its limit, and is of a command that goes to a server.
Fresh(a)    == stage[a] = "new" => a \notin wire /\ ~ Effected(a) /\ answer[a] = Nil
UnderWay(a) == a \in wire => /\ ~ Effected(a) /\ call[a].cmd \in Remote
                             /\ expires[a] # Forever => expires[a] = asked[a] + TokenTtl
Waiting(a)  == stage[a] = "flight" => answer[a] = Nil /\ call[a].cmd \in Remote

\* What the answer says is so.
Done(a)    == answer[a] = "done" => Effected(a)
Refused(a) == a \notin proxied /\ answer[a] \in {"refused", "refused_here"}
                  => ~ Effected(a) /\ a \notin wire

\* An attempt that is over and acted on, or may still be, is accounted for.
Kept(a) == \/ \E r \in rows : r.by = a
           \/ a \in unwritten \cup cut \cup hungUp
Over(a) == stage[a] = "over" /\ (Effected(a) \/ a \in wire) => Kept(a)

Sound(a) == Fresh(a) /\ UnderWay(a) /\ Waiting(a) /\ Done(a) /\ Refused(a) /\ Over(a)

ByAttempts == \A e \in effects : e.by \in Attempt
CommandInv == CommandTyped /\ ByAttempts /\ (\A a \in Attempt : Sound(a)) /\ LateIsBounded

LEMMA CallFields ==
    ASSUME NEW r \in Call
    PROVE  r.cmd \in Command /\ (r.cmd \notin Local => r.cmd \in Remote)
  BY DEF Call, Command, Remote

(***************************************************************************)
(* The attempts a step is not of.                                           *)
(***************************************************************************)
\* Nothing of the attempt changes, and no record is taken back.
Same(d) ==
    /\ stage'[d] = stage[d] /\ call'[d] = call[d] /\ answer'[d] = answer[d]
    /\ asked'[d] = asked[d] /\ expires'[d] = expires[d]
    /\ d \in wire' <=> d \in wire
    /\ (\E e \in effects' : e.by = d) <=> Effected(d)
Grows == rows \subseteq rows' /\ unwritten \subseteq unwritten' /\ cut \subseteq cut'
         /\ hungUp \subseteq hungUp' /\ proxied \subseteq proxied'

LEMMA SoundElse ==
    ASSUME NEW d \in Attempt, Sound(d), Same(d), Grows
    PROVE  Sound(d)'
  <1>1. Effected(d)' <=> Effected(d)
    BY DEF Same, Effected
  <1>2. Kept(d) => Kept(d)'
    BY DEF Kept, Grows
  <1>3. Fresh(d)' /\ UnderWay(d)' /\ Waiting(d)' /\ Done(d)'
    BY <1>1 DEF Sound, Fresh, UnderWay, Waiting, Done, Same, Forever
  <1>4. Refused(d)' /\ Over(d)'
    BY <1>1, <1>2 DEF Sound, Refused, Over, Same, Grows
  <1>5. QED
    BY <1>3, <1>4 DEF Sound

\* A step of attempt c alone.
LEMMA OneAttempt ==
    ASSUME CommandInv, NEW c \in Attempt, CommandTyped', \A d \in Attempt : d # c => Same(d), Grows,
           Sound(c)', ByAttempts', LateIsBounded'
    PROVE  CommandInv'
  BY SoundElse DEF CommandInv

\* A step that adds no effect and leaves the limits alone.
LEMMA LateKept ==
    ASSUME CommandInv, UNCHANGED <<effects, asked, expires>>
    PROVE  ByAttempts' /\ LateIsBounded'
  BY DEF CommandInv, ByAttempts, LateIsBounded, Forever

(***************************************************************************)
(* Making the call.                                                         *)
(***************************************************************************)
LEMMA RoleStep ==
    ASSUME CommandInv, NEW a \in Attempt, NEW k \in Offered, NEW role \in Role, RoleRefused(a, k, role)
    PROVE  CommandInv'
  <1>1. /\ stage[a] = "new" /\ stage' = [stage EXCEPT ![a] = "over"]
        /\ answer' = [answer EXCEPT ![a] = "refused_here"]
        /\ UNCHANGED <<moment, call, asked, expires, wire, rows, effects, proxied, unwritten, cut, hungUp>>
    BY DEF RoleRefused, servers, history
  <1>2. CommandTyped' /\ stage'[a] = "over" /\ answer'[a] = "refused_here"
    BY <1>1 DEF CommandInv, CommandTyped, Stages, Answers
  <1>3. \A d \in Attempt : d # a => Same(d)
    BY <1>1 DEF CommandInv, CommandTyped, Same, Effected
  <1>4. Grows
    BY <1>1 DEF Grows
  <1>5. Sound(a)'
    <2>1. a \notin wire /\ ~ Effected(a)
      BY <1>1 DEF CommandInv, Sound, Fresh
    <2>2. QED
      BY <1>1, <1>2, <2>1 DEF Sound, Fresh, UnderWay, Waiting, Done, Refused, Over, Effected
  <1>6. QED
    BY <1>1, <1>2, <1>3, <1>4, <1>5, OneAttempt, LateKept

\* A command of the console alone is not refused.
LEMMA LocalGoes ==
    ASSUME NEW r \in Call, r.cmd \in Local
    PROVE  Refusal(r) = Nil
  BY DEF Refusal, Local, Cloud, BreakGlass

LEMMA ExpiryTyping ==
    ASSUME CommandTyped, NEW r \in Call
    PROVE  Expiry(r) \in Nat /\ (Expiry(r) # Forever => Expiry(r) = moment + TokenTtl)
  BY CommandsAssumption DEF CommandTyped, Expiry, Forever

\* The three ways a command goes: refused here, done here, or sent.
LEMMA DispatchWays ==
    ASSUME CommandInv, NEW a \in Attempt, NEW r \in Call, NEW role \in Role, Dispatch(a, r, role)
    PROVE  /\ stage[a] = "new" /\ call' = [call EXCEPT ![a] = r] /\ asked' = [asked EXCEPT ![a] = moment]
           /\ UNCHANGED <<moment, rows, proxied, cut, hungUp>>
           /\ unwritten \subseteq unwritten'
           /\ \/ /\ stage' \in {[stage EXCEPT ![a] = s] : s \in {"over", "journal"}}
                 /\ answer' = [answer EXCEPT ![a] = "refused_here"]
                 /\ UNCHANGED <<wire, expires, effects>>
              \/ /\ stage' = [stage EXCEPT ![a] = "journal"] \/ (/\ stage' = [stage EXCEPT ![a] = "over"]
                                                                 /\ a \in unwritten')
                 /\ answer' = [answer EXCEPT ![a] = "done"]
                 /\ effects' = effects \cup {[by |-> a, at |-> moment]}
                 /\ UNCHANGED <<wire, expires>>
              \/ /\ stage' = [stage EXCEPT ![a] = "flight"] /\ answer' = [answer EXCEPT ![a] = Nil]
                 /\ wire' = wire \cup {a} /\ expires' = [expires EXCEPT ![a] = Expiry(r)]
                 /\ effects' = effects /\ r.cmd \in Remote
  <1>1. /\ stage[a] = "new" /\ call' = [call EXCEPT ![a] = r] /\ asked' = [asked EXCEPT ![a] = moment]
        /\ UNCHANGED <<moment, rows, proxied, cut, hungUp>> /\ unwritten \subseteq unwritten'
    BY DEF Dispatch
  <1>2. CASE Refusal(r) # Nil
    <2>1. r.cmd \notin Local
      BY <1>2, LocalGoes
    <2>2. answer' = [answer EXCEPT ![a] = "refused_here"] /\ UNCHANGED <<wire, expires, effects>>
      BY <1>2, <2>1 DEF Dispatch
    <2>3. stage' = [stage EXCEPT ![a] = "over"] \/ stage' = [stage EXCEPT ![a] = "journal"]
      <3>1. CASE JournalsRefusal(r)
        BY <1>2, <2>1, <3>1 DEF Dispatch
      <3>2. CASE ~ JournalsRefusal(r)
        BY <1>2, <2>1, <3>2 DEF Dispatch
      <3>3. QED
        BY <3>1, <3>2
    <2>4. QED
      BY <1>1, <2>2, <2>3
  <1>3. CASE Refusal(r) = Nil /\ r.cmd \in Local
    <2>1. /\ answer' = [answer EXCEPT ![a] = "done"] /\ UNCHANGED <<wire, expires>>
          /\ effects' = effects \cup {[by |-> a, at |-> moment]}
      BY <1>3 DEF Dispatch
    <2>2. CASE Plane[r.cmd] \in ready
      BY <1>1, <1>3, <2>1, <2>2 DEF Dispatch
    <2>3. CASE Plane[r.cmd] \notin ready
      BY <1>1, <1>3, <2>1, <2>3 DEF Dispatch
    <2>4. QED
      BY <2>2, <2>3
  <1>4. CASE Refusal(r) = Nil /\ r.cmd \notin Local
    <2>1. /\ answer' = [answer EXCEPT ![a] = Nil] /\ wire' = wire \cup {a} /\ effects' = effects
          /\ expires' = [expires EXCEPT ![a] = Expiry(r)]
      BY <1>4 DEF Dispatch
    <2>2. stage' = [stage EXCEPT ![a] = "flight"]
      BY <1>4 DEF Dispatch
    <2>3. QED
      BY <1>1, <1>4, <2>1, <2>2, CallFields
  <1>5. QED
    BY <1>2, <1>3, <1>4

LEMMA DispatchStep ==
    ASSUME CommandInv, NEW a \in Attempt, NEW r \in Call, NEW role \in Role, Dispatch(a, r, role)
    PROVE  CommandInv'
  <1>1. /\ stage[a] = "new" /\ call' = [call EXCEPT ![a] = r] /\ asked' = [asked EXCEPT ![a] = moment]
        /\ UNCHANGED <<moment, rows, proxied, cut, hungUp>> /\ unwritten \subseteq unwritten'
    BY DispatchWays
  <1>2. a \notin wire /\ ~ Effected(a) /\ \A e \in effects : e.by # a
    BY <1>1 DEF CommandInv, Sound, Fresh, Effected
  <1>3. Grows
    BY <1>1 DEF Grows
  <1>4. /\ call' \in [Attempt -> Call \cup {Nil}] /\ asked' \in [Attempt -> Nat] /\ moment' \in Nat
        /\ call'[a] = r /\ asked'[a] = moment
        /\ \A d \in Attempt : d # a => call'[d] = call[d] /\ asked'[d] = asked[d]
    BY <1>1 DEF CommandInv, CommandTyped
  <1>5. ASSUME NEW s \in {"over", "journal"}, stage' = [stage EXCEPT ![a] = s],
               answer' = [answer EXCEPT ![a] = "refused_here"], UNCHANGED <<wire, expires, effects>>
        PROVE  CommandInv'
    <2>1. CommandTyped' /\ stage'[a] = s /\ answer'[a] = "refused_here"
      BY <1>4, <1>5 DEF CommandInv, CommandTyped, Stages, Answers
    <2>2. \A d \in Attempt : d # a => Same(d)
      BY <1>4, <1>5 DEF CommandInv, CommandTyped, Same, Effected
    <2>3. Sound(a)'
      BY <1>2, <1>5, <2>1 DEF Sound, Fresh, UnderWay, Waiting, Done, Refused, Over, Effected
    <2>4. ByAttempts' /\ LateIsBounded'
      BY <1>2, <1>4, <1>5 DEF CommandInv, ByAttempts, LateIsBounded, Forever
    <2>5. QED
      BY <1>3, <2>1, <2>2, <2>3, <2>4, OneAttempt
  <1>6. ASSUME \/ stage' = [stage EXCEPT ![a] = "journal"]
               \/ stage' = [stage EXCEPT ![a] = "over"] /\ a \in unwritten',
               answer' = [answer EXCEPT ![a] = "done"], UNCHANGED <<wire, expires>>,
               effects' = effects \cup {[by |-> a, at |-> moment]}
        PROVE  CommandInv'
    <2>1. CommandTyped' /\ answer'[a] = "done"
      BY <1>4, <1>6 DEF CommandInv, CommandTyped, Stages, Answers
    <2>2. stage'[a] = "journal" \/ (stage'[a] = "over" /\ a \in unwritten')
      BY <1>6 DEF CommandInv, CommandTyped
    <2>3. \A d \in Attempt : d # a => Same(d)
      BY <1>4, <1>6 DEF CommandInv, CommandTyped, Same, Effected
    <2>4. Effected(a)'
      <3>1. [by |-> a, at |-> moment] \in effects' /\ [by |-> a, at |-> moment].by = a
        BY <1>6
      <3>2. QED
        BY <3>1 DEF Effected
    <2>5. Sound(a)'
      BY <1>2, <1>6, <2>1, <2>2, <2>4 DEF Sound, Fresh, UnderWay, Waiting, Done, Refused, Over, Kept
    <2>6. ByAttempts' /\ LateIsBounded'
      <3>1. ByAttempts'
        BY <1>6 DEF CommandInv, ByAttempts
      <3>2. ASSUME NEW e \in effects', expires'[e.by] # Forever PROVE e.at <= asked'[e.by] + TokenTtl
        <4>1. CASE e \in effects
          BY <1>2, <1>4, <1>6, <3>2, <4>1 DEF CommandInv, ByAttempts, LateIsBounded
        <4>2. CASE e = [by |-> a, at |-> moment]
          <5>1. e.by = a /\ e.at = moment /\ moment \in Nat /\ TokenTtl \in Nat
            BY <4>2, CommandsAssumption DEF CommandInv, CommandTyped
          <5>2. QED
            BY <1>4, <5>1
        <4>3. QED
          BY <1>6, <4>1, <4>2
      <3>3. QED
        BY <3>1, <3>2 DEF LateIsBounded, Forever
    <2>7. QED
      BY <1>3, <2>1, <2>3, <2>5, <2>6, OneAttempt
  <1>7. ASSUME stage' = [stage EXCEPT ![a] = "flight"], answer' = [answer EXCEPT ![a] = Nil],
               wire' = wire \cup {a}, expires' = [expires EXCEPT ![a] = Expiry(r)],
               effects' = effects, r.cmd \in Remote
        PROVE  CommandInv'
    <2>0. Expiry(r) \in Nat /\ (Expiry(r) # Forever => Expiry(r) = moment + TokenTtl)
      BY ExpiryTyping DEF CommandInv
    <2>1. CommandTyped' /\ stage'[a] = "flight" /\ answer'[a] = Nil /\ expires'[a] = Expiry(r)
      BY <1>4, <1>7, <2>0 DEF CommandInv, CommandTyped, Stages
    <2>2. \A d \in Attempt : d # a => Same(d)
      BY <1>4, <1>7 DEF CommandInv, CommandTyped, Same, Effected
    <2>3. Forever' = Forever
      BY DEF Forever
    <2>4. Fresh(a)' /\ UnderWay(a)' /\ Waiting(a)' /\ Over(a)'
      BY <1>2, <1>4, <1>7, <2>0, <2>1, <2>3 DEF Fresh, UnderWay, Waiting, Over, Effected
    <2>5. Done(a)' /\ Refused(a)'
      BY <2>1, CommandsAssumption DEF Done, Refused, Answers
    <2>6. ByAttempts' /\ LateIsBounded'
      BY <1>2, <1>4, <1>7, <2>3 DEF CommandInv, ByAttempts, LateIsBounded, CommandTyped
    <2>7. QED
      BY <1>3, <2>1, <2>2, <2>4, <2>5, <2>6, OneAttempt DEF Sound
  <1>8. QED
    BY <1>5, <1>6, <1>7, DispatchWays

(***************************************************************************)
(* The answer of the server, of something else, or none.                    *)
(***************************************************************************)
\* Only the server's own answer is read as done, and only it or a proxy's 5xx
\* as a refusal.
LEMMA ReadsTyping ==
    ASSUME NEW r, r.cmd \in Remote
    PROVE  /\ Reads(r, "accepted") = "done" /\ Reads(r, "refused") = "refused"
           /\ Reads(r, "page") \in {"error", "unconfirmed"} /\ Reads(r, "proxy") \in {"error", "refused"}
           /\ Reads(r, "silence") = "unreachable"
  <1>1. CASE r.cmd \in Cloud
    BY <1>1 DEF Reads, CloudReads, Cloud, BreakGlass
  <1>2. CASE r.cmd = "money_close_retained"
    BY <1>2 DEF Reads, ClosureReads, Cloud, BreakGlass
  <1>3. CASE r.cmd = "policy_decide_approval"
    BY <1>3 DEF Reads, DecisionReads, Cloud, BreakGlass
  <1>4. QED
    BY <1>1, <1>2, <1>3 DEF Remote, Once

\* An answer read while the command waits for it.
LEMMA ReadWays ==
    ASSUME CommandInv, NEW a \in Attempt, NEW what \in {"accepted", "refused", "page", "proxy", "silence"},
           Read(a, what)
    PROVE  /\ stage[a] = "flight" /\ call[a].cmd \in Remote
           /\ stage' \in [Attempt -> Stages] /\ answer' \in [Attempt -> Answers \cup {Nil}]
           /\ stage'[a] = "journal" /\ answer'[a] = Reads(call[a], what)
           /\ \A d \in Attempt : d # a => stage'[d] = stage[d] /\ answer'[d] = answer[d]
  <1>1. /\ stage[a] = "flight" /\ stage' = [stage EXCEPT ![a] = "journal"]
        /\ answer' = [answer EXCEPT ![a] = Reads(call[a], what)]
    BY DEF Read
  <1>2. call[a].cmd \in Remote
    BY <1>1 DEF CommandInv, Sound, Waiting
  <1>3. Reads(call[a], what) \in Answers
    BY <1>2, ReadsTyping DEF Answers
  <1>4. QED
    BY <1>1, <1>2, <1>3 DEF CommandInv, CommandTyped, Stages

LEMMA StrayStep ==
    ASSUME CommandInv, NEW a \in Attempt, NEW what \in {"page", "proxy", "silence"}, Read(a, what),
           UNCHANGED <<moment, call, asked, expires, wire, rows, effects, unwritten, cut, hungUp>>,
           proxied' = IF what = "proxy" THEN proxied \cup {a} ELSE proxied
    PROVE  CommandInv'
  <1>1. /\ stage[a] = "flight" /\ call[a].cmd \in Remote
        /\ stage' \in [Attempt -> Stages] /\ answer' \in [Attempt -> Answers \cup {Nil}]
        /\ stage'[a] = "journal" /\ answer'[a] = Reads(call[a], what)
        /\ \A d \in Attempt : d # a => stage'[d] = stage[d] /\ answer'[d] = answer[d]
    BY ReadWays
  <1>2. answer'[a] # "done" /\ (answer'[a] \in {"refused", "refused_here"} => a \in proxied')
    BY <1>1, ReadsTyping
  <1>3. CommandTyped'
    BY <1>1 DEF CommandInv, CommandTyped
  <1>4. \A d \in Attempt : d # a => Same(d)
    BY <1>1 DEF Same, Effected
  <1>5. Grows
    BY DEF Grows
  <1>6. Sound(a)'
    <2>1. UnderWay(a)'
      BY DEF CommandInv, Sound, UnderWay, Effected, Forever
    <2>2. Fresh(a)' /\ Waiting(a)' /\ Done(a)' /\ Refused(a)' /\ Over(a)'
      BY <1>1, <1>2 DEF Fresh, Waiting, Done, Refused, Over
    <2>3. QED
      BY <2>1, <2>2 DEF Sound
  <1>7. QED
    BY <1>3, <1>4, <1>5, <1>6, OneAttempt, LateKept

LEMMA UnreachableStep ==
    ASSUME CommandInv, NEW a \in Attempt, Unreachable(a)
    PROVE  CommandInv'
  BY StrayStep DEF Unreachable, servers, history

(***************************************************************************)
(* The request arrives.                                                     *)
(***************************************************************************)
\* A request the server acts on is within its limit.
LEMMA InTime ==
    ASSUME CommandInv, NEW a \in Attempt, a \in wire, Acceptable(a), expires[a] # Forever
    PROVE  moment <= asked[a] + TokenTtl
  BY DEF CommandInv, Sound, UnderWay, Acceptable

LEMMA ArrivesStep ==
    ASSUME CommandInv, NEW a \in Attempt, NEW ok \in BOOLEAN, Arrives(a, ok)
    PROVE  CommandInv'
  <1>1. /\ a \in wire /\ wire' = wire \ {a} /\ (ok => Acceptable(a))
        /\ ok => effects' = effects \cup {[by |-> a, at |-> moment]}
        /\ ~ ok => effects' = effects
        /\ UNCHANGED <<moment, call, asked, expires, rows, proxied, unwritten, cut, hungUp>>
        /\ UNCHANGED <<stage, answer>> \/ Read(a, IF ok THEN "accepted" ELSE "refused")
    BY DEF Arrives, history
  <1>2. ~ Effected(a) /\ call[a].cmd \in Remote /\ stage[a] # "new"
    BY <1>1 DEF CommandInv, Sound, UnderWay, Fresh
  <1>3. ok => Effected(a)'
    <2>1. ok => [by |-> a, at |-> moment] \in effects' /\ [by |-> a, at |-> moment].by = a
      BY <1>1
    <2>2. QED
      BY <2>1 DEF Effected
  <1>4. ~ ok => ~ Effected(a)'
    BY <1>1, <1>2 DEF Effected
  <1>5. Grows
    BY <1>1 DEF Grows
  <1>6. ByAttempts' /\ LateIsBounded'
    <2>1. CASE ok
      <3>1. ByAttempts'
        BY <1>1, <2>1 DEF CommandInv, ByAttempts
      <3>2. ASSUME NEW e \in effects', expires'[e.by] # Forever PROVE e.at <= asked'[e.by] + TokenTtl
        <4>1. CASE e \in effects
          BY <1>1, <3>2, <4>1 DEF CommandInv, LateIsBounded
        <4>2. CASE e = [by |-> a, at |-> moment]
          <5>1. e.by = a /\ e.at = moment
            BY <4>2
          <5>2. QED
            BY <1>1, <2>1, <3>2, <5>1, InTime
        <4>3. QED
          BY <1>1, <2>1, <4>1, <4>2
      <3>3. QED
        BY <3>1, <3>2 DEF LateIsBounded, Forever
    <2>2. CASE ~ ok
      BY <1>1, <2>2, LateKept
    <2>3. QED
      BY <2>1, <2>2
  <1>7. CASE UNCHANGED <<stage, answer>>
    <2>1. CommandTyped'
      BY <1>1, <1>7 DEF CommandInv, CommandTyped
    <2>2. \A d \in Attempt : d # a => Same(d)
      BY <1>1, <1>7 DEF Same, Effected
    <2>3. Sound(a)'
      <3>1. Fresh(a)' /\ UnderWay(a)' /\ Waiting(a)' /\ Refused(a)'
        BY <1>1, <1>2, <1>7 DEF CommandInv, Sound, Fresh, UnderWay, Waiting, Refused
      <3>2. answer[a] # "done"
        BY <1>2 DEF CommandInv, Sound, Done
      <3>3. Over(a)'
        BY <1>1, <1>7 DEF CommandInv, Sound, Over, Kept
      <3>4. QED
        BY <1>7, <3>1, <3>2, <3>3 DEF Sound, Done
    <2>4. QED
      BY <1>5, <1>6, <2>1, <2>2, <2>3, OneAttempt
  <1>8. CASE Read(a, IF ok THEN "accepted" ELSE "refused")
    <2>1. PICK what \in {"accepted", "refused"} : what = (IF ok THEN "accepted" ELSE "refused")
      OBVIOUS
    <2>2. /\ stage[a] = "flight"
          /\ stage' \in [Attempt -> Stages] /\ answer' \in [Attempt -> Answers \cup {Nil}]
          /\ stage'[a] = "journal" /\ answer'[a] = Reads(call[a], what)
          /\ \A d \in Attempt : d # a => stage'[d] = stage[d] /\ answer'[d] = answer[d]
      BY <1>8, <2>1, ReadWays
    <2>3. answer'[a] = (IF ok THEN "done" ELSE "refused")
      BY <1>2, <2>1, <2>2, ReadsTyping
    <2>4. CommandTyped'
      BY <1>1, <2>2 DEF CommandInv, CommandTyped
    <2>5. \A d \in Attempt : d # a => Same(d)
      BY <1>1, <2>2 DEF Same, Effected
    <2>6. Sound(a)'
      BY <1>1, <1>3, <1>4, <2>2, <2>3 DEF Sound, Fresh, UnderWay, Waiting, Done, Refused, Over
    <2>7. QED
      BY <1>5, <1>6, <2>4, <2>5, <2>6, OneAttempt
  <1>9. QED
    BY <1>1, <1>7, <1>8

(***************************************************************************)
(* The row, the browser that goes away, the death of the console.           *)
(***************************************************************************)
\* An attempt ends, and is accounted for.
LEMMA EndingStep ==
    ASSUME CommandInv, NEW a \in Attempt, stage[a] \in {"flight", "journal"},
           stage' = [stage EXCEPT ![a] = "over"], Grows, Kept(a)',
           UNCHANGED <<moment, call, asked, expires, answer, wire, effects, proxied>>
    PROVE  CommandInv'
  <1>1. CommandTyped' /\ stage'[a] = "over"
    BY DEF CommandInv, CommandTyped, Stages
  <1>2. \A d \in Attempt : d # a => Same(d)
    BY DEF CommandInv, CommandTyped, Same, Effected
  <1>3. Sound(a)'
    <2>1. UnderWay(a)' /\ Done(a)' /\ Refused(a)'
      BY DEF CommandInv, Sound, UnderWay, Done, Refused, Effected, Forever
    <2>2. Fresh(a)' /\ Waiting(a)' /\ Over(a)'
      BY <1>1 DEF Fresh, Waiting, Over
    <2>3. QED
      BY <2>1, <2>2 DEF Sound
  <1>4. QED
    BY <1>1, <1>2, <1>3, OneAttempt, LateKept

LEMMA FinishStep ==
    ASSUME CommandInv, NEW a \in Attempt, Finish(a)
    PROVE  CommandInv'
  <1>1. PICK row : /\ row = [by |-> a, operator |-> Operator(call[a]), verdict |-> answer[a]]
                   /\ rows' = rows \cup {row}
    BY DEF Finish
  <1>2. row.by = a /\ row \in rows'
    BY <1>1
  <1>3. Kept(a)' /\ Grows
    BY <1>1, <1>2 DEF Kept, Grows, Finish, history
  <1>4. QED
    BY <1>3, EndingStep DEF Finish, history, servers

LEMMA UnwrittenStep ==
    ASSUME CommandInv, NEW a \in Attempt, FinishUnwritten(a)
    PROVE  CommandInv'
  <1>1. Kept(a)' /\ Grows
    BY DEF FinishUnwritten, Kept, Grows
  <1>2. QED
    BY <1>1, EndingStep DEF FinishUnwritten, servers

LEMMA HangUpStep ==
    ASSUME CommandInv, NEW a \in Attempt, HangUp(a)
    PROVE  CommandInv'
  <1>1. Kept(a)' /\ Grows
    BY DEF HangUp, Kept, Grows
  <1>2. QED
    BY <1>1, EndingStep DEF HangUp, servers

LEMMA EndsStep ==
    ASSUME CommandInv, Ends
    PROVE  CommandInv'
  <1>1. /\ stage' = [a \in Attempt |-> IF stage[a] \in {"flight", "journal"} THEN "over" ELSE stage[a]]
        /\ cut' = cut \cup {a \in Attempt : stage[a] \in {"flight", "journal"}}
        /\ UNCHANGED <<moment, call, asked, expires, answer, wire, rows, effects, proxied, unwritten, hungUp>>
    BY DEF Ends, servers
  <1>2. CommandTyped'
    BY <1>1 DEF CommandInv, CommandTyped, Stages
  <1>3. Grows
    BY <1>1 DEF Grows
  <1>4. ASSUME NEW d \in Attempt PROVE Sound(d)'
    <2>1. CASE stage[d] \in {"flight", "journal"}
      <3>1. stage'[d] = "over" /\ d \in cut'
        BY <1>1, <2>1
      <3>2. UnderWay(d)' /\ Done(d)' /\ Refused(d)'
        BY <1>1 DEF CommandInv, Sound, UnderWay, Done, Refused, Effected, Forever
      <3>3. QED
        BY <3>1, <3>2 DEF Sound, Fresh, Waiting, Over, Kept
    <2>2. CASE stage[d] \notin {"flight", "journal"}
      <3>1. Same(d)
        BY <1>1, <2>2 DEF Same, Effected
      <3>2. QED
        BY <1>3, <3>1, SoundElse DEF CommandInv
    <2>3. QED
      BY <2>1, <2>2
  <1>5. QED
    BY <1>1, <1>2, <1>4, LateKept DEF CommandInv

\* A plane that comes up, time that passes, and nothing at all.
LEMMA IdleStep ==
    ASSUME CommandInv, moment' \in Nat,
           UNCHANGED <<call, stage, asked, expires, answer, wire, rows, effects, proxied, unwritten, cut, hungUp>>
    PROVE  CommandInv'
  <1>1. CommandTyped' /\ Grows /\ \A d \in Attempt : Same(d)
    BY DEF CommandInv, CommandTyped, Grows, Same, Effected
  <1>2. QED
    BY <1>1, SoundElse, LateKept DEF CommandInv

(***************************************************************************)
(* The invariant, and what follows from it.                                 *)
(***************************************************************************)
LEMMA InitCommand ==
    ASSUME CommandsInit
    PROVE  CommandInv
  <1>1. CommandTyped
    BY CommandsAssumption DEF CommandsInit, CommandTyped, Stages, Forever
  <1>2. \A a \in Attempt : stage[a] = "new" /\ answer[a] = Nil /\ a \notin wire /\ ~ Effected(a)
    BY DEF CommandsInit, Effected
  <1>3. \A a \in Attempt : Sound(a)
    BY <1>2, CommandsAssumption DEF Sound, Fresh, UnderWay, Waiting, Done, Refused, Over, Answers
  <1>4. ByAttempts /\ LateIsBounded
    BY DEF CommandsInit, ByAttempts, LateIsBounded
  <1>5. QED
    BY <1>1, <1>3, <1>4 DEF CommandInv

LEMMA CommandStep ==
    ASSUME CommandInv, [CommandsNext]_commandVars
    PROVE  CommandInv'
  <1>1. CASE \E a \in Attempt, r \in Call, role \in Role : Dispatch(a, r, role)
    BY <1>1, DispatchStep
  <1>2. CASE \E a \in Attempt, c \in Offered, role \in Role : RoleRefused(a, c, role)
    BY <1>2, RoleStep
  <1>3. ASSUME NEW a \in Attempt,
               Arrives(a, TRUE) \/ Arrives(a, FALSE) \/ Stray(a, "page") \/ Stray(a, "proxy")
        PROVE  CommandInv'
    <2>1. CASE Arrives(a, TRUE) \/ Arrives(a, FALSE)
      BY <2>1, ArrivesStep
    <2>2. CASE Stray(a, "page") \/ Stray(a, "proxy")
      <3>1. PICK what \in {"page", "proxy"} : Stray(a, what)
        BY <2>2
      <3>2. QED
        BY <3>1, StrayStep DEF Stray, servers
    <2>3. QED
      BY <1>3, <2>1, <2>2
  <1>4. ASSUME NEW a \in Attempt, Unreachable(a) \/ HangUp(a) \/ Finish(a) \/ FinishUnwritten(a)
        PROVE  CommandInv'
    BY <1>4, UnreachableStep, HangUpStep, FinishStep, UnwrittenStep
  <1>5. CASE Ends
    BY <1>5, EndsStep
  <1>6. CASE ComesUp \/ Elapse \/ UNCHANGED commandVars
    <2>1. moment' \in Nat
      BY <1>6 DEF ComesUp, Elapse, commandVars, CommandInv, CommandTyped
    <2>2. QED
      BY <1>6, <2>1, IdleStep DEF ComesUp, Elapse, commandVars, attemptVars, servers, history
  <1>7. QED
    BY <1>1, <1>2, <1>3, <1>4, <1>5, <1>6 DEF CommandsNext

LEMMA CommandHolds == CommandsSpec => []CommandInv
  <1>1. CommandsInit => CommandInv
    BY InitCommand
  <1>2. CommandInv /\ [CommandsNext]_commandVars => CommandInv'
    BY CommandStep
  <1>3. QED
    BY <1>1, <1>2, PTL DEF CommandsSpec

\* An attempt a server acted on, at once or long after the console gave up on
\* it, is in the journal or still on its way there, unless the write failed, the
\* console died over it or its browser hung up (finish_mutation, Attempt::journal).
THEOREM EffectsAreJournaledHolds == CommandsSpec => []EffectsAreJournaled
  <1>1. CommandInv => EffectsAreJournaled
    <2>1. SUFFICES ASSUME CommandInv, NEW a \in Attempt, Effected(a) PROVE Accounted(a) \/ a \in hungUp
      BY DEF EffectsAreJournaled
    <2>2. stage[a] \in {"flight", "journal", "over"}
      BY <2>1 DEF CommandInv, CommandTyped, Stages, Sound, Fresh
    <2>3. stage[a] = "over" => Kept(a)
      BY <2>1 DEF CommandInv, Sound, Over
    <2>4. QED
      BY <2>2, <2>3 DEF Kept, Accounted
  <1>2. QED
    BY <1>1, CommandHolds, PTL

\* What the operator is told stays true of the plane: "done" was done, "refused"
\* never happens unless a proxy said it, and what nobody answered for can only
\* take hold within the life of its token (retained.rs, cloud_rest.rs, wardryx.rs).
THEOREM AnswersAreTrueHolds == CommandsSpec => []AnswersAreTrue
  <1>1. CommandInv => AnswersAreTrue
    BY DEF CommandInv, AnswersAreTrue, DoneMeansDone, RefusedMeansNever, Sound, Done, Refused
  <1>2. QED
    BY <1>1, CommandHolds, PTL
=============================================================================
