--------------------------- MODULE AccountsProofs ---------------------------
(***************************************************************************)
(* Invites, users and the rows of the ETH adapter, for every number of     *)
(* names, invites, tokens and requests: what the handlers found when they  *)
(* looked need not be true any more when update_worker applies what they   *)
(* sent, and what holds nevertheless.                                      *)
(***************************************************************************)
EXTENDS Accounts, FiniteSetTheorems, WellFoundedInduction, TLAPS

SigningUp == [ at     : {"createuser", "default tokens", "signup"},
               user   : Names,
               invite : Invites ]

Posting == [ at : {"tokens"}, user : Names, list : [Tokens -> Nat] ]

HandlerStates == {Idle} \union SigningUp \union Posting

StateUpdates ==
    [ tag : {"signup"}, user : Names, invite : Invites ]
    \union [ tag : {"tokens"}, user : Names, token : Tokens, action : {"Enable", "Disable"} ]
    \union [ tag : {"address"}, user : Names, address : Nat ]

Typed ==
    /\ scenario \in Scenario
    /\ accounts \in Nat
    /\ users_eth \in [Names -> UserEth \union {NoRow}]
    /\ refresh = [ alive |-> refresh.alive, read |-> refresh.read ]
    /\ users \in [Names -> UserInfo \union {NoUser}]
    /\ updates \in Seq(StateUpdates)
    /\ handler \in [Handlers -> HandlerStates]

(* The users are as many as the invites used up.                           *)
InvitesAreUsed ==
    /\ IsFiniteSet(Users) /\ IsFiniteSet(issued)
    /\ invites \subseteq issued
    /\ Cardinality(Users) = Cardinality(issued \ invites)

(* Each row has an account that nobody else has, and each user a row; the  *)
(* refresh writes back rows that are still there, under their address.     *)
AccountsAreOwn ==
    /\ \A n \in Rows : users_eth[n].address \in 1..accounts
    /\ \A m, n \in Rows : m # n => users_eth[m].address # users_eth[n].address
    /\ Users \subseteq Rows
    /\ \A n \in Users : users[n].deposit_info \subseteq {users_eth[n].address}
    /\ \A n \in DOMAIN refresh.read :
          /\ n \in Rows /\ refresh.read[n] \in UserEth
          /\ refresh.read[n].address = users_eth[n].address

(* While names do not share invites, the invite of a sign-up is used up by *)
(* nobody but its own name.                                                *)
Entitled(n, i) == "share" \notin mix => i = Own[n] /\ (n \in Users \/ i \in invites)

(* What a handler is about to do ...                                       *)
Sound(s) ==
    /\ s \in SigningUp => Entitled(s.user, s.invite)
    /\ s.at \in {"default tokens", "signup"} => s.user \in Rows

(* ... and what it has sent.                                               *)
Due(u) ==
    /\ u.tag = "signup"  => u.user \in Rows /\ Entitled(u.user, u.invite)
    /\ u.tag = "address" => u.user \in Rows /\ u.address = users_eth[u.user].address

Queued == { updates[k] : k \in DOMAIN updates }

OnTheWay ==
    /\ \A h \in Handlers : Sound(handler[h])
    /\ \A u \in Queued : Due(u)

(* A sign-up that has made its row, and is not applied yet.                *)
Awaited(n) ==
    \/ \E h \in Handlers : handler[h].at \in {"default tokens", "signup"} /\ handler[h].user = n
    \/ \E u \in Queued : u.tag = "signup" /\ u.user = n

Undisturbed == mix \intersect {"share", "adapter", "store"} = {}

NobodyIsLost == Undisturbed => \A n \in Rows : n \in Users \/ Awaited(n)

AccountsInv == Typed /\ InvitesAreUsed /\ AccountsAreOwn /\ OnTheWay /\ NobodyIsLost

-----------------------------------------------------------------------------
(* What a handler is about to do, by its next call.                        *)
LEMMA HandlerFacts ==
    /\ Idle \in HandlerStates /\ Idle.at = "idle" /\ Idle \notin SigningUp
    /\ \A s \in HandlerStates :
          /\ s.at \in {"createuser", "default tokens", "signup"} => s \in SigningUp
          /\ s.at = "tokens" => s \in Posting
    /\ \A s \in SigningUp :
          /\ s.at \in {"createuser", "default tokens", "signup"}
          /\ s.user \in Names /\ s.invite \in Invites /\ s \in HandlerStates
    /\ \A s \in Posting : s.at = "tokens" /\ s.user \in Names /\ s.list \in [Tokens -> Nat]
                          /\ s \in HandlerStates /\ s \notin SigningUp
<1>1. /\ \A s \in SigningUp :
           /\ s.at \in {"createuser", "default tokens", "signup"}
           /\ s.user \in Names /\ s.invite \in Invites
      /\ \A s \in Posting : s.at = "tokens" /\ s.user \in Names /\ s.list \in [Tokens -> Nat]
  BY DEF SigningUp, Posting
<1>2. Idle.at = "idle"
  BY DEF Idle
<1> QED
  BY <1>1, <1>2 DEF HandlerStates

LEMMA UpdateFacts ==
    \A u \in StateUpdates :
       /\ u.user \in Names
       /\ u.tag \in {"signup", "tokens", "address"}
       /\ u.tag = "signup" => u.invite \in Invites
       /\ u.tag = "tokens" => u.token \in Tokens
       /\ u.tag = "address" => u.address \in Nat
  BY DEF StateUpdates

LEMMA AppendQueued ==
    ASSUME Typed, NEW u \in StateUpdates, updates' = Append(updates, u)
    PROVE  updates' \in Seq(StateUpdates) /\ Queued' = Queued \union {u}
<1>1. updates \in Seq(StateUpdates) /\ updates' \in Seq(StateUpdates)
  BY DEF Typed
<1>2. /\ DOMAIN updates = 1..Len(updates) /\ DOMAIN updates' = 1..(Len(updates) + 1)
      /\ Len(updates) \in Nat
      /\ \A k \in 1..Len(updates) : updates'[k] = updates[k]
      /\ updates'[Len(updates) + 1] = u
  BY <1>1
<1>3. Queued' \subseteq Queued \union {u}
  BY <1>2 DEF Queued
<1>4. Queued \subseteq Queued'
  BY <1>2 DEF Queued
<1>5. u \in Queued'
  BY <1>2 DEF Queued
<1> QED
  BY <1>1, <1>3, <1>4, <1>5

LEMMA TailQueued ==
    ASSUME Typed, updates # <<>>, updates' = Tail(updates)
    PROVE  /\ updates' \in Seq(StateUpdates)
           /\ Head(updates) \in Queued /\ Head(updates) \in StateUpdates
           /\ Queued' \subseteq Queued /\ Queued \subseteq Queued' \union {Head(updates)}
<1>1. updates \in Seq(StateUpdates) /\ updates' \in Seq(StateUpdates)
  BY DEF Typed
<1>2. /\ Len(updates) \in Nat \ {0} /\ Head(updates) = updates[1]
      /\ DOMAIN updates = 1..Len(updates) /\ DOMAIN updates' = 1..(Len(updates) - 1)
      /\ \A k \in 1..(Len(updates) - 1) : updates'[k] = updates[k + 1]
  BY <1>1
<1>3. Head(updates) \in Queued /\ Head(updates) \in StateUpdates
  BY <1>1, <1>2 DEF Queued
<1>4. ASSUME NEW v \in Queued' PROVE v \in Queued
  <2>1. PICK k \in 1..(Len(updates) - 1) : v = updates'[k]
    BY <1>2, <1>4 DEF Queued
  <2>2. v = updates[k + 1] /\ k + 1 \in DOMAIN updates
    BY <1>2, <2>1
  <2> QED
    BY <2>2 DEF Queued
<1>5. ASSUME NEW v \in Queued PROVE v \in Queued' \union {Head(updates)}
  <2>1. PICK k \in 1..Len(updates) : v = updates[k]
    BY <1>2, <1>5 DEF Queued
  <2>2. CASE k = 1
    BY <1>2, <2>1, <2>2
  <2>3. CASE k # 1
    <3>1. k - 1 \in 1..(Len(updates) - 1) /\ updates'[k - 1] = updates[(k - 1) + 1]
      BY <1>2, <2>1, <2>3
    <3>2. (k - 1) + 1 = k
      BY <2>1
    <3>3. k - 1 \in DOMAIN updates' /\ updates'[k - 1] = v
      BY <1>2, <2>1, <3>1, <3>2
    <3> QED
      BY <3>3 DEF Queued
  <2> QED
    BY <2>2, <2>3
<1> QED
  BY <1>1, <1>3, <1>4, <1>5

-----------------------------------------------------------------------------
(* No row goes or gets another account, no user goes, and an invite is     *)
(* used up by its own name only.                                           *)
Grows ==
    /\ scenario' = scenario
    /\ \A n \in Rows : n \in Rows' /\ users_eth'[n].address = users_eth[n].address
    /\ \A n \in Users : n \in Users'
    /\ "share" \notin mix =>
          \A n \in Names : Own[n] \in invites => Own[n] \in invites' \/ n \in Users'

LEMMA StillSound ==
    ASSUME Grows
    PROVE  /\ \A s \in HandlerStates : Sound(s) => Sound(s)'
           /\ \A u \in StateUpdates : Due(u) => Due(u)'
<1>1. \A n \in Names, i \in Invites : Entitled(n, i) => Entitled(n, i)'
  BY DEF Grows, Entitled, mix
<1>2. ASSUME NEW s \in HandlerStates, Sound(s) PROVE Sound(s)'
  BY <1>1, <1>2, HandlerFacts DEF Sound, Grows
<1>3. ASSUME NEW u \in StateUpdates, Due(u) PROVE Due(u)'
  BY <1>1, <1>3, UpdateFacts DEF Due, Grows
<1> QED
  BY <1>2, <1>3

LEMMA OnTheWayKept ==
    ASSUME AccountsInv, Grows,
           \A h \in Handlers : handler'[h] = handler[h] \/ Sound(handler[h])',
           \A u \in Queued' : u \in Queued \/ Due(u)'
    PROVE  OnTheWay'
<1>1. \A h \in Handlers : handler[h] \in HandlerStates /\ Sound(handler[h])
  BY DEF AccountsInv, Typed, OnTheWay
<1>2. \A u \in Queued : u \in StateUpdates /\ Due(u)
  <2>1. \A k \in DOMAIN updates : updates[k] \in StateUpdates
    BY DEF AccountsInv, Typed
  <2> QED
    BY <2>1 DEF AccountsInv, OnTheWay, Queued
<1>3. \A h \in Handlers : Sound(handler[h])'
  BY <1>1, StillSound
<1>4. \A u \in Queued' : Due(u)'
  BY <1>2, StillSound
<1> QED
  BY <1>3, <1>4 DEF OnTheWay

(* Steps that leave users and rows as they are, but for a row's tokens.    *)
LEMMA AccountsKept ==
    ASSUME AccountsInv, accounts' \in Nat, accounts' >= accounts, users' = users,
           Rows' = Rows, \A n \in Rows : users_eth'[n].address = users_eth[n].address,
           \A n \in DOMAIN refresh'.read :
              n \in DOMAIN refresh.read /\ refresh'.read[n] = refresh.read[n]
    PROVE  AccountsAreOwn'
<1>1. Users' = Users
  BY DEF Users
<1>2. \A n \in Rows' : users_eth'[n].address \in 1..accounts'
  BY DEF AccountsInv, AccountsAreOwn, Typed
<1> QED
  BY <1>1, <1>2 DEF AccountsInv, AccountsAreOwn

LEMMA InvitesKept ==
    ASSUME AccountsInv, UNCHANGED <<users, invites, issued>>
    PROVE  InvitesAreUsed'
  BY DEF AccountsInv, InvitesAreUsed, Users

LEMMA LostKept ==
    ASSUME AccountsInv, scenario' = scenario, \A n \in Users : n \in Users',
           Undisturbed => \A n \in Rows' : \/ n \in Users' \/ Awaited(n)'
                                           \/ n \in Rows /\ (Awaited(n) => n \in Users' \/ Awaited(n)')
    PROVE  NobodyIsLost'
  BY DEF AccountsInv, NobodyIsLost, Undisturbed, mix

(* A handler takes a step and State stays as it is.                        *)
LEMMA HandlerSteps ==
    ASSUME AccountsInv, NEW h \in Handlers, NEW s \in HandlerStates,
           handler' = [handler EXCEPT ![h] = s]
    PROVE  /\ handler' \in [Handlers -> HandlerStates]
           /\ handler'[h] = s /\ \A g \in Handlers \ {h} : handler'[g] = handler[g]
  BY DEF AccountsInv, Typed

(* Nobody else stops waiting for a sign-up.                                *)
LEMMA AwaitedKept ==
    ASSUME NEW h \in Handlers, \A g \in Handlers \ {h} : handler'[g] = handler[g],
           Queued \subseteq Queued',
           NEW n, Awaited(n)
    PROVE  Awaited(n)' \/ (handler[h].at \in {"default tokens", "signup"} /\ handler[h].user = n)
  BY DEF Awaited

-----------------------------------------------------------------------------
LEMMA GenInviteKept ==
    ASSUME AccountsInv, scenario' = scenario, NEW i \in Invites, gen_invite(i)
    PROVE  AccountsInv'
<1>1. /\ i \notin issued /\ issued' = issued \union {i} /\ invites' = invites \union {i}
      /\ UNCHANGED <<users_eth, accounts, refresh, users, updates, handler>>
  BY DEF gen_invite, InviteAdded, adapterVars, table, serverVars
<1>2. Typed'
  BY <1>1 DEF AccountsInv, Typed
<1>3. InvitesAreUsed'
  <2>1. /\ Users' = Users /\ invites \subseteq issued
        /\ IsFiniteSet(Users) /\ IsFiniteSet(issued)
        /\ Cardinality(Users) = Cardinality(issued \ invites)
    BY <1>1 DEF AccountsInv, InvitesAreUsed, Users
  <2>2. issued' \ invites' = issued \ invites /\ invites' \subseteq issued'
    BY <1>1, <2>1
  <2>3. IsFiniteSet(issued')
    BY <1>1, <2>1, FS_AddElement
  <2> QED
    BY <2>1, <2>2, <2>3 DEF InvitesAreUsed
<1>4. Rows' = Rows /\ Users' = Users /\ Queued' = Queued
  BY <1>1 DEF Rows, Users, Queued
<1>5. AccountsAreOwn'
  BY <1>1, <1>4, AccountsKept DEF AccountsInv, Typed
<1>6. Grows
  BY <1>1, <1>4 DEF Grows
<1>7. OnTheWay'
  BY <1>1, <1>4, <1>6, OnTheWayKept
<1>8. NobodyIsLost'
  BY <1>1, <1>4, LostKept DEF Awaited
<1> QED
  BY <1>2, <1>3, <1>5, <1>7, <1>8 DEF AccountsInv

LEMMA SignupChecksKept ==
    ASSUME AccountsInv, scenario' = scenario, NEW h \in Handlers, NEW n \in Names,
           NEW i \in Invites, signup_checks(h, n, i)
    PROVE  AccountsInv'
<1>0. PICK s : s = [ at |-> "createuser", user |-> n, invite |-> i ]
  OBVIOUS
<1>1. /\ i \in invites /\ (i = Own[n] \/ "share" \in mix)
      /\ handler[h] = Idle /\ handler' = [handler EXCEPT ![h] = s]
      /\ UNCHANGED <<users_eth, accounts, refresh, users, invites, issued, updates>>
  BY <1>0 DEF signup_checks, Starts, adapterVars, table, stateVars
<1>2. s \in SigningUp /\ s \in HandlerStates /\ s.at = "createuser" /\ s.user = n /\ s.invite = i
  BY <1>0, HandlerFacts DEF SigningUp
<1>3. /\ handler' \in [Handlers -> HandlerStates]
      /\ handler'[h] = s /\ \A g \in Handlers \ {h} : handler'[g] = handler[g]
  BY <1>1, <1>2, HandlerSteps
<1>4. Typed'
  BY <1>1, <1>3 DEF AccountsInv, Typed
<1>5. Rows' = Rows /\ Users' = Users /\ Queued' = Queued /\ mix' = mix
  BY <1>1 DEF Rows, Users, Queued, mix
<1>6. Grows
  BY <1>1, <1>5 DEF Grows
<1>7. Sound(s)'
  BY <1>1, <1>2, <1>5 DEF Sound, Entitled
<1>8. OnTheWay'
  BY <1>3, <1>5, <1>6, <1>7, OnTheWayKept
<1>9. NobodyIsLost'
  <2>1. \A m : Awaited(m) => Awaited(m)'
    BY <1>1, <1>3, <1>5, AwaitedKept, HandlerFacts
  <2> QED
    BY <1>5, <2>1, LostKept
<1> QED
  BY <1>1, <1>4, <1>5, <1>8, <1>9, InvitesKept, AccountsKept DEF AccountsInv, Typed

(* createuser: the node makes an account, and the table a row if the name  *)
(* had none.                                                               *)
LEMMA SignupCreateuserKept ==
    ASSUME AccountsInv, scenario' = scenario, NEW h \in Handlers, signup_createuser(h)
    PROVE  AccountsInv'
<1>0. PICK n : n = handler[h].user
  OBVIOUS
<1>1. /\ handler[h].at = "createuser" /\ user_create(n)
      /\ UNCHANGED <<refresh, users, invites, issued, updates>>
  BY <1>0 DEF signup_createuser, stateVars
<1>2. handler[h] \in SigningUp /\ n \in Names /\ Sound(handler[h]) /\ accounts \in Nat
  BY <1>0, <1>1, HandlerFacts DEF AccountsInv, Typed, OnTheWay
<1>3. accounts' = accounts + 1 /\ accounts' \in Nat
  BY <1>1, <1>2 DEF user_create
<1>4. /\ Rows' = Rows \union {n}
      /\ \A m \in Rows : users_eth'[m] = users_eth[m]
      /\ n \notin Rows => users_eth'[n].address = accounts'
      /\ users_eth' \in [Names -> UserEth \union {NoRow}]
  <2>1. CASE n \in Rows
    BY <1>1, <2>1 DEF user_create, Rows, AccountsInv, Typed
  <2>2. CASE n \notin Rows
    <3>1. PICK r : r = [ address |-> accounts', tokens |-> Nothing, balanceTokens |-> Nothing ]
      OBVIOUS
    <3>2. users_eth' = [users_eth EXCEPT ![n] = r]
      BY <1>1, <2>2, <3>1 DEF user_create
    <3>3. r \in UserEth /\ r # NoRow /\ r.address = accounts'
      BY <1>3, <3>1, NoRowIsNone DEF UserEth, Nothing
    <3> QED
      BY <1>2, <2>2, <3>2, <3>3 DEF Rows, AccountsInv, Typed
  <2> QED
    BY <2>1, <2>2
<1>5. PICK s \in HandlerStates :
         /\ handler' = [handler EXCEPT ![h] = s]
         /\ \/ s = Idle /\ (n \in Rows \/ "adapter" \in mix)
            \/ s = [ handler[h] EXCEPT !.at = "default tokens" ] /\ n \notin Rows
  <2>1. [ handler[h] EXCEPT !.at = "default tokens" ] \in HandlerStates
    <3>1. [ handler[h] EXCEPT !.at = "default tokens" ] \in SigningUp
      BY <1>2 DEF SigningUp
    <3> QED
      BY <3>1, HandlerFacts
  <2> QED
    BY <1>0, <2>1, HandlerFacts DEF signup_createuser, Goes
<1>6. /\ handler' \in [Handlers -> HandlerStates]
      /\ handler'[h] = s /\ \A g \in Handlers \ {h} : handler'[g] = handler[g]
  BY <1>5, HandlerSteps
<1>7. Typed'
  BY <1>1, <1>3, <1>4, <1>6 DEF AccountsInv, Typed
<1>8. Users' = Users /\ Queued' = Queued /\ mix' = mix
  BY <1>1 DEF Users, Queued, mix
<1>9. Grows
  BY <1>1, <1>4, <1>8 DEF Grows
<1>10. s # Idle => /\ s.at = "default tokens" /\ s.user = n /\ s.invite = handler[h].invite
                   /\ s \in SigningUp /\ n \notin Rows
  BY <1>0, <1>2, <1>5 DEF SigningUp
<1>11. Sound(s)'
  <2>1. CASE s = Idle
    BY <2>1, HandlerFacts DEF Sound
  <2>2. CASE s # Idle
    <3>1. Entitled(s.user, s.invite)
      BY <1>0, <1>2, <1>10, <2>2 DEF Sound
    <3> QED
      BY <1>1, <1>4, <1>8, <1>10, <2>2, <3>1 DEF Sound, Entitled
  <2> QED
    BY <2>1, <2>2
<1>12. OnTheWay'
  BY <1>6, <1>8, <1>9, <1>11, OnTheWayKept
<1>13. AccountsAreOwn'
  <2>1. /\ \A m \in Rows : users_eth[m].address \in 1..accounts
        /\ \A l, m \in Rows : l # m => users_eth[l].address # users_eth[m].address
        /\ Users \subseteq Rows
        /\ \A m \in Users : users[m].deposit_info \subseteq {users_eth[m].address}
        /\ \A m \in DOMAIN refresh.read :
              /\ m \in Rows /\ refresh.read[m] \in UserEth
              /\ refresh.read[m].address = users_eth[m].address
    BY DEF AccountsInv, AccountsAreOwn
  <2>2. \A m \in Rows' : users_eth'[m].address \in 1..accounts'
    BY <1>2, <1>3, <1>4, <2>1
  <2>3. \A m \in Rows : users_eth[m].address # accounts'
    BY <1>2, <1>3, <2>1
  <2>4. \A l, m \in Rows' : l # m => users_eth'[l].address # users_eth'[m].address
    BY <1>4, <2>1, <2>3
  <2> QED
    BY <1>1, <1>4, <1>8, <2>1, <2>2, <2>4 DEF AccountsAreOwn
<1>14. NobodyIsLost'
  <2>1. \A m : Awaited(m) => Awaited(m)'
    BY <1>1, <1>6, <1>8, AwaitedKept
  <2>2. ASSUME Undisturbed, n \notin Rows PROVE Awaited(n)'
    <3>1. s = [ handler[h] EXCEPT !.at = "default tokens" ]
      BY <1>5, <2>2 DEF Undisturbed
    <3>2. s.at = "default tokens" /\ s.user = n
      BY <1>0, <1>2, <3>1 DEF SigningUp
    <3> QED
      BY <1>6, <3>2 DEF Awaited
  <2> QED
    BY <1>4, <1>8, <2>1, <2>2, LostKept
<1> QED
  BY <1>1, <1>7, <1>12, <1>13, <1>14, InvitesKept DEF AccountsInv

(* A call that changes only the tokens of a row.                           *)
LEMMA TokensPosted ==
    ASSUME AccountsInv, NEW n \in Names, NEW list \in [Tokens -> Nat], tokens_post(n, list)
    PROVE  /\ accounts' = accounts /\ users_eth' \in [Names -> UserEth \union {NoRow}]
           /\ Rows' = Rows
           /\ \A m \in Rows : users_eth'[m].address = users_eth[m].address
<1>1. accounts' = accounts /\ users_eth \in [Names -> UserEth \union {NoRow}]
  BY DEF tokens_post, AccountsInv, Typed
<1>2. CASE n \notin Rows
  BY <1>1, <1>2 DEF tokens_post, Rows
<1>3. CASE n \in Rows
  <2>1. PICK r : r = [users_eth[n] EXCEPT !.tokens = list]
    OBVIOUS
  <2>2. users_eth' = [users_eth EXCEPT ![n] = r]
    BY <1>3, <2>1 DEF tokens_post
  <2>3. users_eth[n] \in UserEth
    BY <1>1, <1>3 DEF Rows
  <2>4. r \in UserEth /\ r.address = users_eth[n].address /\ r # NoRow
    BY <2>1, <2>3, NoRowIsNone DEF UserEth
  <2> QED
    BY <1>1, <1>3, <2>2, <2>4 DEF Rows
<1> QED
  BY <1>2, <1>3

LEMMA OnceEach == \A S : ListOf(S) \in [Tokens -> Nat]
  BY DEF ListOf

LEMMA NoLess == \A k \in Nat : k >= k
  OBVIOUS

(* A call of the adapter that leaves State and the rows' accounts alone,   *)
(* by a handler that does not go without its sign-up.                      *)
LEMMA CallKept ==
    ASSUME AccountsInv, scenario' = scenario,
           UNCHANGED <<accounts, refresh, users, invites, issued, updates>>,
           users_eth' \in [Names -> UserEth \union {NoRow}],
           Rows' = Rows, \A m \in Rows : users_eth'[m].address = users_eth[m].address,
           NEW h \in Handlers, NEW s \in HandlerStates,
           handler' = [handler EXCEPT ![h] = s],
           Sound(handler[h]) => Sound(s),
           Undisturbed /\ handler[h].at \in {"default tokens", "signup"} =>
              s.at \in {"default tokens", "signup"} /\ s.user = handler[h].user
    PROVE  AccountsInv'
<1>1. /\ handler' \in [Handlers -> HandlerStates]
      /\ handler'[h] = s /\ \A g \in Handlers \ {h} : handler'[g] = handler[g]
  BY HandlerSteps
<1>2. Typed'
  BY <1>1 DEF AccountsInv, Typed
<1>3. Users' = Users /\ Queued' = Queued
  BY DEF Users, Queued
<1>4. AccountsAreOwn'
  <2>1. accounts \in Nat /\ accounts' = accounts /\ refresh' = refresh /\ users' = users
    BY DEF AccountsInv, Typed
  <2>2. accounts' \in Nat /\ accounts' >= accounts
    BY <2>1, NoLess, Zenon
  <2> QED
    BY <2>1, <2>2, AccountsKept
<1>5. Grows
  BY <1>3 DEF Grows
<1>6. Sound(s)'
  BY <1>5, StillSound DEF AccountsInv, OnTheWay
<1>7. OnTheWay'
  BY <1>1, <1>3, <1>5, <1>6, OnTheWayKept
<1>8. NobodyIsLost'
  <2>1. ASSUME Undisturbed, NEW m, Awaited(m) PROVE Awaited(m)'
    BY <1>1, <1>3, <2>1, AwaitedKept DEF Awaited
  <2> QED
    BY <1>3, <2>1, LostKept
<1> QED
  BY <1>2, <1>4, <1>7, <1>8, InvitesKept DEF AccountsInv

LEMMA SignupDefaultTokensKept ==
    ASSUME AccountsInv, scenario' = scenario, NEW h \in Handlers, signup_default_tokens(h)
    PROVE  AccountsInv'
<1>0. PICK n : n = handler[h].user
  OBVIOUS
<1>1. /\ handler[h].at = "default tokens" /\ tokens_post(n, ListOf(DefaultTokens))
      /\ UNCHANGED <<refresh, users, invites, issued, updates>>
  BY <1>0 DEF signup_default_tokens, stateVars
<1>2. handler[h] \in SigningUp /\ n \in Names
  BY <1>0, <1>1, HandlerFacts DEF AccountsInv, Typed
<1>3. PICK s : s = [ handler[h] EXCEPT !.at = "signup" ]
  OBVIOUS
<1>4. /\ s \in SigningUp /\ s \in HandlerStates
      /\ s.at = "signup" /\ s.user = n /\ s.invite = handler[h].invite
  <2>1. s \in SigningUp /\ s.at = "signup" /\ s.user = n /\ s.invite = handler[h].invite
    BY <1>0, <1>2, <1>3 DEF SigningUp
  <2> QED
    BY <2>1, HandlerFacts
<1>5. /\ accounts' = accounts /\ users_eth' \in [Names -> UserEth \union {NoRow}]
      /\ Rows' = Rows
      /\ \A m \in Rows : users_eth'[m].address = users_eth[m].address
  BY <1>1, <1>2, OnceEach, TokensPosted
<1>6. \/ handler' = [handler EXCEPT ![h] = s]
      \/ "adapter" \in mix /\ handler' = [handler EXCEPT ![h] = Idle]
  BY <1>3 DEF signup_default_tokens, Goes
<1>7. CASE handler' = [handler EXCEPT ![h] = s]
  <2>1. Sound(handler[h]) => Sound(s)
    BY <1>0, <1>1, <1>2, <1>4 DEF Sound
  <2> QED
    BY <1>0, <1>1, <1>4, <1>5, <1>7, <2>1, CallKept
<1>8. CASE "adapter" \in mix /\ handler' = [handler EXCEPT ![h] = Idle]
  <2>1. Sound(Idle) /\ Idle \in HandlerStates /\ ~Undisturbed
    BY <1>8, HandlerFacts DEF Sound, Undisturbed
  <2> QED
    BY <1>1, <1>5, <1>8, <2>1, CallKept
<1> QED
  BY <1>6, <1>7, <1>8

LEMMA PostTokensKept ==
    ASSUME AccountsInv, scenario' = scenario, NEW h \in Handlers, post_tokens(h)
    PROVE  AccountsInv'
<1>1. /\ handler[h].at = "tokens" /\ tokens_post(handler[h].user, handler[h].list)
      /\ handler' = [handler EXCEPT ![h] = Idle]
      /\ UNCHANGED <<refresh, users, invites, issued, updates>>
  BY DEF post_tokens, stateVars, Goes
<1>2. handler[h].user \in Names /\ handler[h].list \in [Tokens -> Nat]
  BY <1>1, HandlerFacts DEF AccountsInv, Typed
<1>3. /\ accounts' = accounts /\ users_eth' \in [Names -> UserEth \union {NoRow}]
      /\ Rows' = Rows
      /\ \A m \in Rows : users_eth'[m].address = users_eth[m].address
  BY <1>1, <1>2, TokensPosted
<1>4. Sound(Idle) /\ Idle \in HandlerStates
  BY HandlerFacts DEF Sound
<1> QED
  BY <1>1, <1>3, <1>4, CallKept

LEMMA CallFailsKept ==
    ASSUME AccountsInv, scenario' = scenario, NEW h \in Handlers, call_fails(h)
    PROVE  AccountsInv'
<1>1. /\ handler' = [handler EXCEPT ![h] = Idle] /\ "adapter" \in mix
      /\ UNCHANGED <<users_eth, accounts, refresh, users, invites, issued, updates>>
  BY DEF call_fails, stateVars, Goes, adapterVars, table
<1>2. Sound(Idle) /\ Idle \in HandlerStates /\ ~Undisturbed
  BY <1>1, HandlerFacts DEF Sound, Undisturbed
<1>3. Rows' = Rows /\ users_eth' \in [Names -> UserEth \union {NoRow}]
  BY <1>1 DEF Rows, AccountsInv, Typed
<1> QED
  BY <1>1, <1>2, <1>3, CallKept

-----------------------------------------------------------------------------
(* A handler sends an update and comes to its next step.                   *)
LEMMA SendKept ==
    ASSUME AccountsInv, scenario' = scenario,
           UNCHANGED <<users_eth, accounts, refresh, users, invites, issued>>,
           NEW u \in StateUpdates, updates' = Append(updates, u), Due(u),
           handler' \in [Handlers -> HandlerStates],
           \A h \in Handlers :
              handler'[h] = handler[h] \/ (\A s \in HandlerStates : s = handler'[h] => Sound(s)),
           \A n : Awaited(n) => Awaited(n)'
    PROVE  AccountsInv'
<1>1. updates' \in Seq(StateUpdates) /\ Queued' = Queued \union {u}
  BY AppendQueued DEF AccountsInv
<1>2. Typed'
  BY <1>1 DEF AccountsInv, Typed
<1>3. Rows' = Rows /\ Users' = Users
  BY DEF Rows, Users
<1>4. AccountsAreOwn'
  <2>1. accounts' \in Nat /\ accounts' >= accounts
    BY DEF AccountsInv, Typed
  <2> QED
    BY <1>3, <2>1, AccountsKept
<1>5. Grows
  BY <1>3 DEF Grows
<1>6. Due(u)'
  BY <1>5, StillSound
<1>7. \A h \in Handlers : handler'[h] = handler[h] \/ Sound(handler[h])'
  BY <1>5, StillSound
<1>8. OnTheWay'
  BY <1>1, <1>5, <1>6, <1>7, OnTheWayKept
<1>9. NobodyIsLost'
  BY <1>3, LostKept
<1> QED
  BY <1>2, <1>4, <1>8, <1>9, InvitesKept DEF AccountsInv

LEMMA SignupSendsKept ==
    ASSUME AccountsInv, scenario' = scenario, NEW h \in Handlers, signup_sends(h)
    PROVE  AccountsInv'
<1>0. PICK n, i, u : n = handler[h].user /\ i = handler[h].invite /\ u = Signup(n, i)
  OBVIOUS
<1>1. /\ handler[h].at = "signup" /\ updates' = Append(updates, u)
      /\ handler' = [handler EXCEPT ![h] = Idle]
      /\ UNCHANGED <<users_eth, accounts, refresh, users, invites, issued>>
  BY <1>0 DEF signup_sends, Goes, adapterVars, table
<1>2. handler[h] \in SigningUp /\ n \in Names /\ i \in Invites /\ Sound(handler[h])
  BY <1>0, <1>1, HandlerFacts DEF AccountsInv, Typed, OnTheWay
<1>3. u \in StateUpdates /\ u.tag = "signup" /\ u.user = n /\ u.invite = i
  BY <1>0, <1>2 DEF Signup, StateUpdates
<1>4. Due(u)
  BY <1>0, <1>1, <1>2, <1>3 DEF Due, Sound
<1>5. /\ Idle \in HandlerStates /\ Sound(Idle)
      /\ handler' \in [Handlers -> HandlerStates]
      /\ handler'[h] = Idle /\ \A g \in Handlers \ {h} : handler'[g] = handler[g]
  BY <1>1, HandlerFacts, HandlerSteps DEF Sound
<1>6. Queued' = Queued \union {u}
  BY <1>1, <1>3, AppendQueued DEF AccountsInv
<1>7. Awaited(n)'
  BY <1>3, <1>6 DEF Awaited
<1>8. \A m : Awaited(m) => Awaited(m)'
  BY <1>0, <1>5, <1>6, <1>7, AwaitedKept
<1> QED
  BY <1>1, <1>3, <1>4, <1>5, <1>8, SendKept

(* What is posted is a list of tokens, some perhaps more than once.        *)
LEMMA ListFacts ==
    ASSUME Typed, NEW n \in Users, NEW t \in Tokens
    PROVE  enabled_list(n, t) \in [Tokens -> Nat] /\ disabled_list(n, t) \in [Tokens -> Nat]
<1>1. n \in Names /\ users[n] \in UserInfo /\ users[n].currencies \subseteq Tokens
  BY DEF Typed, Users, UserInfo
<1>2. Cardinality(users[n].currencies \ {t}) \in Nat
  <2>1. IsFiniteSet(users[n].currencies \ {t})
    BY <1>1, NoRowIsNone, FS_Subset
  <2> QED
    BY <2>1, FS_CardinalityType
<1> QED
  BY <1>2, OnceEach DEF enabled_list, disabled_list

LEMMA TokenSwitchKept ==
    ASSUME AccountsInv, scenario' = scenario, NEW h \in Handlers, NEW n \in Names,
           NEW t \in Tokens, enable_token(h, n, t) \/ disable_token(h, n, t)
    PROVE  AccountsInv'
<1>1. /\ n \in Users /\ handler[h] = Idle
      /\ UNCHANGED <<users_eth, accounts, refresh, users, invites, issued>>
  BY DEF enable_token, disable_token, Starts, adapterVars, table
<1>2. PICK act \in {"Enable", "Disable"}, list \in [Tokens -> Nat] :
         /\ updates' = Append(updates, UpdateTokens(n, t, act))
         /\ handler' = [handler EXCEPT ![h] = [ at |-> "tokens", user |-> n, list |-> list ]]
  <2>1. enabled_list(n, t) \in [Tokens -> Nat] /\ disabled_list(n, t) \in [Tokens -> Nat]
    BY <1>1, ListFacts DEF AccountsInv
  <2> QED
    BY <2>1 DEF enable_token, disable_token, Starts
<1>3. PICK s, u : /\ s = [ at |-> "tokens", user |-> n, list |-> list ]
                  /\ u = UpdateTokens(n, t, act)
  OBVIOUS
<1>4. /\ s \in Posting /\ s \in HandlerStates /\ s.at = "tokens" /\ s \notin SigningUp
      /\ u \in StateUpdates /\ u.tag = "tokens"
  <2>1. s \in Posting
    BY <1>3 DEF Posting
  <2>2. u \in StateUpdates /\ u.tag = "tokens"
    BY <1>3 DEF UpdateTokens, StateUpdates
  <2> QED
    BY <2>1, <2>2, HandlerFacts
<1>5. Due(u) /\ Sound(s)
  BY <1>4 DEF Due, Sound
<1>6. /\ handler' \in [Handlers -> HandlerStates]
      /\ handler'[h] = s /\ \A g \in Handlers \ {h} : handler'[g] = handler[g]
  BY <1>2, <1>3, <1>4, HandlerSteps
<1>7. Queued' = Queued \union {u}
  BY <1>2, <1>3, <1>4, AppendQueued DEF AccountsInv
<1>8. \A m : Awaited(m) => Awaited(m)'
  BY <1>1, <1>6, <1>7, AwaitedKept, HandlerFacts
<1> QED
  BY <1>1, <1>2, <1>3, <1>4, <1>5, <1>6, <1>8, SendKept

LEMMA GetDepositAddressKept ==
    ASSUME AccountsInv, scenario' = scenario, NEW n \in Names, get_deposit_address(n)
    PROVE  AccountsInv'
<1>0. PICK u : u = DepositAddress(n, users_eth[n].address)
  OBVIOUS
<1>1. /\ n \in Users /\ updates' = Append(updates, u)
      /\ UNCHANGED <<users_eth, accounts, refresh, users, invites, issued, handler>>
  BY <1>0 DEF get_deposit_address, adapterVars, table, serverVars
<1>2. n \in Rows /\ users_eth[n].address \in Nat
  BY <1>1 DEF AccountsInv, AccountsAreOwn, Typed, Rows, UserEth
<1>3. u \in StateUpdates /\ u.tag = "address" /\ u.user = n /\ u.address = users_eth[n].address
  BY <1>0, <1>2 DEF DepositAddress, StateUpdates
<1>4. Due(u) /\ handler' \in [Handlers -> HandlerStates]
  BY <1>1, <1>2, <1>3 DEF Due, AccountsInv, Typed
<1>5. Queued' = Queued \union {u}
  BY <1>1, <1>3, AppendQueued DEF AccountsInv
<1>6. \A m : Awaited(m) => Awaited(m)'
  BY <1>1, <1>5 DEF Awaited
<1> QED
  BY <1>1, <1>3, <1>4, <1>6, SendKept

-----------------------------------------------------------------------------
(* update_worker takes an update out of the queue, and the user it is      *)
(* about is there then: rows stay as they are.                             *)
LEMMA TakeKept ==
    ASSUME AccountsInv, scenario' = scenario, updates # <<>>, updates' = Tail(updates),
           UNCHANGED <<users_eth, accounts, refresh, handler>>,
           users' \in [Names -> UserInfo \union {NoUser}],
           NEW n, n = Head(updates).user,
           \A m \in Users : m \in Users', \A m \in Users' : m \in Users \/ (m = n /\ n \in Rows),
           \A m \in Users' : users'[m].deposit_info \subseteq {users_eth[m].address},
           "share" \notin mix =>
              \A m \in Names : Own[m] \in invites => Own[m] \in invites' \/ m \in Users',
           Undisturbed /\ Head(updates).tag = "signup" => n \in Users'
    PROVE  Typed' /\ AccountsAreOwn' /\ OnTheWay' /\ NobodyIsLost'
<1>1. /\ updates' \in Seq(StateUpdates) /\ Queued' \subseteq Queued
      /\ Queued \subseteq Queued' \union {Head(updates)}
  BY TailQueued DEF AccountsInv
<1>2. Typed'
  BY <1>1 DEF AccountsInv, Typed
<1>3. Rows' = Rows
  BY DEF Rows
<1>4. AccountsAreOwn'
  BY <1>3 DEF AccountsInv, AccountsAreOwn
<1>5. Grows
  BY <1>3 DEF Grows
<1>6. OnTheWay'
  BY <1>1, <1>5, OnTheWayKept
<1>7. NobodyIsLost'
  <2>1. ASSUME Undisturbed, NEW m, Awaited(m) PROVE m \in Users' \/ Awaited(m)'
    BY <1>1, <2>1 DEF Awaited
  <2> QED
    BY <1>3, <2>1, LostKept
<1> QED
  BY <1>2, <1>4, <1>6, <1>7

LEMMA UpdateDroppedKept ==
    ASSUME AccountsInv, scenario' = scenario, UpdateDropped
    PROVE  AccountsInv'
<1>0. PICK u : u = Head(updates)
  OBVIOUS
<1>1. /\ updates # <<>> /\ updates' = Tail(updates)
      /\ ~Accepted(u) \/ "store" \in mix
      /\ UNCHANGED <<users_eth, accounts, refresh, users, invites, issued, handler>>
  BY <1>0 DEF UpdateDropped, adapterVars, table
<1>2. /\ u \in StateUpdates /\ u \in Queued /\ Due(u)
  BY <1>0, <1>1, TailQueued DEF AccountsInv, OnTheWay
<1>3. Users' = Users
  BY <1>1 DEF Users
<1>4. Undisturbed /\ u.tag = "signup" => u.user \in Users
  <2>1. ASSUME Undisturbed, u.tag = "signup", u.user \notin Users PROVE FALSE
    <3>1. u.invite \in invites
      BY <1>2, <2>1 DEF Due, Entitled, Undisturbed
    <3>2. ~Accepted(u)
      BY <1>1, <2>1 DEF Undisturbed
    <3> QED
      BY <2>1, <3>1, <3>2 DEF Accepted
  <2> QED
    BY <2>1
<1>5. /\ users' \in [Names -> UserInfo \union {NoUser}]
      /\ \A m \in Users' : users'[m].deposit_info \subseteq {users_eth[m].address}
  BY <1>1, <1>3 DEF AccountsInv, Typed, AccountsAreOwn
<1>7. PICK n : n = Head(updates).user
  OBVIOUS
<1>8. /\ \A m \in Users : m \in Users'
      /\ \A m \in Users' : m \in Users \/ (m = n /\ n \in Rows)
      /\ "share" \notin mix =>
            \A m \in Names : Own[m] \in invites => Own[m] \in invites' \/ m \in Users'
      /\ Undisturbed /\ Head(updates).tag = "signup" => n \in Users'
  BY <1>0, <1>1, <1>3, <1>4, <1>7
<1>6. Typed' /\ AccountsAreOwn' /\ OnTheWay' /\ NobodyIsLost'
  BY <1>1, <1>5, <1>7, <1>8, TakeKept
<1> QED
  BY <1>1, <1>6, InvitesKept DEF AccountsInv

(* with_signup looks the name and the invite up again.                     *)
LEMMA SignupApplied ==
    ASSUME AccountsInv, scenario' = scenario, UpdateApplied, Head(updates).tag = "signup"
    PROVE  AccountsInv'
<1>0. PICK u, n, i, r : /\ u = Head(updates) /\ n = u.user /\ i = u.invite
                        /\ r = [ currencies |-> DefaultTokens, deposit_info |-> {} ]
  OBVIOUS
<1>1. /\ updates # <<>> /\ updates' = Tail(updates)
      /\ n \notin Users /\ i \in invites
      /\ users' = [users EXCEPT ![n] = r] /\ invites' = invites \ {i}
      /\ UNCHANGED <<users_eth, accounts, refresh, issued, handler>>
  BY <1>0 DEF UpdateApplied, Accepted, Applied, adapterVars, table, serverVars
<1>2. /\ u \in StateUpdates /\ u \in Queued /\ Due(u) /\ u.tag = "signup" /\ n \in Names
  BY <1>0, <1>1, TailQueued, UpdateFacts DEF AccountsInv, OnTheWay
<1>3. n \in Rows /\ ("share" \notin mix => i = Own[n])
  BY <1>0, <1>2 DEF Due, Entitled
<1>4. r \in UserInfo /\ r # NoUser /\ r.deposit_info = {}
  BY <1>0, AccountsConstants, NoUserIsNone DEF UserInfo
<1>5. /\ users' \in [Names -> UserInfo \union {NoUser}]
      /\ Users' = Users \union {n} /\ users'[n] = r
      /\ \A m \in Users : users'[m] = users[m]
  BY <1>1, <1>2, <1>4 DEF Users, AccountsInv, Typed
<1>6. \A m \in Users' : users'[m].deposit_info \subseteq {users_eth[m].address}
  BY <1>4, <1>5 DEF AccountsInv, AccountsAreOwn
<1>7. "share" \notin mix =>
         \A m \in Names : Own[m] \in invites => Own[m] \in invites' \/ m \in Users'
  BY <1>1, <1>2, <1>3, <1>5, AccountsConstants
<1>8. Typed' /\ AccountsAreOwn' /\ OnTheWay' /\ NobodyIsLost'
  BY <1>0, <1>1, <1>3, <1>5, <1>6, <1>7, TakeKept
<1>9. InvitesAreUsed'
  <2>1. /\ IsFiniteSet(Users) /\ IsFiniteSet(issued) /\ invites \subseteq issued
        /\ Cardinality(Users) = Cardinality(issued \ invites)
    BY DEF AccountsInv, InvitesAreUsed
  <2>2. /\ issued' \ invites' = (issued \ invites) \union {i}
        /\ i \notin issued \ invites /\ invites' \subseteq issued'
    BY <1>1, <2>1
  <2>3. IsFiniteSet(issued \ invites)
    BY <2>1, FS_Subset
  <2>4. /\ IsFiniteSet(Users') /\ Cardinality(Users') = Cardinality(Users) + 1
    BY <1>1, <1>5, <2>1, FS_AddElement
  <2>5. Cardinality(issued' \ invites') = Cardinality(issued \ invites) + 1
    BY <2>2, <2>3, FS_AddElement
  <2> QED
    BY <1>1, <2>1, <2>2, <2>4, <2>5 DEF InvitesAreUsed
<1> QED
  BY <1>8, <1>9 DEF AccountsInv

(* Of a user who is there, the tokens change or the address is added.      *)
LEMMA UpdateAppliedKept ==
    ASSUME AccountsInv, scenario' = scenario, UpdateApplied
    PROVE  AccountsInv'
<1>1. CASE Head(updates).tag = "signup"
  BY <1>1, SignupApplied
<1>2. CASE Head(updates).tag # "signup"
  <2>0. PICK u, n : u = Head(updates) /\ n = u.user
    OBVIOUS
  <2>1. /\ updates # <<>> /\ updates' = Tail(updates) /\ Accepted(u)
        /\ users' = [users EXCEPT ![n] = Applied(u)]
        /\ UNCHANGED <<users_eth, accounts, refresh, invites, issued, handler>>
    BY <1>2, <2>0 DEF UpdateApplied, adapterVars, table, serverVars
  <2>2. /\ u \in StateUpdates /\ Due(u) /\ n \in Names /\ u.tag \in {"tokens", "address"}
    BY <1>2, <2>0, <2>1, TailQueued, UpdateFacts DEF AccountsInv, OnTheWay
  <2>3. n \in Users /\ users[n] \in UserInfo /\ users[n].deposit_info \subseteq {users_eth[n].address}
    BY <2>0, <2>1, <2>2 DEF Accepted, AccountsInv, Typed, Users, AccountsAreOwn
  <2>4. PICK r : r = Applied(u)
    OBVIOUS
  <2>5. r \in UserInfo /\ r.deposit_info \subseteq {users_eth[n].address}
    <3>1. CASE u.tag = "tokens"
      <4>1. PICK S \in SUBSET Tokens : r = [users[n] EXCEPT !.currencies = S]
        BY <2>0, <2>2, <2>3, <2>4, <3>1, UpdateFacts DEF Applied, UserInfo
      <4> QED
        BY <2>3, <4>1 DEF UserInfo
    <3>2. CASE u.tag = "address"
      <4>1. u.address \in Nat /\ u.address = users_eth[n].address
        BY <2>0, <2>2, <3>2, UpdateFacts DEF Due
      <4>2. r = [users[n] EXCEPT !.deposit_info = @ \union {u.address}]
        BY <2>0, <2>4, <3>2 DEF Applied
      <4> QED
        BY <2>3, <4>1, <4>2 DEF UserInfo
    <3> QED
      BY <2>2, <3>1, <3>2
  <2>6. /\ users' \in [Names -> UserInfo \union {NoUser}]
        /\ Users' = Users
        /\ \A m \in Users : users'[m].deposit_info \subseteq {users_eth[m].address}
    BY <2>1, <2>2, <2>3, <2>4, <2>5, NoUserIsNone DEF Users, AccountsInv, Typed, AccountsAreOwn
  <2>9. /\ n = Head(updates).user
        /\ \A m \in Users : m \in Users'
        /\ \A m \in Users' : m \in Users \/ (m = n /\ n \in Rows)
        /\ \A m \in Users' : users'[m].deposit_info \subseteq {users_eth[m].address}
        /\ "share" \notin mix =>
              \A m \in Names : Own[m] \in invites => Own[m] \in invites' \/ m \in Users'
        /\ Undisturbed /\ Head(updates).tag = "signup" => n \in Users'
    BY <1>2, <2>0, <2>1, <2>3, <2>6
  <2>7. Typed' /\ AccountsAreOwn' /\ OnTheWay' /\ NobodyIsLost'
    BY <2>1, <2>6, <2>9, TakeKept
  <2>8. InvitesAreUsed'
    BY <2>1, <2>6 DEF AccountsInv, InvitesAreUsed
  <2> QED
    BY <2>7, <2>8 DEF AccountsInv
<1> QED
  BY <1>1, <1>2

-----------------------------------------------------------------------------
(* The adapter works on its own.                                           *)
LEMMA AdapterKept ==
    ASSUME AccountsInv, scenario' = scenario,
           UNCHANGED <<accounts, users, invites, issued, updates, handler>>,
           users_eth' \in [Names -> UserEth \union {NoRow}],
           refresh' = [ alive |-> refresh'.alive, read |-> refresh'.read ],
           Rows' = Rows, \A n \in Rows : users_eth'[n].address = users_eth[n].address,
           \A n \in DOMAIN refresh'.read :
              \/ n \in DOMAIN refresh.read /\ refresh'.read[n] = refresh.read[n]
              \/ n \in Rows /\ refresh'.read[n] = users_eth[n]
    PROVE  AccountsInv'
<1>1. Typed'
  BY DEF AccountsInv, Typed
<1>2. Users' = Users /\ Queued' = Queued
  BY DEF Users, Queued
<1>3. \A n \in Rows : users_eth[n] \in UserEth
  BY DEF AccountsInv, Typed, Rows
<1>4. \A n \in DOMAIN refresh'.read :
         /\ n \in Rows' /\ refresh'.read[n] \in UserEth
         /\ refresh'.read[n].address = users_eth'[n].address
  BY <1>3 DEF AccountsInv, AccountsAreOwn
<1>5. AccountsAreOwn'
  BY <1>2, <1>4 DEF AccountsInv, AccountsAreOwn
<1>6. Grows
  BY <1>2 DEF Grows
<1>7. OnTheWay'
  BY <1>2, <1>6, OnTheWayKept
<1>8. NobodyIsLost'
  BY <1>2, LostKept DEF Awaited
<1> QED
  BY <1>1, <1>5, <1>7, <1>8, InvitesKept DEF AccountsInv

LEMMA RefreshBeginsKept ==
    ASSUME AccountsInv, scenario' = scenario, RefreshBegins
    PROVE  AccountsInv'
<1>0. PICK m : m = [n \in Rows |-> users_eth[n]]
  OBVIOUS
<1>1. /\ refresh' = [ refresh EXCEPT !.read = m ]
      /\ UNCHANGED <<users_eth, accounts, users, invites, issued, updates, handler>>
  BY <1>0 DEF RefreshBegins, update_stage_reads, table, stateVars
<1>2. refresh = [ alive |-> refresh.alive, read |-> refresh.read ]
  BY DEF AccountsInv, Typed
<1>3. refresh'.read = m /\ refresh' = [ alive |-> refresh'.alive, read |-> refresh'.read ]
  BY <1>1, <1>2
<1>4. \A n \in DOMAIN refresh'.read : n \in Rows /\ refresh'.read[n] = users_eth[n]
  BY <1>0, <1>3
<1>5. Rows' = Rows /\ users_eth' \in [Names -> UserEth \union {NoRow}]
  BY <1>1 DEF Rows, AccountsInv, Typed
<1> QED
  BY <1>1, <1>3, <1>4, <1>5, AdapterKept

(* A row is written back as it was read, under the address it still has.   *)
LEMMA RefreshGoesOnKept ==
    ASSUME AccountsInv, scenario' = scenario, RefreshGoesOn
    PROVE  AccountsInv'
<1>0. refresh = [ alive |-> refresh.alive, read |-> refresh.read ]
  BY DEF AccountsInv, Typed
<1>1. UNCHANGED <<users, invites, issued, updates, handler>>
  BY DEF RefreshGoesOn, stateVars, serverVars
<1>2. ASSUME update_stage_panics PROVE AccountsInv'
  <2>1. /\ refresh' = [ alive |-> FALSE, read |-> <<>> ] /\ users_eth' = users_eth
        /\ accounts' = accounts
    BY <1>2 DEF update_stage_panics, table
  <2>2. DOMAIN refresh'.read = {}
    <3>1. refresh'.read = <<>>
      BY <2>1
    <3> QED
      BY <3>1
  <2>3. refresh' = [ alive |-> refresh'.alive, read |-> refresh'.read ]
    BY <2>1
  <2>4. Rows' = Rows /\ users_eth' \in [Names -> UserEth \union {NoRow}]
    BY <2>1 DEF Rows, AccountsInv, Typed
  <2> QED
    BY <1>1, <2>1, <2>2, <2>3, <2>4, AdapterKept
<1>3. ASSUME NEW n \in Names, update_stage_writes(n) PROVE AccountsInv'
  <2>0. PICK r, m : /\ r = [ refresh.read[n] EXCEPT !.balanceTokens = refresh.read[n].tokens ]
                    /\ m = Rest(n)
    OBVIOUS
  <2>1. /\ n \in DOMAIN refresh.read /\ users_eth' = [users_eth EXCEPT ![n] = r]
        /\ refresh' = [ refresh EXCEPT !.read = m ] /\ accounts' = accounts
    BY <1>3, <2>0 DEF update_stage_writes
  <2>2. /\ n \in Rows /\ refresh.read[n] \in UserEth
        /\ refresh.read[n].address = users_eth[n].address
    BY <2>1 DEF AccountsInv, AccountsAreOwn
  <2>3. r \in UserEth /\ r.address = users_eth[n].address /\ r # NoRow
    BY <2>0, <2>2, NoRowIsNone DEF UserEth
  <2>4. /\ Rows' = Rows /\ users_eth' \in [Names -> UserEth \union {NoRow}]
        /\ \A l \in Rows : users_eth'[l].address = users_eth[l].address
    BY <2>1, <2>2, <2>3 DEF Rows, AccountsInv, Typed
  <2>5. refresh'.read = m /\ refresh' = [ alive |-> refresh'.alive, read |-> refresh'.read ]
    BY <1>0, <2>1
  <2>6. \A l \in DOMAIN refresh'.read :
           l \in DOMAIN refresh.read /\ refresh'.read[l] = refresh.read[l]
    BY <2>0, <2>5 DEF Rest
  <2> QED
    BY <1>1, <2>1, <2>4, <2>5, <2>6, AdapterKept
<1> QED
  BY <1>2, <1>3 DEF RefreshGoesOn

LEMMA PaymentKept ==
    ASSUME AccountsInv, scenario' = scenario, UNCHANGED <<stateVars, serverVars, table, refresh>>
    PROVE  AccountsInv'
<1>1. UNCHANGED <<users_eth, accounts, refresh, users, invites, issued, updates, handler>>
  BY DEF stateVars, serverVars, table
<1>2. /\ Rows' = Rows /\ users_eth' \in [Names -> UserEth \union {NoRow}]
      /\ refresh' = [ alive |-> refresh'.alive, read |-> refresh'.read ]
  BY <1>1 DEF Rows, AccountsInv, Typed
<1> QED
  BY <1>1, <1>2, AdapterKept

-----------------------------------------------------------------------------
LEMMA AccountsInitHolds == AccountsInit => AccountsInv
<1> SUFFICES ASSUME AccountsInit PROVE AccountsInv
  OBVIOUS
<1>1. /\ users_eth = [n \in Names |-> NoRow] /\ accounts = 0
      /\ refresh = [ alive |-> TRUE, read |-> <<>> ]
      /\ scenario \in Scenarios /\ users = [n \in Names |-> NoUser]
      /\ invites = {} /\ issued = {} /\ updates = <<>>
      /\ handler = [h \in Handlers |-> Idle]
  BY DEF AccountsInit, AdapterInit
<1>2. Rows = {} /\ Users = {} /\ Queued = {}
  BY <1>1 DEF Rows, Users, Queued
<1>3. refresh.read = <<>> /\ refresh = [ alive |-> refresh.alive, read |-> refresh.read ]
  BY <1>1
<1>4. DOMAIN refresh.read = {}
  BY <1>3
<1>5. Typed
  <2>1. scenario \in Scenario /\ accounts \in Nat /\ updates \in Seq(StateUpdates)
    BY <1>1, AccountsConstants
  <2> QED
    BY <1>1, <1>3, <2>1, HandlerFacts DEF Typed
<1>6. InvitesAreUsed
  <2>1. issued \ invites = Users /\ IsFiniteSet(issued) /\ IsFiniteSet(Users)
    BY <1>1, <1>2, FS_EmptySet
  <2> QED
    BY <1>1, <2>1 DEF InvitesAreUsed
<1>7. AccountsAreOwn
  BY <1>2, <1>4 DEF AccountsAreOwn
<1>8. OnTheWay
  BY <1>1, <1>2, HandlerFacts DEF OnTheWay, Sound
<1>9. NobodyIsLost
  BY <1>2 DEF NobodyIsLost
<1> QED
  BY <1>5, <1>6, <1>7, <1>8, <1>9 DEF AccountsInv

LEMMA AccountsNextKeepsInv == AccountsInv /\ [AccountsNext]_vars => AccountsInv'
<1> SUFFICES ASSUME AccountsInv, [AccountsNext]_vars PROVE AccountsInv'
  OBVIOUS
<1>1. CASE UNCHANGED vars
  <2>1. scenario' = scenario /\ UNCHANGED <<stateVars, serverVars, table, refresh>>
    BY <1>1 DEF vars, adapterVars
  <2> QED
    BY <2>1, PaymentKept
<1>2. CASE AccountsNext
  <2>0. scenario' = scenario /\ scenario.names \subseteq Names
    BY <1>2 DEF AccountsNext, AccountsInv, Typed, Scenario
  <2>1. ASSUME NEW i \in Invites, gen_invite(i) PROVE AccountsInv'
    BY <2>0, <2>1, GenInviteKept
  <2>2. ASSUME NEW h \in Handlers, Requests(h) PROVE AccountsInv'
    BY <2>0, <2>2, SignupChecksKept, TokenSwitchKept DEF Requests
  <2>3. ASSUME NEW h \in Handlers, Server(h) PROVE AccountsInv'
    BY <2>0, <2>3, SignupCreateuserKept, SignupDefaultTokensKept, SignupSendsKept,
       PostTokensKept DEF Server
  <2>4. ASSUME NEW h \in Handlers, call_fails(h) PROVE AccountsInv'
    BY <2>0, <2>4, CallFailsKept
  <2>5. ASSUME NEW n \in Names, get_deposit_address(n) PROVE AccountsInv'
    BY <2>0, <2>5, GetDepositAddressKept
  <2>6. CASE UpdateApplied \/ UpdateDropped
    BY <2>0, <2>6, UpdateAppliedKept, UpdateDroppedKept
  <2>7. CASE RefreshBegins \/ RefreshGoesOn
    BY <2>0, <2>7, RefreshBeginsKept, RefreshGoesOnKept
  <2>8. CASE (Pay \/ \E n \in Names : Mine(n)) /\ UNCHANGED <<stateVars, serverVars>>
    <3>1. UNCHANGED <<table, refresh>>
      BY <2>8 DEF Pay, transaction_count, send_raw_transaction, send_refused, Mine
    <3> QED
      BY <2>0, <2>8, <3>1, PaymentKept
  <2> QED
    BY <1>2, <2>1, <2>2, <2>3, <2>4, <2>5, <2>6, <2>7, <2>8 DEF AccountsNext
<1> QED
  BY <1>1, <1>2

LEMMA AccountsInvariance == AccountsSpec => []AccountsInv
<1> QED
  BY AccountsInitHolds, AccountsNextKeepsInv, PTL DEF AccountsSpec

-----------------------------------------------------------------------------
(* Each invite lets in one user, however many sign-ups with it signup_email*)
(* has let pass: with_signup looks name and invite up again.               *)
THEOREM OneUserPerInvite == AccountsSpec => []InviteAdmitsOne
<1>1. AccountsInv => InviteAdmitsOne
  BY DEF AccountsInv, InvitesAreUsed, InviteAdmitsOne
<1> QED
  BY <1>1, AccountsInvariance, PTL

(* Every user has a row with an account of his own, and no other address,  *)
(* whatever calls fail, updates are lost and rows are written back late.   *)
THEOREM UsersKeepTheirRows == AccountsSpec => []UsersHaveRows
<1>1. AccountsInv => UsersHaveRows
  BY DEF AccountsInv, AccountsAreOwn, UsersHaveRows
<1> QED
  BY <1>1, AccountsInvariance, PTL

(* While no call and no update is lost and every name has an invite of its *)
(* own, a row without a user is that of a sign-up that is still under way. *)
THEOREM NoRowIsLeftBehind == AccountsSpec => []RowsHaveUsers
<1>1. AccountsInv => RowsHaveUsers
  <2>1. ASSUME AccountsInv, NEW n \in Names, Awaited(n) PROVE Busy(n)
    <3>1. CASE \E h \in Handlers :
                  handler[h].at \in {"default tokens", "signup"} /\ handler[h].user = n
      BY <3>1, HandlerFacts DEF Busy
    <3>2. CASE \E u \in Queued : u.tag = "signup" /\ u.user = n
      BY <3>2 DEF Busy, Queued
    <3> QED
      BY <2>1, <3>1, <3>2 DEF Awaited
  <2> QED
    BY <2>1 DEF AccountsInv, NobodyIsLost, Undisturbed, RowsHaveUsers, Rows
<1> QED
  BY <1>1, AccountsInvariance, PTL

-----------------------------------------------------------------------------
(* The token list of a user who switches a token on undisturbed.           *)
SwitchedOn(n) == { u.token : u \in { v \in Queued : v.tag = "tokens" /\ v.user = n } }

(* What Upcoming computes when tokens are only switched on.                *)
Future(n) == users[n].currencies \union SwitchedOn(n)

OnlyOn(n) == \A u \in Queued : u.tag = "tokens" /\ u.user = n => u.action = "Enable"

Works(h, n) == handler[h] # Idle /\ handler[h].user = n

(* Before the call the one handler at work has the right list, and no      *)
(* round of the refresh has the old one; after it nobody is at work, and   *)
(* a round that has read the row has read the right list.                  *)
Repairing(n) ==
    /\ n \in Users /\ OnlyOn(n)
    /\ mark[n] = "calm" =>
          /\ n \notin DOMAIN refresh.read
          /\ \A h \in Handlers : Works(h, n) =>
                handler[h].at = "tokens" /\ handler[h].list = ListOf(Future(n))
          /\ \A g, h \in Handlers : Works(g, n) /\ Works(h, n) => g = h
    /\ mark[n] = "agreed" =>
          /\ \A h \in Handlers : ~Works(h, n)
          /\ users_eth[n].tokens = ListOf(Future(n))
          /\ n \in DOMAIN refresh.read => refresh.read[n].tokens = users_eth[n].tokens

RepairInv ==
    /\ mark \in [Names -> {"none", "calm", "agreed", "crossed"}]
    /\ \A n \in Names : mark[n] \in {"calm", "agreed"} => Repairing(n)

-----------------------------------------------------------------------------
(* The fold over the queue, when tokens are only switched on.              *)
LEMMA LeastOf == \A T \in SUBSET Nat : T # {} => \E x \in T : \A y \in T : x <= y
<1> SUFFICES ASSUME NEW T \in SUBSET Nat, T # {} PROVE \E x \in T : \A y \in T : x <= y
  OBVIOUS
<1>1. PICK x \in T : \A y \in T : ~ (<<y, x>> \in OpToRel(<, Nat))
  BY NatLessThanWellFounded, WFMin
<1>2. \A y \in T : ~ (y < x)
  BY <1>1 DEF OpToRel
<1> QED
  BY <1>2

(* The last position in a part of the queue.                               *)
LEMMA LastOf ==
    ASSUME NEW k \in Nat, NEW T \in SUBSET (1..k), T # {}
    PROVE  Max(T) \in T
<1> DEFINE D == { d \in 0..k : k - d \in T }
<1>0. D \in SUBSET Nat
  OBVIOUS
<1>1. D # {}
  <2>1. PICK x \in T : TRUE
    OBVIOUS
  <2>2. k - x \in 0..k /\ k - (k - x) = x
    BY <2>1
  <2>3. k - x \in D
    BY <2>2
  <2> QED
    BY <2>3
<1> HIDE DEF D
<1>2. PICK d \in D : \A e \in D : d <= e
  BY <1>0, <1>1, LeastOf
<1> USE DEF D
<1>4. k - d \in T
  BY <1>2
<1>5. \A y \in T : k - d >= y
  <2>1. ASSUME NEW y \in T PROVE k - d >= y
    <3>1. y \in 1..k /\ k - y \in 0..k /\ k - (k - y) = y
      OBVIOUS
    <3>2. k - y \in D
      BY <3>1
    <3>3. d <= k - y /\ d \in 0..k
      BY <1>2, <3>2
    <3> QED
      BY <3>1, <3>3
  <2> QED
    BY <2>1
<1> QED
  BY <1>4, <1>5 DEF Max

(* Two iterations over the positions of a queue agree.                     *)
Step(S, u, n) ==
    IF u.tag # "tokens" \/ u.user # n THEN S
    ELSE IF u.action = "Enable" THEN S \union {u.token} ELSE S \ {u.token}

IsIter(f, q, S, n) ==
    f = [s \in SUBSET (DOMAIN q) |->
            IF s = {} THEN S ELSE Step(f[s \ {Max(s)}], q[Max(s)], n)]

OnlyEnables(q, n) ==
    \A k \in DOMAIN q : q[k].tag = "tokens" /\ q[k].user = n => q[k].action = "Enable"

OnIn(q, s, n) == { q[k].token : k \in { j \in s : q[j].tag = "tokens" /\ q[j].user = n } }

LEMMA IterIsUnion ==
    ASSUME NEW Q, NEW q \in Seq(Q), NEW n, NEW S,
           OnlyEnables(q, n),
           NEW f, IsIter(f, q, S, n)
    PROVE  \A s \in SUBSET (DOMAIN q) : f[s] = S \union OnIn(q, s, n)
<1>1. Len(q) \in Nat /\ DOMAIN q = 1..Len(q)
  OBVIOUS
<1> DEFINE Good(s) == f[s] = S \union OnIn(q, s, n)
           N == { k \in Nat : \E s \in SUBSET (DOMAIN q) : Cardinality(s) = k /\ ~Good(s) }
<1>2. \A s \in SUBSET (DOMAIN q) : IsFiniteSet(s) /\ Cardinality(s) \in Nat
  <2>1. IsFiniteSet(1..Len(q))
    BY <1>1, FS_Interval
  <2> QED
    BY <1>1, <2>1, FS_Subset, FS_CardinalityType
<1>3. SUFFICES ASSUME N # {} PROVE FALSE
  BY <1>2
<1>4. N \in SUBSET Nat
  OBVIOUS
<1> HIDE DEF N
<1>5. PICK k \in N : \A m \in N : k <= m
  BY <1>3, <1>4, LeastOf
<1> USE DEF N
<1>7. PICK s \in SUBSET (DOMAIN q) : Cardinality(s) = k /\ ~Good(s)
  BY <1>5
<1>8. s # {}
  <2>1. f[{}] = S
    BY DEF IsIter
  <2> QED
    BY <1>7, <2>1 DEF OnIn
<1>9. PICK x : x = Max(s)
  OBVIOUS
<1>10. x \in s
  BY <1>1, <1>8, <1>9, LastOf
<1>11. /\ s \ {x} \in SUBSET (DOMAIN q) /\ Cardinality(s \ {x}) = Cardinality(s) - 1
  BY <1>2, <1>10, FS_RemoveElement
<1>12. Good(s \ {x})
  <2>1. Cardinality(s \ {x}) \in Nat /\ ~(k <= Cardinality(s \ {x}))
    BY <1>2, <1>7, <1>11
  <2> QED
    BY <1>5, <1>11, <2>1
<1>13. f[s] = Step(f[s \ {x}], q[x], n)
  BY <1>8, <1>9 DEF IsIter
<1>14. x \in DOMAIN q
  BY <1>10
<1>15. CASE q[x].tag = "tokens" /\ q[x].user = n
  <2>1. f[s] = f[s \ {x}] \union {q[x].token}
    BY <1>13, <1>14, <1>15 DEF Step, OnlyEnables
  <2>2. OnIn(q, s, n) = OnIn(q, s \ {x}, n) \union {q[x].token}
    BY <1>10, <1>15 DEF OnIn
  <2> QED
    BY <1>7, <1>12, <2>1, <2>2
<1>16. CASE ~(q[x].tag = "tokens" /\ q[x].user = n)
  <2>1. f[s] = f[s \ {x}]
    BY <1>13, <1>16 DEF Step
  <2>2. OnIn(q, s, n) = OnIn(q, s \ {x}, n)
    BY <1>10, <1>16 DEF OnIn
  <2> QED
    BY <1>7, <1>12, <2>1, <2>2
<1> QED
  BY <1>15, <1>16

LEMMA IterExists ==
    ASSUME NEW Q, NEW q \in Seq(Q), NEW n, NEW S,
           OnlyEnables(q, n)
    PROVE  \E f : IsIter(f, q, S, n)
<1>1. Len(q) \in Nat /\ DOMAIN q = 1..Len(q)
  OBVIOUS
<1> DEFINE f == [s \in SUBSET (DOMAIN q) |-> S \union OnIn(q, s, n)]
           g == [s \in SUBSET (DOMAIN q) |->
                    IF s = {} THEN S ELSE Step(f[s \ {Max(s)}], q[Max(s)], n)]
<1>2. ASSUME NEW s \in SUBSET (DOMAIN q) PROVE f[s] = g[s]
  <2>1. CASE s = {}
    BY <2>1 DEF OnIn
  <2>2. CASE s # {}
    <3>1. PICK x : x = Max(s)
      OBVIOUS
    <3>2. x \in s
      BY <1>1, <2>2, <3>1, LastOf
    <3>3. s \ {x} \in SUBSET (DOMAIN q) /\ x \in DOMAIN q
      BY <3>2
    <3>4. f[s \ {x}] = S \union OnIn(q, s \ {x}, n)
      BY <3>3
    <3>5. g[s] = Step(S \union OnIn(q, s \ {x}, n), q[x], n)
      BY <2>2, <3>1, <3>4
    <3>6. CASE q[x].tag = "tokens" /\ q[x].user = n
      <4>1. g[s] = (S \union OnIn(q, s \ {x}, n)) \union {q[x].token}
        BY <3>3, <3>5, <3>6 DEF Step, OnlyEnables
      <4>2. OnIn(q, s, n) = OnIn(q, s \ {x}, n) \union {q[x].token}
        BY <3>2, <3>6 DEF OnIn
      <4> QED
        BY <4>1, <4>2
    <3>7. CASE ~(q[x].tag = "tokens" /\ q[x].user = n)
      <4>1. g[s] = S \union OnIn(q, s \ {x}, n)
        BY <3>5, <3>7 DEF Step
      <4>2. OnIn(q, s, n) = OnIn(q, s \ {x}, n)
        BY <3>2, <3>7 DEF OnIn
      <4> QED
        BY <4>1, <4>2
    <3> QED
      BY <3>6, <3>7
  <2> QED
    BY <2>1, <2>2
<1>3. f = g
  BY <1>2
<1> HIDE DEF f
<1>4. IsIter(f, q, S, n)
  BY <1>3 DEF IsIter
<1> QED
  BY <1>4

LEMMA UpcomingIsFuture ==
    ASSUME Typed, NEW n, OnlyOn(n)
    PROVE  Upcoming(n) = Future(n)
<1>1. OnlyEnables(updates, n)
  BY DEF OnlyOn, Queued, OnlyEnables
<1>2. updates \in Seq(StateUpdates)
  BY DEF Typed
<1>3. PICK f : f = CHOOSE g : IsIter(g, updates, users[n].currencies, n)
  OBVIOUS
<1>4. Upcoming(n) = f[DOMAIN updates]
  BY <1>3 DEF Upcoming, FoldLeft, MapThenFoldSet, IsIter, Step
<1>5. IsIter(f, updates, users[n].currencies, n)
  BY <1>1, <1>2, <1>3, IterExists
<1>6. \A s \in SUBSET (DOMAIN updates) : f[s] = users[n].currencies \union OnIn(updates, s, n)
  BY <1>1, <1>2, <1>5, IterIsUnion
<1>7. OnIn(updates, DOMAIN updates, n) = SwitchedOn(n)
  BY DEF OnIn, SwitchedOn, Queued
<1> QED
  BY <1>4, <1>6, <1>7 DEF Future

-----------------------------------------------------------------------------
(* What the steps of others leave a name: nobody takes up work for it, and *)
(* the tokens to come are the same.                                        *)
Marked(n) == mark[n] \in {"calm", "agreed"}

NobodyNew(n) == \A h \in Handlers : Works(h, n)' => Works(h, n) /\ handler'[h] = handler[h]

SameFuture(n) == n \in Users' /\ OnlyOn(n)' /\ Future(n)' = Future(n)

ReadKept(n) ==
    n \in DOMAIN refresh'.read =>
        n \in DOMAIN refresh.read /\ refresh'.read[n].tokens = refresh.read[n].tokens

LEMMA RepairKept ==
    ASSUME RepairInv, NEW n \in Names, Marked(n)', mark'[n] = mark[n],
           NobodyNew(n), SameFuture(n), ReadKept(n),
           mark[n] = "agreed" => users_eth'[n].tokens = users_eth[n].tokens
    PROVE  Repairing(n)'
<1>1. Repairing(n)
  BY DEF RepairInv, Marked
<1>2. CASE mark[n] = "calm"
  <2>1. /\ n \notin DOMAIN refresh.read
        /\ \A h \in Handlers : Works(h, n) =>
              handler[h].at = "tokens" /\ handler[h].list = ListOf(Future(n))
        /\ \A g, h \in Handlers : Works(g, n) /\ Works(h, n) => g = h
    BY <1>1, <1>2 DEF Repairing
  <2>2. n \notin DOMAIN refresh'.read
    BY <2>1 DEF ReadKept
  <2>3. \A h \in Handlers : Works(h, n)' =>
           handler'[h].at = "tokens" /\ handler'[h].list = ListOf(Future(n)')
    BY <2>1 DEF NobodyNew, SameFuture
  <2>4. \A g, h \in Handlers : Works(g, n)' /\ Works(h, n)' => g = h
    BY <2>1 DEF NobodyNew
  <2> QED
    BY <1>2, <2>2, <2>3, <2>4 DEF Repairing, SameFuture
<1>3. CASE mark[n] = "agreed"
  <2>1. /\ \A h \in Handlers : ~Works(h, n)
        /\ users_eth[n].tokens = ListOf(Future(n))
        /\ n \in DOMAIN refresh.read => refresh.read[n].tokens = users_eth[n].tokens
    BY <1>1, <1>3 DEF Repairing
  <2>2. \A h \in Handlers : ~Works(h, n)'
    BY <2>1 DEF NobodyNew
  <2>3. users_eth'[n].tokens = ListOf(Future(n)')
    BY <1>3, <2>1 DEF SameFuture
  <2>4. n \in DOMAIN refresh'.read => refresh'.read[n].tokens = users_eth'[n].tokens
    BY <1>3, <2>1 DEF ReadKept
  <2> QED
    BY <1>3, <2>2, <2>3, <2>4 DEF Repairing, SameFuture
<1> QED
  BY <1>2, <1>3 DEF Marked

LEMMA MarkedFacts ==
    ASSUME RepairInv, NEW n \in Names, Marked(n)
    PROVE  n \in Users /\ OnlyOn(n)
  BY DEF RepairInv, Marked, Repairing

LEMMA FutureStays ==
    ASSUME RepairInv, NEW n \in Names, Marked(n), users' = users, updates' = updates
    PROVE  SameFuture(n)
<1>1. Queued' = Queued /\ Users' = Users
  BY DEF Queued, Users
<1>2. SwitchedOn(n)' = SwitchedOn(n)
  BY <1>1 DEF SwitchedOn
<1> QED
  BY <1>1, <1>2, MarkedFacts DEF SameFuture, OnlyOn, Future

LEMMA FutureAfterSend ==
    ASSUME AccountsInv, RepairInv, NEW n \in Names, Marked(n), users' = users,
           NEW u \in StateUpdates, updates' = Append(updates, u),
           ~(u.tag = "tokens" /\ u.user = n)
    PROVE  SameFuture(n)
<1>1. Queued' = Queued \union {u} /\ Users' = Users
  BY AppendQueued DEF AccountsInv, Users
<1>2. SwitchedOn(n)' = SwitchedOn(n)
  BY <1>1 DEF SwitchedOn
<1> QED
  BY <1>1, <1>2, MarkedFacts DEF SameFuture, OnlyOn, Future

(* A handler comes to an end, or works for somebody else.                  *)
LEMMA WorksElsewhere ==
    ASSUME AccountsInv, NEW h \in Handlers, NEW s \in HandlerStates,
           handler' = [handler EXCEPT ![h] = s], NEW n, s = Idle \/ s.user # n
    PROVE  NobodyNew(n)
<1>1. handler'[h] = s /\ \A g \in Handlers \ {h} : handler'[g] = handler[g]
  BY HandlerSteps
<1> QED
  BY <1>1 DEF NobodyNew, Works

-----------------------------------------------------------------------------
(* Steps that leave the marks and the tokens of the marked alone.          *)
LEMMA RepairUnmoved ==
    ASSUME RepairInv, mark' = mark,
           \A n \in Names : Marked(n) =>
              /\ NobodyNew(n) /\ SameFuture(n) /\ ReadKept(n)
              /\ mark[n] = "agreed" => users_eth'[n].tokens = users_eth[n].tokens
    PROVE  RepairInv'
<1>1. ASSUME NEW n \in Names, Marked(n)' PROVE Repairing(n)'
  <2>1. Marked(n) /\ mark'[n] = mark[n]
    BY <1>1 DEF Marked
  <2> QED
    BY <1>1, <2>1, RepairKept
<1> QED
  BY <1>1 DEF RepairInv, Marked

(* Steps that cross a name, and leave the others alone.                    *)
LEMMA RepairCrossed ==
    ASSUME RepairInv, NEW m \in Names, mark' = [mark EXCEPT ![m] = "crossed"],
           \A n \in Names \ {m} : Marked(n) =>
              /\ NobodyNew(n) /\ SameFuture(n) /\ ReadKept(n)
              /\ mark[n] = "agreed" => users_eth'[n].tokens = users_eth[n].tokens
    PROVE  RepairInv'
<1>1. /\ mark \in [Names -> {"none", "calm", "agreed", "crossed"}]
      /\ mark'[m] = "crossed" /\ \A n \in Names \ {m} : mark'[n] = mark[n]
  BY DEF RepairInv
<1>2. ASSUME NEW n \in Names, Marked(n)' PROVE Repairing(n)'
  <2>1. n # m
    BY <1>1, <1>2 DEF Marked
  <2>2. Marked(n) /\ mark'[n] = mark[n]
    BY <1>1, <1>2, <2>1 DEF Marked
  <2> QED
    BY <1>2, <2>1, <2>2, RepairKept
<1>3. mark' \in [Names -> {"none", "calm", "agreed", "crossed"}]
  BY <1>1
<1> QED
  BY <1>2, <1>3 DEF RepairInv, Marked

-----------------------------------------------------------------------------
LEMMA RepairAfterGenInvite ==
    ASSUME AccountsInv, RepairInv, NEW i \in Invites, gen_invite(i)
    PROVE  RepairInv'
<1>1. UNCHANGED <<users_eth, refresh, users, updates, handler, mark>>
  BY DEF gen_invite, adapterVars, table, serverVars
<1> QED
  BY <1>1, FutureStays, RepairUnmoved DEF NobodyNew, Works, ReadKept

(* Who is marked is a user, and signs up no more.                          *)
LEMMA RepairAfterSignupChecks ==
    ASSUME AccountsInv, RepairInv, NEW h \in Handlers, NEW m \in Names, NEW i \in Invites,
           signup_checks(h, m, i)
    PROVE  RepairInv'
<1>0. PICK s : s = [ at |-> "createuser", user |-> m, invite |-> i ]
  OBVIOUS
<1>1. /\ m \notin Users /\ handler' = [handler EXCEPT ![h] = s]
      /\ UNCHANGED <<users_eth, refresh, users, updates, mark>>
  BY <1>0 DEF signup_checks, Starts, adapterVars, table, stateVars
<1>2. s \in HandlerStates /\ s.user = m
  <2>1. s \in SigningUp /\ s.user = m
    BY <1>0 DEF SigningUp
  <2> QED
    BY <2>1, HandlerFacts
<1>3. ASSUME NEW n \in Names, Marked(n) PROVE NobodyNew(n)
  <2>1. s.user # n
    BY <1>1, <1>2, <1>3, MarkedFacts
  <2> QED
    BY <1>1, <1>2, <2>1, WorksElsewhere
<1> QED
  BY <1>1, <1>3, FutureStays, RepairUnmoved DEF ReadKept

(* Nor has a sign-up under way a name that is marked.                      *)
LEMMA SignupIsUnmarked ==
    ASSUME AccountsInv, RepairInv, NEW h \in Handlers,
           handler[h].at \in {"createuser", "default tokens", "signup"}
    PROVE  /\ handler[h] \in SigningUp /\ handler[h].user \in Names
           /\ ~Marked(handler[h].user)
<1>1. handler[h] \in SigningUp /\ handler[h].user \in Names
  BY HandlerFacts DEF AccountsInv, Typed
<1>2. Works(h, handler[h].user)
  BY <1>1, HandlerFacts DEF Works
<1>3. ASSUME Marked(handler[h].user) PROVE FALSE
  <2>1. Repairing(handler[h].user)
    BY <1>1, <1>3 DEF RepairInv, Marked
  <2> QED
    BY <1>2, <1>3, <2>1 DEF Repairing, Marked
<1> QED
  BY <1>1, <1>3

LEMMA RowsOfOthers ==
    ASSUME AccountsInv, NEW m \in Names, NEW r, users_eth' = [users_eth EXCEPT ![m] = r],
           NEW n \in Names, n # m
    PROVE  users_eth'[n] = users_eth[n]
  BY DEF AccountsInv, Typed

LEMMA RepairAfterSignup ==
    ASSUME AccountsInv, RepairInv, NEW h \in Handlers,
           signup_createuser(h) \/ signup_default_tokens(h)
    PROVE  RepairInv'
<1>0. PICK m : m = handler[h].user
  OBVIOUS
<1>1. /\ handler[h].at \in {"createuser", "default tokens", "signup"}
      /\ UNCHANGED <<refresh, users, updates, mark>>
  BY DEF signup_createuser, signup_default_tokens, stateVars
<1>2. handler[h] \in SigningUp /\ m \in Names /\ ~Marked(m)
  BY <1>0, <1>1, SignupIsUnmarked
<1>3. PICK s \in HandlerStates :
         handler' = [handler EXCEPT ![h] = s] /\ (s = Idle \/ s.user = m)
  <2>1. PICK a \in {"default tokens", "signup"} :
           \/ handler' = [handler EXCEPT ![h] = [ handler[h] EXCEPT !.at = a ]]
           \/ handler' = [handler EXCEPT ![h] = Idle]
    BY DEF signup_createuser, signup_default_tokens, Goes
  <2>2. PICK s : s = [ handler[h] EXCEPT !.at = a ]
    OBVIOUS
  <2>3. s \in SigningUp /\ s.user = m
    BY <1>0, <1>2, <2>2 DEF SigningUp
  <2> QED
    BY <2>1, <2>2, <2>3, HandlerFacts
<1>4. users_eth' = users_eth \/ \E r : users_eth' = [users_eth EXCEPT ![m] = r]
  BY <1>0 DEF signup_createuser, signup_default_tokens, user_create, tokens_post
<1>5. ASSUME NEW n \in Names, Marked(n)
      PROVE  NobodyNew(n) /\ users_eth'[n].tokens = users_eth[n].tokens
  <2>1. n # m
    BY <1>2, <1>5
  <2>2. NobodyNew(n)
    BY <1>3, <2>1, WorksElsewhere
  <2>3. users_eth'[n] = users_eth[n]
    BY <1>2, <1>4, <2>1, RowsOfOthers
  <2> QED
    BY <2>2, <2>3
<1> QED
  BY <1>1, <1>5, FutureStays, RepairUnmoved DEF ReadKept

LEMMA RepairAfterSignupSends ==
    ASSUME AccountsInv, RepairInv, NEW h \in Handlers, signup_sends(h)
    PROVE  RepairInv'
<1>0. PICK m, i, u : m = handler[h].user /\ i = handler[h].invite /\ u = Signup(m, i)
  OBVIOUS
<1>1. /\ handler[h].at = "signup" /\ updates' = Append(updates, u)
      /\ handler' = [handler EXCEPT ![h] = Idle]
      /\ UNCHANGED <<users_eth, refresh, users, mark>>
  BY <1>0 DEF signup_sends, Goes, adapterVars, table
<1>2. m \in Names /\ i \in Invites
  BY <1>0, <1>1, SignupIsUnmarked, HandlerFacts
<1>3. u \in StateUpdates /\ u.tag = "signup"
  BY <1>0, <1>2 DEF Signup, StateUpdates
<1>4. ASSUME NEW n \in Names, Marked(n) PROVE NobodyNew(n) /\ SameFuture(n)
  BY <1>1, <1>3, <1>4, WorksElsewhere, FutureAfterSend, HandlerFacts
<1> QED
  BY <1>1, <1>4, RepairUnmoved DEF ReadKept

LEMMA RepairAfterGetDepositAddress ==
    ASSUME AccountsInv, RepairInv, NEW m \in Names, get_deposit_address(m)
    PROVE  RepairInv'
<1>0. PICK u : u = DepositAddress(m, users_eth[m].address)
  OBVIOUS
<1>1. /\ m \in Users /\ updates' = Append(updates, u)
      /\ UNCHANGED <<users_eth, refresh, users, handler, mark>>
  BY <1>0 DEF get_deposit_address, adapterVars, table, serverVars
<1>2. m \in Rows /\ users_eth[m].address \in Nat
  BY <1>1 DEF AccountsInv, AccountsAreOwn, Typed, Rows, UserEth
<1>3. u \in StateUpdates /\ u.tag = "address"
  BY <1>0, <1>2 DEF DepositAddress, StateUpdates
<1>4. ASSUME NEW n \in Names, Marked(n) PROVE NobodyNew(n) /\ SameFuture(n)
  <2>1. SameFuture(n)
    BY <1>1, <1>3, <1>4, FutureAfterSend
  <2> QED
    BY <1>1, <2>1 DEF NobodyNew, Works
<1> QED
  BY <1>1, <1>4, RepairUnmoved DEF ReadKept

LEMMA RepairAfterCallFails ==
    ASSUME AccountsInv, RepairInv, NEW h \in Handlers, call_fails(h)
    PROVE  RepairInv'
<1>0. PICK m : m = handler[h].user
  OBVIOUS
<1>1. /\ handler[h].at \in {"createuser", "default tokens", "tokens"}
      /\ handler' = [handler EXCEPT ![h] = Idle]
      /\ mark' = [mark EXCEPT ![m] = "crossed"]
      /\ UNCHANGED <<users_eth, refresh, users, updates>>
  BY <1>0 DEF call_fails, Goes, adapterVars, table, stateVars
<1>2. m \in Names
  BY <1>0, <1>1, HandlerFacts DEF AccountsInv, Typed
<1>3. ASSUME NEW n \in Names, Marked(n) PROVE NobodyNew(n) /\ SameFuture(n)
  BY <1>1, <1>3, WorksElsewhere, FutureStays, HandlerFacts
<1> QED
  BY <1>1, <1>2, <1>3, RepairCrossed DEF ReadKept

LEMMA RepairAfterPayment ==
    ASSUME AccountsInv, RepairInv, UNCHANGED <<stateVars, serverVars, table, refresh>>
    PROVE  RepairInv'
<1>1. UNCHANGED <<users_eth, refresh, users, updates, handler, mark>>
  BY DEF stateVars, serverVars, table
<1> QED
  BY <1>1, FutureStays, RepairUnmoved DEF NobodyNew, Works, ReadKept

-----------------------------------------------------------------------------
(* A switch of one name's tokens leaves the others alone.                  *)
LEMMA SwitchElsewhere ==
    ASSUME AccountsInv, RepairInv, NEW h \in Handlers, NEW m \in Names, NEW t \in Tokens,
           NEW act \in {"Enable", "Disable"}, NEW list \in [Tokens -> Nat],
           updates' = Append(updates, UpdateTokens(m, t, act)),
           handler' = [handler EXCEPT ![h] = [ at |-> "tokens", user |-> m, list |-> list ]],
           users' = users
    PROVE  /\ \A g \in Handlers \ {h} : handler'[g] = handler[g]
           /\ Queued' = Queued \union {UpdateTokens(m, t, act)}
           /\ \A n \in Names \ {m} : Marked(n) => NobodyNew(n) /\ SameFuture(n)
<1>1. PICK s, u : s = [ at |-> "tokens", user |-> m, list |-> list ] /\ u = UpdateTokens(m, t, act)
  OBVIOUS
<1>2. s \in HandlerStates /\ s.user = m /\ u \in StateUpdates /\ u.user = m
  <2>1. s \in Posting /\ s.user = m
    BY <1>1 DEF Posting
  <2>2. u \in StateUpdates /\ u.user = m
    BY <1>1 DEF UpdateTokens, StateUpdates
  <2> QED
    BY <2>1, <2>2, HandlerFacts
<1>3. handler'[h] = s /\ \A g \in Handlers \ {h} : handler'[g] = handler[g]
  BY <1>1, <1>2, HandlerSteps
<1>4. Queued' = Queued \union {u}
  BY <1>1, <1>2, AppendQueued DEF AccountsInv
<1>5. ASSUME NEW n \in Names \ {m}, Marked(n) PROVE NobodyNew(n) /\ SameFuture(n)
  <2>1. NobodyNew(n)
    BY <1>1, <1>2, <1>5, WorksElsewhere
  <2>2. SameFuture(n)
    BY <1>1, <1>2, <1>5, FutureAfterSend
  <2> QED
    BY <2>1, <2>2
<1> QED
  BY <1>1, <1>3, <1>4, <1>5

LEMMA RepairAfterDisableToken ==
    ASSUME AccountsInv, RepairInv, NEW h \in Handlers, NEW m \in Names, NEW t \in Tokens,
           disable_token(h, m, t)
    PROVE  RepairInv'
<1>0. PICK list : list = disabled_list(m, t)
  OBVIOUS
<1>1. /\ m \in Users /\ mark' = [mark EXCEPT ![m] = "crossed"]
      /\ handler' = [handler EXCEPT ![h] = [ at |-> "tokens", user |-> m, list |-> list ]]
      /\ updates' = Append(updates, UpdateTokens(m, t, "Disable"))
      /\ UNCHANGED <<users_eth, refresh, users>>
  BY <1>0 DEF disable_token, Starts, adapterVars, table
<1>2. list \in [Tokens -> Nat]
  BY <1>0, <1>1, ListFacts DEF AccountsInv
<1>3. \A n \in Names \ {m} : Marked(n) => NobodyNew(n) /\ SameFuture(n)
  BY <1>1, <1>2, SwitchElsewhere
<1> QED
  BY <1>1, <1>3, RepairCrossed DEF ReadKept

(* With nothing else under way for the name, the list posted is that of    *)
(* the tokens to come.                                                     *)
LEMMA CalmBeginning ==
    ASSUME AccountsInv, RepairInv, NEW h \in Handlers, NEW m \in Names, NEW t \in Tokens,
           enable_token(h, m, t), Calm(m)
    PROVE  Repairing(m)'
<1>0. PICK list, u : list = enabled_list(m, t) /\ u = UpdateTokens(m, t, "Enable")
  OBVIOUS
<1>1. /\ m \in Users /\ mark' = [mark EXCEPT ![m] = "calm"]
      /\ handler' = [handler EXCEPT ![h] = [ at |-> "tokens", user |-> m, list |-> list ]]
      /\ updates' = Append(updates, u)
      /\ UNCHANGED <<users_eth, refresh, users>>
  BY <1>0 DEF enable_token, Starts, adapterVars, table
<1>2. list \in [Tokens -> Nat]
  BY <1>0, <1>1, ListFacts DEF AccountsInv
<1>3. /\ handler'[h] = [ at |-> "tokens", user |-> m, list |-> list ]
      /\ \A g \in Handlers \ {h} : handler'[g] = handler[g]
      /\ Queued' = Queued \union {u}
  <2>1. "Enable" \in {"Enable", "Disable"}
    OBVIOUS
  <2>2. updates' = Append(updates, UpdateTokens(m, t, "Enable")) /\ users' = users
    BY <1>0, <1>1
  <2>3. handler'[h] = [ at |-> "tokens", user |-> m, list |-> list ]
    BY <1>1 DEF AccountsInv, Typed
  <2>4. \A g \in Handlers \ {h} : handler'[g] = handler[g]
    BY <1>1, <1>2, <2>1, <2>2, SwitchElsewhere
  <2>5. Queued' = Queued \union {UpdateTokens(m, t, "Enable")}
    BY <1>1, <1>2, <2>1, <2>2, SwitchElsewhere
  <2> QED
    BY <1>0, <2>3, <2>4, <2>5
<1>4. /\ \A g \in Handlers : ~Works(g, m)
      /\ \A v \in Queued : v.user # m
      /\ m \notin DOMAIN refresh.read
  BY DEF Calm, Busy, Works, Queued
<1>5. u.tag = "tokens" /\ u.user = m /\ u.token = t /\ u.action = "Enable"
  BY <1>0 DEF UpdateTokens
<1>6. OnlyOn(m)' /\ SwitchedOn(m)' = {t}
  <2>1. OnlyOn(m)'
    BY <1>3, <1>4, <1>5 DEF OnlyOn
  <2>2. { v \in Queued' : v.tag = "tokens" /\ v.user = m } = {u}
    BY <1>3, <1>4, <1>5
  <2> QED
    BY <1>5, <2>1, <2>2 DEF SwitchedOn
<1>7. list = ListOf(Future(m)')
  BY <1>0, <1>1, <1>6 DEF Future, enabled_list
<1>8. \A g \in Handlers : Works(g, m)' => g = h
  BY <1>3, <1>4 DEF Works
<1>9. m \in Users' /\ mark'[m] = "calm"
  BY <1>1 DEF Users, RepairInv
<1> QED
  BY <1>1, <1>3, <1>4, <1>6, <1>7, <1>8, <1>9 DEF Repairing

LEMMA RepairAfterEnableToken ==
    ASSUME AccountsInv, RepairInv, NEW h \in Handlers, NEW m \in Names, NEW t \in Tokens,
           enable_token(h, m, t)
    PROVE  RepairInv'
<1>0. PICK list : list = enabled_list(m, t)
  OBVIOUS
<1>1. /\ m \in Users
      /\ mark' = [mark EXCEPT ![m] = IF Calm(m) THEN "calm" ELSE "crossed"]
      /\ handler' = [handler EXCEPT ![h] = [ at |-> "tokens", user |-> m, list |-> list ]]
      /\ updates' = Append(updates, UpdateTokens(m, t, "Enable"))
      /\ UNCHANGED <<users_eth, refresh, users>>
  BY <1>0 DEF enable_token, Starts, adapterVars, table
<1>2. list \in [Tokens -> Nat]
  BY <1>0, <1>1, ListFacts DEF AccountsInv
<1>3. \A n \in Names \ {m} : Marked(n) => NobodyNew(n) /\ SameFuture(n)
  BY <1>1, <1>2, SwitchElsewhere
<1>4. CASE ~Calm(m)
  BY <1>1, <1>3, <1>4, RepairCrossed DEF ReadKept
<1>5. CASE Calm(m)
  <2>1. /\ mark' \in [Names -> {"none", "calm", "agreed", "crossed"}]
        /\ \A n \in Names \ {m} : mark'[n] = mark[n]
    BY <1>1, <1>5 DEF RepairInv
  <2>2. ASSUME NEW n \in Names \ {m}, Marked(n)' PROVE Repairing(n)'
    <3>1. Marked(n) /\ mark'[n] = mark[n]
      BY <2>1, <2>2 DEF Marked
    <3> QED
      BY <1>1, <1>3, <2>2, <3>1, RepairKept DEF ReadKept
  <2>3. Repairing(m)'
    BY <1>5, CalmBeginning
  <2> QED
    BY <2>1, <2>2, <2>3 DEF RepairInv, Marked
<1> QED
  BY <1>4, <1>5

(* The call comes to its end: the row has the list, and the round of the   *)
(* refresh that reads it will read that.                                   *)
LEMMA CalmEnding ==
    ASSUME AccountsInv, RepairInv, NEW h \in Handlers, post_tokens(h),
           mark[handler[h].user] = "calm"
    PROVE  \A m \in Names : m = handler[h].user => Repairing(m)'
<1>0. PICK m, list : m = handler[h].user /\ list = handler[h].list
  OBVIOUS
<1>1. /\ handler[h].at = "tokens" /\ tokens_post(m, list)
      /\ handler' = [handler EXCEPT ![h] = Idle]
      /\ mark' = [mark EXCEPT ![m] = "agreed"]
      /\ UNCHANGED <<refresh, users, updates>>
  BY <1>0 DEF post_tokens, Goes, stateVars
<1>2. m \in Names /\ Works(h, m)
  BY <1>0, <1>1, HandlerFacts DEF AccountsInv, Typed, Works
<1>3. Repairing(m)
  BY <1>0, <1>2 DEF RepairInv
<1>4. /\ m \in Users /\ OnlyOn(m) /\ m \notin DOMAIN refresh.read
      /\ list = ListOf(Future(m))
      /\ \A g \in Handlers : Works(g, m) => g = h
  BY <1>0, <1>2, <1>3 DEF Repairing
<1>5. Marked(m) /\ mark'[m] = "agreed"
  BY <1>0, <1>1, <1>2 DEF Marked, RepairInv
<1>6. SameFuture(m)
  BY <1>1, <1>2, <1>5, FutureStays
<1>7. users_eth'[m].tokens = list
  <2>1. m \in Rows /\ users_eth[m] \in UserEth
    BY <1>2, <1>4 DEF AccountsInv, AccountsAreOwn, Typed, Rows
  <2>2. PICK r : r = [users_eth[m] EXCEPT !.tokens = list]
    OBVIOUS
  <2>3. r.tokens = list
    BY <2>1, <2>2 DEF UserEth
  <2>4. users_eth' = [users_eth EXCEPT ![m] = r]
    BY <1>1, <2>1, <2>2 DEF tokens_post
  <2> QED
    BY <1>2, <2>3, <2>4 DEF AccountsInv, Typed
<1>8. \A g \in Handlers : ~Works(g, m)'
  <2>1. handler'[h] = Idle /\ \A g \in Handlers \ {h} : handler'[g] = handler[g]
    BY <1>1, HandlerSteps, HandlerFacts
  <2> QED
    BY <1>4, <2>1 DEF Works
<1>9. Repairing(m)'
  BY <1>1, <1>4, <1>5, <1>6, <1>7, <1>8 DEF Repairing, SameFuture
<1> QED
  BY <1>0, <1>9

LEMMA RepairAfterPostTokens ==
    ASSUME AccountsInv, RepairInv, NEW h \in Handlers, post_tokens(h)
    PROVE  RepairInv'
<1>0. PICK m, a : m = handler[h].user /\ a = IF mark[m] = "calm" THEN "agreed" ELSE "crossed"
  OBVIOUS
<1>1. /\ handler[h].at = "tokens" /\ tokens_post(m, handler[h].list)
      /\ handler' = [handler EXCEPT ![h] = Idle]
      /\ UNCHANGED <<refresh, users, updates>>
  BY <1>0 DEF post_tokens, Goes, stateVars
<1>2. m \in Names
  BY <1>0, <1>1, HandlerFacts DEF AccountsInv, Typed
<1>3. mark' = [mark EXCEPT ![m] = a]
  BY <1>0, <1>2 DEF post_tokens, RepairInv
<1>4. ASSUME NEW n \in Names \ {m}, Marked(n)
      PROVE  NobodyNew(n) /\ SameFuture(n) /\ users_eth'[n].tokens = users_eth[n].tokens
  <2>1. NobodyNew(n) /\ SameFuture(n)
    BY <1>1, <1>4, WorksElsewhere, FutureStays, HandlerFacts
  <2>2. users_eth' = users_eth \/ \E r : users_eth' = [users_eth EXCEPT ![m] = r]
    BY <1>1 DEF tokens_post
  <2> QED
    BY <1>2, <2>1, <2>2, RowsOfOthers
<1>5. CASE mark[m] # "calm"
  BY <1>0, <1>1, <1>2, <1>3, <1>4, <1>5, RepairCrossed DEF ReadKept
<1>6. CASE mark[m] = "calm"
  <2>1. /\ mark' \in [Names -> {"none", "calm", "agreed", "crossed"}]
        /\ \A n \in Names \ {m} : mark'[n] = mark[n]
    BY <1>0, <1>2, <1>3, <1>6 DEF RepairInv
  <2>2. ASSUME NEW n \in Names \ {m}, Marked(n)' PROVE Repairing(n)'
    <3>1. Marked(n) /\ mark'[n] = mark[n]
      BY <2>1, <2>2 DEF Marked
    <3> QED
      BY <1>1, <1>4, <2>2, <3>1, RepairKept DEF ReadKept
  <2>3. Repairing(m)'
    BY <1>0, <1>2, <1>6, CalmEnding
  <2> QED
    BY <2>1, <2>2, <2>3 DEF RepairInv, Marked
<1> QED
  BY <1>5, <1>6

-----------------------------------------------------------------------------
(* A token of the marked moves from the queue to the user.                 *)
LEMMA FutureAfterTake ==
    ASSUME AccountsInv, RepairInv, UpdateApplied, NEW n \in Names, Marked(n)
    PROVE  SameFuture(n)
<1>0. PICK u, m, r : u = Head(updates) /\ m = u.user /\ r = Applied(u)
  OBVIOUS
<1>1. /\ updates # <<>> /\ updates' = Tail(updates) /\ Accepted(u)
      /\ users' = [users EXCEPT ![m] = r]
  BY <1>0 DEF UpdateApplied
<1>2. /\ u \in Queued /\ u \in StateUpdates /\ m \in Names
      /\ Queued' \subseteq Queued /\ Queued \subseteq Queued' \union {u}
      /\ u.tag \in {"signup", "tokens", "address"}
  BY <1>0, <1>1, TailQueued, UpdateFacts DEF AccountsInv
<1>3. n \in Users /\ OnlyOn(n) /\ users[n] \in UserInfo /\ users[n] # NoUser
  BY MarkedFacts DEF AccountsInv, Typed, Users
<1>4. OnlyOn(n)'
  BY <1>2, <1>3 DEF OnlyOn
<1>5. CASE m # n
  <2>1. users'[n] = users[n]
    BY <1>1, <1>2, <1>5 DEF AccountsInv, Typed
  <2>2. { v \in Queued' : v.tag = "tokens" /\ v.user = n }
           = { v \in Queued : v.tag = "tokens" /\ v.user = n }
    BY <1>0, <1>2, <1>5
  <2>3. SwitchedOn(n)' = SwitchedOn(n)
    BY <2>2 DEF SwitchedOn
  <2> QED
    BY <1>3, <1>4, <2>1, <2>3 DEF SameFuture, Future, Users
<1>6. CASE m = n /\ u.tag = "address"
  <2>1. r = [users[n] EXCEPT !.deposit_info = @ \union {u.address}]
    BY <1>0, <1>6 DEF Applied
  <2>2. r.currencies = users[n].currencies /\ u.address \in Nat
    BY <1>2, <1>3, <1>6, <2>1, UpdateFacts DEF UserInfo
  <2>3. r \in UserInfo
    BY <1>3, <2>1, <2>2 DEF UserInfo
  <2>4. users'[n] = r
    BY <1>1, <1>2, <1>6 DEF AccountsInv, Typed
  <2>5. { v \in Queued' : v.tag = "tokens" /\ v.user = n }
           = { v \in Queued : v.tag = "tokens" /\ v.user = n }
    BY <1>2, <1>6
  <2>6. SwitchedOn(n)' = SwitchedOn(n)
    BY <2>5 DEF SwitchedOn
  <2> QED
    BY <1>4, <2>2, <2>3, <2>4, <2>6, NoUserIsNone DEF SameFuture, Future, Users
<1>7. CASE m = n /\ u.tag = "tokens"
  <2>1. u.action = "Enable" /\ u.token \in Tokens
    BY <1>0, <1>2, <1>3, <1>7, UpdateFacts DEF OnlyOn
  <2>2. r = [users[n] EXCEPT !.currencies = @ \union {u.token}]
    BY <1>0, <1>7, <2>1 DEF Applied
  <2>3. r \in UserInfo /\ r.currencies = users[n].currencies \union {u.token}
    BY <1>3, <2>1, <2>2 DEF UserInfo
  <2>4. users'[n] = r
    BY <1>1, <1>2, <1>7 DEF AccountsInv, Typed
  <2>5. /\ { v \in Queued' : v.tag = "tokens" /\ v.user = n }
              \subseteq { v \in Queued : v.tag = "tokens" /\ v.user = n }
        /\ { v \in Queued : v.tag = "tokens" /\ v.user = n }
              \subseteq { v \in Queued' : v.tag = "tokens" /\ v.user = n } \union {u}
        /\ u \in { v \in Queued : v.tag = "tokens" /\ v.user = n }
    BY <1>0, <1>2, <1>7
  <2>6. SwitchedOn(n)' \union {u.token} = SwitchedOn(n) \union {u.token} /\ u.token \in SwitchedOn(n)
    BY <2>5 DEF SwitchedOn
  <2> QED
    BY <1>4, <2>3, <2>4, <2>6, NoUserIsNone DEF SameFuture, Future, Users
<1>8. CASE m = n /\ u.tag = "signup"
  BY <1>0, <1>1, <1>3, <1>8 DEF Accepted
<1> QED
  BY <1>2, <1>5, <1>6, <1>7, <1>8

LEMMA RepairAfterUpdateApplied ==
    ASSUME AccountsInv, RepairInv, UpdateApplied
    PROVE  RepairInv'
<1>1. UNCHANGED <<users_eth, refresh, handler, mark>>
  BY DEF UpdateApplied, adapterVars, table, serverVars
<1> QED
  BY <1>1, FutureAfterTake, RepairUnmoved DEF NobodyNew, Works, ReadKept

LEMMA RepairAfterUpdateDropped ==
    ASSUME AccountsInv, RepairInv, UpdateDropped
    PROVE  RepairInv'
<1>0. PICK u, m : u = Head(updates) /\ m = u.user
  OBVIOUS
<1>1. /\ updates # <<>> /\ updates' = Tail(updates)
      /\ mark' = IF u.tag = "tokens" THEN [mark EXCEPT ![m] = "crossed"] ELSE mark
      /\ UNCHANGED <<users_eth, refresh, users, handler>>
  BY <1>0 DEF UpdateDropped, adapterVars, table
<1>2. /\ u \in StateUpdates /\ m \in Names
      /\ Queued' \subseteq Queued /\ Queued \subseteq Queued' \union {u}
  BY <1>0, <1>1, TailQueued, UpdateFacts DEF AccountsInv
<1>3. ASSUME NEW n \in Names, Marked(n), ~(u.tag = "tokens" /\ m = n)
      PROVE  NobodyNew(n) /\ SameFuture(n)
  <2>1. { v \in Queued' : v.tag = "tokens" /\ v.user = n }
           = { v \in Queued : v.tag = "tokens" /\ v.user = n }
    BY <1>0, <1>2, <1>3
  <2>2. SwitchedOn(n)' = SwitchedOn(n)
    BY <2>1 DEF SwitchedOn
  <2>3. n \in Users' /\ OnlyOn(n)'
    BY <1>1, <1>2, <1>3, MarkedFacts DEF OnlyOn, Users
  <2> QED
    BY <1>1, <2>2, <2>3 DEF SameFuture, Future, NobodyNew, Works
<1>4. CASE u.tag = "tokens"
  BY <1>1, <1>2, <1>3, <1>4, RepairCrossed DEF ReadKept
<1>5. CASE u.tag # "tokens"
  BY <1>1, <1>3, <1>5, RepairUnmoved DEF ReadKept
<1> QED
  BY <1>4, <1>5

(* A round that begins reads the lists agreed upon.                        *)
LEMMA RepairAfterRefreshBegins ==
    ASSUME AccountsInv, RepairInv, RefreshBegins
    PROVE  RepairInv'
<1>0. PICK rows : rows = [n \in Rows |-> users_eth[n]]
  OBVIOUS
<1>1. /\ refresh' = [ refresh EXCEPT !.read = rows ]
      /\ mark' = [n \in Names |-> IF mark[n] = "calm" THEN "crossed" ELSE mark[n]]
      /\ UNCHANGED <<users_eth, users, updates, handler>>
  BY <1>0 DEF RefreshBegins, update_stage_reads, table, stateVars
<1>2. refresh'.read = rows
  <2>1. refresh = [ alive |-> refresh.alive, read |-> refresh.read ]
    BY DEF AccountsInv, Typed
  <2> QED
    BY <1>1, <2>1
<1>3. mark' \in [Names -> {"none", "calm", "agreed", "crossed"}]
  BY <1>1 DEF RepairInv
<1>4. ASSUME NEW n \in Names, Marked(n)' PROVE Repairing(n)'
  <2>1. mark'[n] = "agreed" /\ mark[n] = "agreed"
    BY <1>1, <1>4 DEF Marked
  <2>2. Marked(n) /\ Repairing(n)
    BY <2>1 DEF Marked, RepairInv
  <2>3. SameFuture(n)
    BY <1>1, <2>2, FutureStays
  <2>4. (\A h \in Handlers : ~Works(h, n)) /\ users_eth[n].tokens = ListOf(Future(n))
    BY <2>1, <2>2 DEF Repairing
  <2>5. n \in DOMAIN refresh'.read => refresh'.read[n].tokens = users_eth'[n].tokens
    BY <1>0, <1>1, <1>2
  <2>6. \A h \in Handlers : ~Works(h, n)'
    BY <1>1, <2>4 DEF Works
  <2> QED
    BY <1>1, <2>1, <2>3, <2>4, <2>5, <2>6 DEF Repairing, SameFuture
<1> QED
  BY <1>3, <1>4 DEF RepairInv, Marked

(* What a round writes back it has read after the call.                    *)
LEMMA RepairAfterRefreshGoesOn ==
    ASSUME AccountsInv, RepairInv, RefreshGoesOn
    PROVE  RepairInv'
<1>1. UNCHANGED <<users, updates, handler, mark>>
  BY DEF RefreshGoesOn, stateVars, serverVars
<1>2. ASSUME NEW n \in Names, Marked(n) PROVE NobodyNew(n) /\ SameFuture(n)
  BY <1>1, <1>2, FutureStays DEF NobodyNew, Works
<1>3. ASSUME update_stage_panics PROVE RepairInv'
  <2>1. users_eth' = users_eth /\ refresh'.read = <<>>
    BY <1>3 DEF update_stage_panics, table
  <2>2. DOMAIN refresh'.read = {}
    BY <2>1
  <2> QED
    BY <1>1, <1>2, <2>1, <2>2, RepairUnmoved DEF ReadKept
<1>4. ASSUME NEW m \in Names, update_stage_writes(m) PROVE RepairInv'
  <2>0. PICK r, rest : /\ r = [ refresh.read[m] EXCEPT !.balanceTokens = refresh.read[m].tokens ]
                       /\ rest = Rest(m)
    OBVIOUS
  <2>1. /\ m \in DOMAIN refresh.read /\ users_eth' = [users_eth EXCEPT ![m] = r]
        /\ refresh' = [ refresh EXCEPT !.read = rest ]
    BY <1>4, <2>0 DEF update_stage_writes
  <2>2. refresh'.read = rest
    <3>1. refresh = [ alive |-> refresh.alive, read |-> refresh.read ]
      BY DEF AccountsInv, Typed
    <3> QED
      BY <2>1, <3>1
  <2>3. r.tokens = refresh.read[m].tokens
    <3>1. refresh.read[m] \in UserEth
      BY <2>1 DEF AccountsInv, AccountsAreOwn
    <3> QED
      BY <2>0, <3>1 DEF UserEth
  <2>4. \A n : ReadKept(n)
    BY <2>0, <2>2 DEF ReadKept, Rest
  <2>5. ASSUME NEW n \in Names, mark[n] = "agreed"
        PROVE  users_eth'[n].tokens = users_eth[n].tokens
    <3>1. CASE n # m
      BY <2>1, <3>1, RowsOfOthers
    <3>2. CASE n = m
      <4>1. Repairing(n)
        BY <2>5 DEF RepairInv
      <4>2. refresh.read[n].tokens = users_eth[n].tokens
        BY <2>1, <2>5, <3>2, <4>1 DEF Repairing
      <4>3. users_eth'[n] = r
        BY <2>1, <3>2 DEF AccountsInv, Typed
      <4> QED
        BY <2>3, <3>2, <4>2, <4>3
    <3> QED
      BY <3>1, <3>2
  <2> QED
    BY <1>1, <1>2, <2>4, <2>5, RepairUnmoved
<1> QED
  BY <1>3, <1>4 DEF RefreshGoesOn

-----------------------------------------------------------------------------
LEMMA RepairInitHolds == AccountsInit => RepairInv
  BY DEF AccountsInit, RepairInv

LEMMA AccountsNextKeepsRepair ==
    AccountsInv /\ RepairInv /\ [AccountsNext]_vars => RepairInv'
<1> SUFFICES ASSUME AccountsInv, RepairInv, [AccountsNext]_vars PROVE RepairInv'
  OBVIOUS
<1>1. CASE UNCHANGED vars
  <2>1. UNCHANGED <<stateVars, serverVars, table, refresh>>
    BY <1>1 DEF vars, adapterVars
  <2> QED
    BY <2>1, RepairAfterPayment
<1>2. CASE AccountsNext
  <2>0. scenario.names \subseteq Names
    BY DEF AccountsInv, Typed, Scenario
  <2>1. ASSUME NEW i \in Invites, gen_invite(i) PROVE RepairInv'
    BY <2>1, RepairAfterGenInvite
  <2>2. ASSUME NEW h \in Handlers, Requests(h) PROVE RepairInv'
    BY <2>0, <2>2, RepairAfterSignupChecks, RepairAfterEnableToken, RepairAfterDisableToken
       DEF Requests
  <2>3. ASSUME NEW h \in Handlers, Server(h) PROVE RepairInv'
    BY <2>3, RepairAfterSignup, RepairAfterSignupSends, RepairAfterPostTokens DEF Server
  <2>4. ASSUME NEW h \in Handlers, call_fails(h) PROVE RepairInv'
    BY <2>4, RepairAfterCallFails
  <2>5. ASSUME NEW n \in Names, get_deposit_address(n) PROVE RepairInv'
    BY <2>5, RepairAfterGetDepositAddress
  <2>6. CASE UpdateApplied \/ UpdateDropped
    BY <2>6, RepairAfterUpdateApplied, RepairAfterUpdateDropped
  <2>7. CASE RefreshBegins \/ RefreshGoesOn
    BY <2>7, RepairAfterRefreshBegins, RepairAfterRefreshGoesOn
  <2>8. CASE (Pay \/ \E n \in Names : Mine(n)) /\ UNCHANGED <<stateVars, serverVars>>
    <3>1. UNCHANGED <<table, refresh>>
      BY <2>8 DEF Pay, transaction_count, send_raw_transaction, send_refused, Mine
    <3> QED
      BY <2>8, <3>1, RepairAfterPayment
  <2> QED
    BY <1>2, <2>1, <2>2, <2>3, <2>4, <2>5, <2>6, <2>7, <2>8 DEF AccountsNext
<1> QED
  BY <1>1, <1>2

(* A call of enable_token that nothing crosses leaves the adapter with the *)
(* tokens State will have, whatever went wrong for that user before, and   *)
(* update_stage writes no older list back.                                 *)
THEOREM SwitchingOnRepairs == AccountsSpec => []EnableRepairs
<1>1. AccountsInv /\ RepairInv => EnableRepairs
  <2> SUFFICES ASSUME AccountsInv, RepairInv, NEW n \in Names, mark[n] = "agreed"
               PROVE  users_eth[n].tokens = ListOf(Upcoming(n))
    BY DEF EnableRepairs
  <2>1. Repairing(n)
    BY DEF RepairInv
  <2>2. Upcoming(n) = Future(n)
    BY <2>1, UpcomingIsFuture DEF AccountsInv, Repairing
  <2> QED
    BY <2>1, <2>2 DEF Repairing
<1> QED
  BY <1>1, AccountsInvariance, RepairInitHolds, AccountsNextKeepsRepair, PTL DEF AccountsSpec
=============================================================================
