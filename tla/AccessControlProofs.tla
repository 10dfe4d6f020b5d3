------------------------- MODULE AccessControlProofs -------------------------
(* Theorems about the rate limiter and about roles, for any limit and window and any *)
(* number of users, keys, tokens and requests.                                       *)
EXTENDS AccessControl, ListsProofs

----------------------------------------------------------------------------
(* Roles *)

\* since when at the latest, until when at the earliest, a user had a role
HeldUntil(u, r, t) == held[u][r] \in Nat /\ held[u][r] + Life >= t

\* What is handed out is never worth more than what the user has or had: an account
\* has its role now, a token one that was held within Life of its expiry.
RolesAreHeld ==
    /\ now \in Nat /\ keys \in Nat
    /\ tokens \subseteq [sub : Users, role : ROLES, exp : Nat]
    /\ users \in [Users -> [role : ROLES, key : Nat] \cup {None}]
    /\ held \in [Users -> [ROLES -> Nat \cup {None}]]
    /\ \A u \in Users : Has(u) => held[u][users[u].role] = now
    /\ \A t \in tokens : HeldUntil(t.sub, t.role, t.exp)
    /\ \A u \in Users, r \in ROLES : held[u][r] # None => held[u][r] <= now
    /\ ServedRoleWasHeld

LEMMA AccessInitially == AccessInit => RolesAreHeld
BY AccessAssumption DEF AccessInit, RolesAreHeld, ServedRoleWasHeld, Has

LEMMA DecidedKeeps ==
  ASSUME RolesAreHeld, NEW id \in [user : Users, role : ROLES], NEW required \in Required,
         HeldUntil(id.user, id.role, now), Decided(id, required)
  PROVE  RolesAreHeld'
<1>1. UNCHANGED <<now, users, keys, tokens, held>>
  BY DEF Decided
<1>2. ASSUME answer' # None, answer'.code = 200 PROVE
         /\ answer'.user = id.user /\ answer'.required = required
         /\ Level[id.role] >= Level[required]
  BY <1>2 DEF Decided, role_sufficient
<1>3. ServedRoleWasHeld'
  BY <1>1, <1>2, AccessAssumption DEF ServedRoleWasHeld, HeldUntil, RolesAreHeld
<1> QED  BY <1>1, <1>3 DEF RolesAreHeld, Has, HeldUntil

LEMMA AccessStep == RolesAreHeld /\ [AccessNext]_accessVars => RolesAreHeld'
<1> SUFFICES ASSUME RolesAreHeld, [AccessNext]_accessVars PROVE RolesAreHeld'
  OBVIOUS
<1> USE AccessAssumption
<1>1. ASSUME NEW u \in Users, delete(u) PROVE RolesAreHeld'
  BY <1>1 DEF delete, RolesAreHeld, ServedRoleWasHeld, Has, HeldUntil
<1>2. ASSUME NEW u \in Users, NEW role \in ROLES, create(u, role) PROVE RolesAreHeld'
  <2>1. held' = [held EXCEPT ![u] = [held[u] EXCEPT ![role] = now]]
    BY <1>2 DEF create
  <2>2. /\ held' \in [Users -> [ROLES -> Nat \cup {None}]]
        /\ held'[u][role] = now
        /\ \A v \in Users, r \in ROLES : v # u \/ r # role => held'[v][r] = held[v][r]
    BY <1>2, <2>1 DEF RolesAreHeld
  <2>3. /\ UNCHANGED <<now, tokens>> /\ answer' = None /\ keys' \in Nat
        /\ users' = [users EXCEPT ![u] = [role |-> role, key |-> keys + 1]]
    BY <1>2 DEF create, RolesAreHeld
  <2>4. \A t \in tokens : HeldUntil(t.sub, t.role, t.exp)'
    BY <2>2, <2>3 DEF RolesAreHeld, HeldUntil
  <2>5. users' \in [Users -> [role : ROLES, key : Nat] \cup {None}]
    BY <2>3 DEF RolesAreHeld
  <2>6. \A v \in Users : Has(v)' => held'[v][users'[v].role] = now
    BY <2>2, <2>3, <2>5 DEF RolesAreHeld, Has
  <2>7. \A v \in Users, r \in ROLES : held'[v][r] # None => held'[v][r] <= now
    BY <2>2 DEF RolesAreHeld
  <2> QED  BY <2>2, <2>3, <2>4, <2>5, <2>6, <2>7 DEF RolesAreHeld, ServedRoleWasHeld
<1>3. ASSUME NEW key \in 1..MaxKeys, exchange_api_key(key) PROVE RolesAreHeld'
  BY <1>3 DEF exchange_api_key, verify, RolesAreHeld, ServedRoleWasHeld, Has, HeldUntil
<1>4. ASSUME NEW key \in 1..MaxKeys, NEW required \in Required, WithKey(key, required)
      PROVE  RolesAreHeld'
  <2>1. PICK u \in verify(key) : Decided([user |-> u, role |-> users[u].role], required)
    BY <1>4 DEF WithKey
  <2>2. u \in Users /\ users[u].role \in ROLES /\ HeldUntil(u, users[u].role, now)
    BY <2>1 DEF verify, RolesAreHeld, HeldUntil, Has
  <2> QED  BY <1>4, <2>1, <2>2, DecidedKeeps
<1>5. ASSUME NEW token \in tokens, NEW required \in Required, WithToken(token, required)
      PROVE  RolesAreHeld'
  <2>1. /\ token.exp > now
        /\ Decided([user |-> token.sub, role |-> token.role], required)
    BY <1>5 DEF WithToken, decode_jwt
  <2>2. token.sub \in Users /\ token.role \in ROLES /\ HeldUntil(token.sub, token.role, now)
    BY <2>1 DEF RolesAreHeld, HeldUntil
  <2> QED  BY <1>5, <2>1, <2>2, DecidedKeeps
<1>6. CASE Tick
  BY <1>6 DEF Tick, RolesAreHeld, ServedRoleWasHeld, Has, HeldUntil
<1>7. CASE RestartServer
  BY <1>7 DEF RestartServer, RolesAreHeld, ServedRoleWasHeld, Has, HeldUntil
<1>8. CASE UNCHANGED accessVars
  BY <1>8 DEF accessVars, RolesAreHeld, ServedRoleWasHeld, Has, HeldUntil
<1> QED  BY <1>1, <1>2, <1>3, <1>4, <1>5, <1>6, <1>7, <1>8 DEF AccessNext

\* Whatever accounts are deleted and created anew and whatever keys and tokens are about,
\* nobody is served for a role given up longer than the life of a token ago.
THEOREM RolesExpire == AccessSpec => []ServedRoleWasHeld
<1>1. RolesAreHeld => ServedRoleWasHeld
  BY DEF RolesAreHeld
<1> QED  BY AccessInitially, AccessStep, <1>1, PTL DEF AccessSpec

----------------------------------------------------------------------------
(* The rate limiter *)

\* The hits h of a user at time t are the last of the times g the limiter let them pass,
\* in order; the times that are no longer among the hits are out of the window for good.
Slides(g, h, t) ==
    /\ g \in Seq(Nat) /\ h \in Seq(Nat)
    /\ Len(h) <= Len(g) /\ Len(h) <= Limit
    /\ \A i \in 1..Len(g) : g[i] <= t
    /\ \A i, j \in 1..Len(g) : i <= j => g[i] <= g[j]
    /\ \A i \in 1..Len(h) : h[i] = g[Len(g) - Len(h) + i]
    /\ \A i \in 1..(Len(g) - Len(h)) : g[i] + Window <= t
    /\ \A i \in 1..Len(g) : i + Limit <= Len(g) => g[i + Limit] - g[i] >= Window

LimiterInv ==
    /\ now \in Nat
    /\ DOMAIN hits = Users /\ DOMAIN grants = Users
    /\ \A u \in Users : Slides(grants[u], hits[u], now)
    /\ ThrottledOnlyAtLimit

\* The hits after the first k are in the window at time t, those until then are not.
ExpiredUntil(k, h, t) ==
    /\ k \in 0..Len(h)
    /\ \A i \in 1..k : h[i] + Window <= t
    /\ \A i \in 1..Len(h) : i > k => h[i] + Window > t

\* r is what is left of h without the first k.
IsRest(r, h, k) ==
    /\ r \in Seq(Nat)
    /\ Len(r) = Len(h) - k
    /\ \A j \in 1..(Len(h) - k) : r[j] = h[k + j]

\* Hits are in order, so what is recent is the end of them.
LEMMA RecentIsTheRest ==
  ASSUME NEW t \in Nat, NEW g, NEW h, Slides(g, h, t)
  PROVE  \E k : /\ ExpiredUntil(k, h, t)
                /\ IsRest(Kept(h, {x \in 0..t : x + Window > t}), h, k)
<1> DEFINE n == Len(g)  m == Len(h)
<1>1. /\ n \in Nat /\ m \in Nat /\ m <= n
      /\ \A i \in 1..n : g[i] \in Nat /\ g[i] <= t
      /\ \A i, j \in 1..n : i <= j => g[i] <= g[j]
      /\ \A i \in 1..m : h[i] = g[n - m + i] /\ h[i] \in Nat
      /\ h \in Seq(Nat) /\ Window \in Nat
  <2>1. Window \in Nat /\ g \in Seq(Nat) /\ h \in Seq(Nat)
    BY AccessAssumption DEF Slides
  <2>2. n \in Nat /\ m \in Nat /\ (\A i \in 1..n : g[i] \in Nat) /\ \A i \in 1..m : h[i] \in Nat
    BY <2>1
  <2>3. /\ m <= n
        /\ \A i \in 1..n : g[i] <= t
        /\ \A i, j \in 1..n : i <= j => g[i] <= g[j]
        /\ \A i \in 1..m : h[i] = g[n - m + i]
    BY DEF Slides
  <2> QED  BY <2>1, <2>2, <2>3
<1>2. m = Len(h)
  OBVIOUS
<1> HIDE DEF n, m
<1> DEFINE E == {i \in 0..m : i = m \/ h[i + 1] + Window > t}
           T == {x \in 0..t : x + Window > t}
<1>3. \A i \in 1..m : n - m + i \in 1..n
  BY <1>1
<1>4. /\ \A i \in 1..m : h[i] <= t
      /\ \A i, j \in 1..m : i <= j => h[i] <= h[j]
  <2>1. ASSUME NEW i \in 1..m PROVE h[i] <= t
    BY <1>1, <1>3
  <2>2. ASSUME NEW i \in 1..m, NEW j \in 1..m, i <= j PROVE h[i] <= h[j]
    <3>1. n - m + i \in 1..n /\ n - m + j \in 1..n /\ n - m + i <= n - m + j
      BY <1>1, <1>3, <2>2
    <3>2. g[n - m + i] <= g[n - m + j]
      BY <1>1, <3>1
    <3> QED  BY <1>1, <3>2
  <2> QED  BY <2>1, <2>2
<1>5. E \subseteq Nat /\ m \in E
  BY <1>1
<1>6. PICK k \in E : \A i \in E : k <= i
  <2> HIDE DEF E
  <2> QED  BY <1>5, Least
<1>7. k \in 0..m /\ k \in Nat /\ (k = m \/ h[k + 1] + Window > t)
  BY <1>1
<1>8. ASSUME NEW i \in 1..k PROVE h[i] + Window <= t
  <2>1. i \in 1..m /\ i \in Nat /\ i - 1 \in 0..m /\ ~(k <= i - 1) /\ i - 1 + 1 = i
    BY <1>1, <1>7
  <2>2. i - 1 \notin E
    <3> HIDE DEF E
    <3> QED  BY <1>6, <2>1
  <2>3. ~(h[i] + Window > t)
    BY <2>1, <2>2
  <2> QED  BY <1>1, <2>1, <2>3
<1>9. ASSUME NEW i \in 1..m, i > k PROVE h[i] + Window > t
  <2>1. k + 1 \in 1..m /\ k # m /\ k + 1 <= i
    BY <1>1, <1>7, <1>9
  <2> HIDE DEF E, T
  <2>2. h[k + 1] + Window > t
    BY <1>7, <2>1
  <2>3. h[k + 1] <= h[i]
    BY <1>4, <2>1
  <2>4. h[k + 1] \in Nat /\ h[i] \in Nat /\ Window \in Nat
    BY <1>1, <2>1
  <2> QED  BY <2>2, <2>3, <2>4
<1>10. ExpiredUntil(k, h, t)
  BY <1>2, <1>7, <1>8, <1>9 DEF ExpiredUntil
<1>11. \A i \in 1..m : h[i] \in T <=> i > k
  <2> SUFFICES ASSUME NEW i \in 1..m PROVE h[i] \in T <=> i > k
    OBVIOUS
  <2>1. h[i] \in 0..t /\ i \in Nat
    BY <1>1, <1>4
  <2>2. CASE i > k
    BY <1>9, <2>1, <2>2
  <2>3. CASE i <= k
    <3>1. h[i] + Window <= t
      BY <1>8, <2>3
    <3> QED  BY <1>1, <1>7, <2>1, <2>3, <3>1
  <2> QED  BY <1>7, <2>1, <2>2, <2>3
<1> HIDE DEF T, E
<1>12. IsRest(Kept(h, T), h, k)
  <2>0. h \in Seq(Nat) /\ k \in 0..Len(h) /\ \A i \in 1..Len(h) : h[i] \in T <=> i > k
    BY <1>1, <1>2, <1>7, <1>11
  <2>1. /\ Kept(h, T) \in Seq(Nat)
        /\ Len(Kept(h, T)) = Len(h) - k
        /\ \A j \in 1..(Len(h) - k) : Kept(h, T)[j] = h[k + j]
    BY <2>0, KeptIsSuffix
  <2> QED  BY <2>1 DEF IsRest
<1> QED  BY <1>10, <1>12 DEF T

\* Who passes has one more grant and one more hit: the grants that are not among the
\* hits any more are those that were not before, and the expired hits.
LEMMA GrantSlides ==
  ASSUME NEW t \in Nat, NEW g, NEW h, Slides(g, h, t), NEW k, ExpiredUntil(k, h, t),
         NEW r, IsRest(r, h, k), Len(r) < Limit
  PROVE  Slides(Append(g, t), Append(r, t), t)
<1> DEFINE n == Len(g)  m == Len(h)  G == Append(g, t)  H == Append(r, t)
<1>1. /\ n \in Nat /\ m \in Nat /\ m <= n /\ k \in Nat /\ k <= m /\ m - k < Limit
      /\ Limit \in Nat /\ Window \in Nat
  BY AccessAssumption DEF Slides, ExpiredUntil, IsRest
<1>2. /\ \A i \in 1..n : g[i] \in Nat /\ g[i] <= t
      /\ \A i, j \in 1..n : i <= j => g[i] <= g[j]
      /\ \A i \in 1..m : h[i] = g[n - m + i]
      /\ \A i \in 1..(n - m) : g[i] + Window <= t
      /\ \A i \in 1..n : i + Limit <= n => g[i + Limit] - g[i] >= Window
  BY DEF Slides
<1>3. /\ \A i \in 1..k : h[i] + Window <= t
      /\ \A i \in 1..(m - k) : r[i] = h[k + i]
  BY DEF ExpiredUntil, IsRest
<1>4. G \in Seq(Nat) /\ Len(G) = n + 1 /\ G[n + 1] = t /\ \A i \in 1..n : G[i] = g[i]
  BY DEF Slides
<1>5. r \in Seq(Nat) /\ Len(r) = m - k
  BY DEF IsRest
<1>6. H \in Seq(Nat) /\ Len(H) = m - k + 1 /\ H[m - k + 1] = t /\ \A i \in 1..(m - k) : H[i] = r[i]
  BY <1>5
<1> HIDE DEF n, m, G, H
<1>7. n + 1 - (m - k + 1) = n - m + k /\ n - m + k <= n /\ n - m \in Nat
  BY <1>1
<1>8. ASSUME NEW i \in 1..(n - m + k) PROVE i \in 1..n /\ g[i] + Window <= t
  <2>1. i \in 1..n
    BY <1>1
  <2>2. CASE i \in 1..(n - m)
    BY <1>2, <2>1, <2>2
  <2>3. CASE i > n - m
    <3> DEFINE j == i - (n - m)
    <3>1. j \in 1..k /\ j \in 1..m /\ n - m + j = i
      BY <1>1, <2>3
    <3> HIDE DEF j
    <3> QED  BY <1>2, <1>3, <2>1, <3>1
  <2> QED  BY <1>1, <2>2, <2>3
<1>9. ASSUME NEW i \in 1..(m - k + 1) PROVE H[i] = G[n - m + k + i]
  <2>1. CASE i = m - k + 1
    <3>1. n - m + k + i = n + 1
      BY <1>1, <2>1
    <3> QED  BY <1>4, <1>6, <2>1, <3>1
  <2>2. CASE i \in 1..(m - k)
    <3>1. k + i \in 1..m /\ n - m + (k + i) = n - m + k + i
      BY <1>1, <2>2
    <3>2. n - m + k + i \in 1..n
      BY <1>1, <2>2
    <3>3. H[i] = h[k + i]
      BY <1>3, <1>6, <2>2
    <3>4. h[k + i] = g[n - m + (k + i)]
      BY <1>2, <3>1
    <3>5. H[i] = g[n - m + k + i]
      BY <3>1, <3>3, <3>4
    <3>6. G[n - m + k + i] = g[n - m + k + i]
      BY <1>4, <3>2
    <3> QED  BY <3>5, <3>6
  <2>3. i = m - k + 1 \/ i \in 1..(m - k)
    BY <1>1
  <2> QED  BY <2>1, <2>2, <2>3
<1>10. \A i \in 1..(n + 1) : i = n + 1 \/ i \in 1..n
  BY <1>1
<1>11. \A i \in 1..(n + 1) : G[i] <= t
  BY <1>2, <1>4, <1>10
<1>12. ASSUME NEW i \in 1..(n + 1), NEW j \in 1..(n + 1), i <= j PROVE G[i] <= G[j]
  <2>1. CASE j = n + 1
    BY <1>4, <1>11, <2>1
  <2>2. CASE j \in 1..n
    <3>1. i \in 1..n
      BY <1>1, <1>12, <2>2
    <3> QED  BY <1>2, <1>4, <1>12, <2>2, <3>1
  <2> QED  BY <1>10, <2>1, <2>2
<1>13. ASSUME NEW i \in 1..(n + 1), i + Limit <= n + 1 PROVE G[i + Limit] - G[i] >= Window
  <2>1. i \in 1..n /\ G[i] = g[i] /\ g[i] \in Nat
    <3>1. i \in 1..n
      BY <1>1, <1>13
    <3> QED  BY <1>2, <1>4, <3>1
  <2>2. CASE i + Limit = n + 1
    <3>1. i \in 1..(n - m + k)
      BY <1>1, <2>1, <2>2
    <3>2. g[i] + Window <= t
      BY <1>8, <3>1
    <3>3. G[i + Limit] = t
      BY <1>4, <2>2
    <3> QED  BY <1>1, <2>1, <3>2, <3>3
  <2>3. CASE i + Limit # n + 1
    <3>1. i + Limit <= n /\ i + Limit \in 1..n
      BY <1>1, <1>13, <2>1, <2>3
    <3> QED  BY <1>2, <1>4, <2>1, <3>1
  <2> QED  BY <2>2, <2>3
<1>14. Len(H) <= Len(G) /\ Len(H) <= Limit /\ Len(G) - Len(H) = n - m + k
  BY <1>1, <1>4, <1>6, <1>7
<1>15. \A i \in 1..(n - m + k) : G[i] + Window <= t
  BY <1>4, <1>8
<1>16. Slides(G, H, t)
  BY <1>4, <1>6, <1>9, <1>11, <1>12, <1>13, <1>14, <1>15 DEF Slides
<1> QED  BY <1>16 DEF G, H

\* Who is throttled has Limit hits, all of them in the window.
LEMMA RefusalSlides ==
  ASSUME NEW t \in Nat, NEW g, NEW h, Slides(g, h, t), NEW k, ExpiredUntil(k, h, t),
         NEW r, IsRest(r, h, k), ~(Len(r) < Limit)
  PROVE  /\ r = h
         /\ Limit > 0 => Len(g) >= Limit /\ g[Len(g) - Limit + 1] + Window > t
<1> DEFINE n == Len(g)  m == Len(h)
<1>1. /\ n \in Nat /\ m \in Nat /\ m <= n /\ k \in Nat /\ k <= m /\ ~(m - k < Limit)
      /\ m <= Limit /\ Limit \in Nat /\ Window \in Nat
  BY AccessAssumption DEF Slides, ExpiredUntil, IsRest
<1>2. k = 0 /\ m = Limit
  BY <1>1
<1>3. r \in Seq(Nat) /\ h \in Seq(Nat) /\ Len(r) = m /\ Len(h) = m /\ \A i \in 1..m : r[i] = h[i]
  BY <1>1, <1>2 DEF IsRest, Slides
<1>4. r = h
  <2> HIDE DEF m
  <2> QED  BY <1>1, <1>3
<1>5. ASSUME Limit > 0 PROVE n >= Limit /\ g[n - Limit + 1] + Window > t
  <2>1. 1 \in 1..m /\ 1 > k
    BY <1>1, <1>2, <1>5
  <2>2. h[1] + Window > t /\ h[1] = g[n - m + 1]
    BY <2>1 DEF Slides, ExpiredUntil
  <2> QED  BY <1>1, <1>2, <2>2
<1> QED  BY <1>4, <1>5

LEMMA LimiterInitially == AccessInit => LimiterInv
BY AccessAssumption DEF AccessInit, LimiterInv, Slides, ThrottledOnlyAtLimit

LEMMA DecidedKeepsLimit ==
  ASSUME LimiterInv, NEW id, id.user \in Users, NEW required, Decided(id, required)
  PROVE  LimiterInv'
<1> DEFINE u == id.user
<1>1. /\ now' = now /\ now \in Nat
      /\ DOMAIN hits' = Users /\ DOMAIN grants' = Users
      /\ \A v \in Users : v # u => hits'[v] = hits[v] /\ grants'[v] = grants[v]
  BY DEF Decided, LimiterInv
<1>2. Slides(grants[u], hits[u], now)
  BY DEF LimiterInv
<1>3. PICK k : ExpiredUntil(k, hits[u], now) /\ IsRest(Recent(u), hits[u], k)
  BY <1>1, <1>2, RecentIsTheRest DEF Recent
<1>4. \A v \in Users : v # u => Slides(grants[v], hits[v], now)'
  BY <1>1 DEF LimiterInv
<1>5. CASE allow(u)
  <2>1. hits'[u] = Append(Recent(u), now) /\ grants'[u] = Append(grants[u], now)
    BY <1>5 DEF Decided, LimiterInv
  <2>2. Slides(grants[u], hits[u], now)'
    BY <1>1, <1>2, <1>3, <1>5, <2>1, GrantSlides DEF allow
  <2>3. answer'.code # 429
    BY <1>5 DEF Decided
  <2>4. ThrottledOnlyAtLimit'
    BY <2>3 DEF ThrottledOnlyAtLimit
  <2> QED  BY <1>1, <1>4, <2>2, <2>4 DEF LimiterInv
<1>6. CASE ~allow(u)
  <2>1. hits'[u] = Recent(u) /\ grants'[u] = grants[u] /\ answer'.user = u
    BY <1>6 DEF Decided, LimiterInv
  <2>2. /\ Recent(u) = hits[u]
        /\ Limit > 0 => /\ Len(grants[u]) >= Limit
                        /\ grants[u][Len(grants[u]) - Limit + 1] + Window > now
    BY <1>1, <1>2, <1>3, <1>6, RefusalSlides DEF allow
  <2>3. Slides(grants[u], hits[u], now)'
    BY <1>1, <1>2, <2>1, <2>2
  <2>4. ThrottledOnlyAtLimit'
    BY <1>1, <2>1, <2>2 DEF ThrottledOnlyAtLimit
  <2> QED  BY <1>1, <1>4, <2>3, <2>4 DEF LimiterInv
<1> QED  BY <1>5, <1>6

\* Steps that leave the limiter alone, and time, which expires more.
LEMMA OthersKeepLimit ==
  ASSUME LimiterInv, now' \in Nat, now' >= now, answer' = None \/ UNCHANGED answer,
         now' = now \/ answer' = None, UNCHANGED <<hits, grants>>
  PROVE  LimiterInv'
<1>1. ASSUME NEW u \in Users PROVE Slides(grants[u], hits[u], now)'
  <2> DEFINE g == grants[u]  h == hits[u]
  <2>1. Slides(g, h, now) /\ now \in Nat /\ Window \in Nat
    BY AccessAssumption DEF LimiterInv
  <2> HIDE DEF g, h
  <2>2. Len(g) \in Nat /\ Len(h) \in Nat /\ \A i \in 1..Len(g) : g[i] \in Nat
    BY <2>1 DEF Slides
  <2>3. \A i \in 1..(Len(g) - Len(h)) : i \in 1..Len(g)
    BY <2>2
  <2>4. /\ \A i \in 1..Len(g) : g[i] <= now'
        /\ \A i \in 1..(Len(g) - Len(h)) : g[i] + Window <= now'
    <3>1. /\ \A i \in 1..Len(g) : g[i] <= now
          /\ \A i \in 1..(Len(g) - Len(h)) : g[i] + Window <= now
      BY <2>1 DEF Slides
    <3> QED  BY <2>1, <2>2, <2>3, <3>1
  <2>5. Slides(g, h, now')
    BY <2>1, <2>4 DEF Slides
  <2> QED  BY <2>5 DEF g, h
<1>2. ThrottledOnlyAtLimit'
  BY DEF ThrottledOnlyAtLimit, LimiterInv
<1> QED  BY <1>1, <1>2 DEF LimiterInv

LEMMA LimiterStep == LimiterInv /\ RolesAreHeld /\ [AccessNext]_accessVars => LimiterInv'
<1> SUFFICES ASSUME LimiterInv, RolesAreHeld, [AccessNext]_accessVars PROVE LimiterInv'
  OBVIOUS
<1>0. now \in Nat /\ now >= now
  BY DEF LimiterInv
<1>1. ASSUME NEW u \in Users, delete(u) PROVE LimiterInv'
  BY <1>0, <1>1, OthersKeepLimit DEF delete
<1>2. ASSUME NEW u \in Users, NEW role \in ROLES, create(u, role) PROVE LimiterInv'
  BY <1>0, <1>2, OthersKeepLimit DEF create
<1>3. ASSUME NEW key \in 1..MaxKeys, exchange_api_key(key) PROVE LimiterInv'
  BY <1>0, <1>3, OthersKeepLimit DEF exchange_api_key
<1>4. ASSUME NEW key \in 1..MaxKeys, NEW required \in Required, WithKey(key, required)
      PROVE  LimiterInv'
  <2>1. PICK u \in verify(key) : Decided([user |-> u, role |-> users[u].role], required)
    BY <1>4 DEF WithKey
  <2>2. u \in Users
    BY DEF verify
  <2> QED  BY <2>1, <2>2, DecidedKeepsLimit
<1>5. ASSUME NEW token \in tokens, NEW required \in Required, WithToken(token, required)
      PROVE  LimiterInv'
  <2>1. Decided([user |-> token.sub, role |-> token.role], required)
    BY <1>5 DEF WithToken, decode_jwt
  <2>2. token.sub \in Users
    BY DEF RolesAreHeld
  <2> QED  BY <2>1, <2>2, DecidedKeepsLimit
<1>6. CASE Tick
  BY <1>0, <1>6, OthersKeepLimit DEF Tick
<1>7. CASE RestartServer
  <2>1. /\ UNCHANGED now /\ answer' = None
        /\ DOMAIN hits' = Users /\ DOMAIN grants' = Users
        /\ \A u \in Users : hits'[u] = <<>> /\ grants'[u] = <<>>
    BY <1>7 DEF RestartServer
  <2>2. Slides(<<>>, <<>>, now)
    BY AccessAssumption DEF Slides
  <2>3. \A u \in Users : Slides(grants[u], hits[u], now)'
    BY <2>1, <2>2
  <2> QED  BY <1>0, <2>1, <2>3 DEF LimiterInv, ThrottledOnlyAtLimit
<1>8. CASE UNCHANGED accessVars
  BY <1>0, <1>8, OthersKeepLimit DEF accessVars
<1> QED  BY <1>1, <1>2, <1>3, <1>4, <1>5, <1>6, <1>7, <1>8 DEF AccessNext

\* However a user mixes keys and tokens and whatever else happens, no interval of Window
\* sees more than Limit of their requests pass: for any limit, window and users.
THEOREM WindowHolds == AccessSpec => []WindowNeverExceeded
<1>1. LimiterInv => WindowNeverExceeded
  BY DEF LimiterInv, Slides, WindowNeverExceeded
<1> QED  BY AccessInitially, AccessStep, LimiterInitially, LimiterStep, <1>1, PTL DEF AccessSpec

\* Nobody is throttled who has not passed Limit times within the window.
THEOREM ThrottlingIsEarned == AccessSpec => []ThrottledOnlyAtLimit
<1>1. LimiterInv => ThrottledOnlyAtLimit
  BY DEF LimiterInv
<1> QED  BY AccessInitially, AccessStep, LimiterInitially, LimiterStep, <1>1, PTL DEF AccessSpec
=============================================================================
