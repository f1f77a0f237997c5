---------------------------- MODULE SessionProofs ----------------------------
(***************************************************************************)
(* Theorems about Session, for any number of callers and any lengths the   *)
(* assumption allows.                                                      *)
(*                                                                         *)
(* Until something excuses the session's end, every token on its way to    *)
(* the database outlives the request that carries it.  The invariant bounds *)
(* when each request of a post, a stream or a download may have gone out   *)
(* by the age of the token it presents: a fresh one, one shared refresh    *)
(* old, or, for a post, as many delays older as it was sent again.         *)
(***************************************************************************)
EXTENDS Session, TLAPS

TokenRecord == [issued: Nat, gen: Nat]
Reply == {NoReply} \cup [kind: {"token"}, token: TokenRecord] \cup [kind: {"refused", "failed"}]
Refresh == [token: TokenRecord, since: Nat, reply: Reply]
CallerRecord ==
  [at: {"idle", "waiting", "sent", "taken", "refused", "resting", "open"},
   kind: {"post", "stream", "download"}, since: Nat, tries: Nat, late: BOOLEAN,
   presents: TokenRecord]

SessionTypeOK ==
  /\ time \in Nat /\ generation \in Nat /\ newest \in Nat /\ mishaps \in Nat
  /\ token \in TokenRecord
  /\ ended \in BOOLEAN /\ excused \in BOOLEAN
  /\ refreshes \subseteq Refresh
  /\ caller \in [Callers -> CallerRecord]

\* One refresh is in flight, for the token the session has, and what it brings
\* is newer.
RefreshHolds ==
  /\ \A r, s \in refreshes : r = s
  /\ \A r \in refreshes :
       /\ r.token = token
       /\ r.reply.kind = "token" =>
            token.issued <= r.reply.token.issued /\ r.reply.token.issued <= time

NewestHolds == HoldsTheNewest /\ newest <= time

\* A refresh began while its token would outlive it, and can bring only a token.
RefreshInTime(r) ==
  /\ r.since <= time /\ time <= r.since + Delay
  /\ r.since + Delay <= Expiry(token)
  /\ r.reply.kind \in {"none", "token"}
  /\ r.reply.kind = "token" => r.reply.token.gen = generation /\ r.since <= r.reply.token.issued

\* The latest a post goes out with its n-th retry, by the age of the session's
\* token t.
PostDue(t, n) == t.issued + RefreshAfter + 2 * (n * Delay)

\* A request presents a token that outlives it, and rests, retries and the
\* stream's end keep to the age of the session's token t.
InTime(k, now, t, gen) ==
  /\ k.at # "refused"
  /\ k.presents.issued <= t.issued
  /\ k.tries <= SendRetries
  /\ k.at = "waiting" => k.kind # "download" /\ k.tries = 0
  /\ k.at \in {"sent", "taken", "resting"} => k.since <= now /\ now <= k.since + Delay
  /\ k.at = "sent" => k.presents.gen = gen /\ k.since + Delay <= Expiry(k.presents)
  /\ k.at \in {"sent", "taken"} =>
       /\ k.kind = "post" => k.since <= PostDue(t, k.tries)
       /\ k.kind = "stream" => k.since + 2 * Delay <= Expiry(k.presents)
  /\ k.at = "resting" =>
       /\ k.kind = "post" /\ k.tries > 0
       /\ k.since <= PostDue(t, k.tries - 1) + Delay
  /\ k.at = "open" => now + Delay <= Expiry(k.presents)

UntilExcused ==
  ~excused =>
    /\ ~ended
    /\ token.gen = generation
    /\ \A r \in refreshes : RefreshInTime(r)
    /\ \A c \in Callers : InTime(caller[c], time, token, generation)

SessionInv == SessionTypeOK /\ RefreshHolds /\ NewestHolds /\ UntilExcused

-----------------------------------------------------------------------------
(* The lengths: n retries take no more than all of them, and the last ends  *)
(* before the token does.                                                   *)

LEMMA RetryTimes ==
  /\ \A n \in Nat : n * Delay \in Nat /\ (n + 1) * Delay = n * Delay + Delay
  /\ \A n \in Nat : n <= SendRetries => n * Delay <= SendRetries * Delay
  /\ RefreshAfter + 2 * (SendRetries * Delay) + Delay <= TokenLife
  /\ Delay <= SendRetries * Delay
<1> Delay \in Nat /\ SendRetries \in Nat /\ SendRetries > 0
  BY SessionAssumption
<1>1. \A n \in Nat : n * Delay \in Nat /\ (n + 1) * Delay = n * Delay + Delay
  OBVIOUS
<1>2. ASSUME NEW n \in Nat, NEW m \in Nat, n <= m
      PROVE  n * Delay <= m * Delay
  <2>1. m - n \in Nat /\ m * Delay = n * Delay + (m - n) * Delay
    BY <1>2
  <2>2. (m - n) * Delay \in Nat /\ n * Delay \in Nat
    BY <2>1
  <2>3. QED
    BY <2>1, <2>2
<1>3. (2 * SendRetries + 1) * Delay = 2 * (SendRetries * Delay) + Delay
  OBVIOUS
<1>4. RefreshAfter + 2 * (SendRetries * Delay) + Delay <= TokenLife
  BY <1>3, SessionAssumption
<1>5. 1 * Delay <= SendRetries * Delay
  BY <1>2
<1>6. QED
  BY <1>1, <1>2, <1>4, <1>5

-----------------------------------------------------------------------------
(* The steps.                                                              *)

LEMMA SessionInitHolds == SessionInit => SessionInv
<1> SUFFICES ASSUME SessionInit PROVE SessionInv
  OBVIOUS
<1> USE DEF SessionInit, IdleCaller, NoToken, TokenRecord
<1>1. SessionTypeOK
  BY SessionAssumption DEF SessionTypeOK, CallerRecord
<1>2. RefreshHolds /\ NewestHolds
  BY SessionAssumption DEF RefreshHolds, NewestHolds, HoldsTheNewest
<1>3. ASSUME NEW c \in Callers PROVE InTime(caller[c], time, token, generation)
  BY SessionAssumption DEF InTime
<1>4. QED
  BY <1>1, <1>2, <1>3 DEF SessionInv, UntilExcused

\* A refresh starts, or the one in flight is shared: unless it starts too late,
\* it has its time.
LEMMA RefreshStarts ==
  ASSUME SessionInv, StartsRefresh, UNCHANGED <<time, generation, token>>
  PROVE  /\ refreshes' \subseteq Refresh /\ excused' \in BOOLEAN
         /\ RefreshHolds'
         /\ excused => excused'
         /\ ~excused' => \A r \in refreshes' : RefreshInTime(r)'
<1> DEFINE new == [token |-> token, since |-> time, reply |-> NoReply]
<1>1. /\ token.issued \in Nat /\ token \in TokenRecord /\ time \in Nat /\ excused \in BOOLEAN
      /\ refreshes \subseteq Refresh
      /\ Delay \in Nat /\ TokenLife \in Nat
  BY SessionAssumption DEF SessionInv, SessionTypeOK, TokenRecord
<1>2. CASE refreshes # {}
  BY <1>1, <1>2 DEF StartsRefresh, SessionInv, RefreshHolds, UntilExcused, RefreshInTime, Expiry
<1>3. CASE refreshes = {}
  <2>1. refreshes' = {new} /\ (excused' = IF Expiry(token) < time + Delay THEN TRUE ELSE excused)
    BY <1>3 DEF StartsRefresh
  <2>2. new \in Refresh /\ new.token = token /\ new.since = time /\ new.reply.kind = "none"
    BY <1>1 DEF Refresh, Reply, NoReply
  <2>3. RefreshHolds'
    BY <2>1, <2>2 DEF RefreshHolds
  <2>4. ~excused' => RefreshInTime(new)'
    BY <1>1, <2>1, <2>2 DEF RefreshInTime, Expiry
  <2>5. QED
    BY <1>1, <2>1, <2>2, <2>3, <2>4
<1>4. QED
  BY <1>2, <1>3

\* What a call is, with the token it presents.
LEMMA SentCaller ==
  ASSUME NEW k \in CallerRecord, NEW t \in TokenRecord, time \in Nat
  PROVE  /\ Sent(k, t) \in CallerRecord
         /\ Sent(k, t).at = "sent" /\ Sent(k, t).since = time /\ Sent(k, t).presents = t
         /\ Sent(k, t).kind = k.kind /\ Sent(k, t).tries = k.tries
BY DEF Sent, CallerRecord

LEMMA IdleIsInTime ==
  ASSUME NEW now \in Nat, NEW t \in TokenRecord, NEW gen
  PROVE  IdleCaller \in CallerRecord /\ InTime(IdleCaller, now, t, gen)
BY SessionAssumption DEF IdleCaller, NoToken, CallerRecord, TokenRecord, InTime

\* One caller changes, and what the others were in time for has not.
LEMMA OneCallerChanges ==
  ASSUME SessionInv, UNCHANGED <<time, generation, token>>,
         NEW c \in Callers, NEW k \in CallerRecord, caller' = [caller EXCEPT ![c] = k],
         ~excused => InTime(k, time, token, generation)
  PROVE  /\ caller' \in [Callers -> CallerRecord]
         /\ ~excused => \A d \in Callers : InTime(caller'[d], time', token', generation')
<1>1. caller \in [Callers -> CallerRecord]
  BY DEF SessionInv, SessionTypeOK
<1>2. ~excused => \A d \in Callers : InTime(caller[d], time, token, generation)
  BY DEF SessionInv, UntilExcused
<1>3. \A d \in Callers : caller'[d] = IF d = c THEN k ELSE caller[d]
  BY <1>1
<1>4. QED
  BY <1>1, <1>2, <1>3

LEMMA CallBeginsKeeps ==
  ASSUME SessionInv, NEW c \in Callers, NEW kind \in {"post", "stream"}, CallBegins(c, kind)
  PROVE  SessionInv'
<1> USE DEF CallBegins
<1> DEFINE k == [IdleCaller EXCEPT !.kind = kind]
<1>1. /\ token.issued \in Nat /\ token \in TokenRecord /\ time \in Nat /\ excused \in BOOLEAN
      /\ Delay \in Nat /\ TokenLife \in Nat /\ RefreshAfter \in Nat
  BY SessionAssumption DEF SessionInv, SessionTypeOK, TokenRecord
<1>2. k \in CallerRecord /\ k.tries = 0 /\ k.kind = kind /\ k.presents.issued = 0
  BY DEF CallerRecord, IdleCaller, NoToken, TokenRecord
<1>3. /\ refreshes' \subseteq Refresh /\ excused' \in BOOLEAN /\ RefreshHolds'
      /\ excused => excused'
      /\ ~excused' => \A r \in refreshes' : RefreshInTime(r)'
  <2>1. CASE IsDue(token)
    BY <2>1, RefreshStarts
  <2>2. CASE ~IsDue(token)
    BY <2>2 DEF SessionInv, SessionTypeOK, RefreshHolds, UntilExcused, RefreshInTime, Expiry
  <2>3. QED
    BY <2>1, <2>2
<1>4. PICK k2 \in CallerRecord : /\ caller' = [caller EXCEPT ![c] = k2]
                                 /\ ~excused => InTime(k2, time, token, generation)
  <2>1. CASE IsDue(token)
    <3> DEFINE w == [k EXCEPT !.at = "waiting", !.late = time >= Expiry(token)]
    <3>1. w \in CallerRecord /\ w.at = "waiting" /\ w.kind = kind /\ w.tries = 0 /\ w.presents.issued = 0
      <4>1. ASSUME NEW late \in BOOLEAN
            PROVE  LET l == [k EXCEPT !.at = "waiting", !.late = late]
                   IN  /\ l \in CallerRecord /\ l.at = "waiting" /\ l.kind = kind
                       /\ l.tries = 0 /\ l.presents.issued = 0
        BY <1>2 DEF CallerRecord
      <4>2. (time >= Expiry(token)) \in BOOLEAN
        OBVIOUS
      <4>3. QED
        BY <4>1, <4>2, Zenon
    <3>2. InTime(w, time, token, generation)
      BY <1>1, <3>1, SessionAssumption DEF InTime
    <3>3. caller' = [caller EXCEPT ![c] = w]
      BY <2>1
    <3>4. QED
      BY <3>1, <3>2, <3>3
  <2>2. CASE ~IsDue(token)
    <3> DEFINE s == Sent(k, token)
    <3>1. /\ s \in CallerRecord /\ s.at = "sent" /\ s.kind = kind /\ s.tries = 0
          /\ s.presents = token /\ s.since = time
      BY <1>1, <1>2, SentCaller
    <3>2. time < token.issued + RefreshAfter
      BY <1>1, <2>2 DEF IsDue
    <3>3. time + 2 * Delay <= Expiry(token)
      BY <1>1, <3>2, RetryTimes, SessionAssumption DEF Expiry
    <3>4. time <= PostDue(token, 0) /\ SendRetries \in Nat
      BY <1>1, <3>2, SessionAssumption DEF PostDue
    <3>5. ~excused => token.gen = generation
      BY DEF SessionInv, UntilExcused
    <3>6. ~excused => InTime(s, time, token, generation)
      BY <1>1, <3>1, <3>3, <3>4, <3>5 DEF InTime, Expiry
    <3>7. caller' = [caller EXCEPT ![c] = s]
      BY <2>2
    <3>8. QED
      BY <3>1, <3>6, <3>7
  <2>3. QED
    BY <2>1, <2>2
<1>5. caller' \in [Callers -> CallerRecord] /\ UntilExcused'
  BY <1>1, <1>3, <1>4, OneCallerChanges DEF SessionInv, UntilExcused
<1>6. SessionTypeOK' /\ NewestHolds'
  BY <1>3, <1>5 DEF SessionInv, SessionTypeOK, NewestHolds, HoldsTheNewest
<1>7. QED
  BY <1>3, <1>5, <1>6 DEF SessionInv

LEMMA AppRefreshesKeeps ==
  ASSUME SessionInv, AppRefreshes
  PROVE  SessionInv'
<1> USE DEF AppRefreshes
<1>1. /\ refreshes' \subseteq Refresh /\ excused' \in BOOLEAN /\ RefreshHolds'
      /\ excused => excused'
      /\ ~excused' => \A r \in refreshes' : RefreshInTime(r)'
  BY RefreshStarts
<1>2. UntilExcused' /\ SessionTypeOK' /\ NewestHolds'
  BY <1>1 DEF SessionInv, SessionTypeOK, NewestHolds, HoldsTheNewest, UntilExcused
<1>3. QED
  BY <1>1, <1>2 DEF SessionInv

LEMMA RefreshServedKeeps ==
  ASSUME SessionInv, NEW r \in refreshes, RefreshServed(r)
  PROVE  SessionInv'
<1>1. /\ time \in Nat /\ generation \in Nat /\ mishaps \in Nat /\ excused \in BOOLEAN
      /\ token \in TokenRecord /\ token.issued \in Nat /\ r \in Refresh
      /\ refreshes \subseteq Refresh
      /\ r.token = token /\ r.since \in Nat /\ Delay \in Nat
      /\ refreshes = {r} /\ newest <= time /\ token.issued = newest
  BY SessionAssumption DEF SessionInv, SessionTypeOK, RefreshHolds, Refresh, TokenRecord,
     NewestHolds, HoldsTheNewest
<1>2. PICK reply \in Reply : LET s == [r EXCEPT !.reply = reply] IN
        /\ refreshes' = {s}
        /\ reply.kind = "token" => reply.token.issued = time
        /\ mishaps' \in Nat /\ excused' \in BOOLEAN /\ (excused => excused')
        /\ ~excused' => reply.kind \in {"none", "token"}
        /\ ~excused' /\ reply.kind = "token" => reply.token.gen = generation
  <2>1. CASE UNCHANGED <<excused, mishaps>> /\ Accepts(r.token)
    <3> DEFINE reply == [kind |-> "token", token |-> [issued |-> time, gen |-> generation]]
    <3>1. reply \in Reply /\ reply.kind = "token" /\ reply.token.issued = time
          /\ reply.token.gen = generation
      BY <1>1 DEF Reply, TokenRecord
    <3>2. refreshes' = {[r EXCEPT !.reply = reply]}
      BY <1>1, <2>1 DEF RefreshServed
    <3>3. QED
      BY <1>1, <2>1, <3>1, <3>2
  <2>2. CASE UNCHANGED <<excused, mishaps>> /\ ~Accepts(r.token)
    <3> DEFINE reply == [kind |-> "refused"]
    <3>1. reply \in Reply /\ reply.kind = "refused"
      BY DEF Reply
    <3>2. refreshes' = {[r EXCEPT !.reply = reply]}
      BY <1>1, <2>2 DEF RefreshServed
    <3>3. excused
      <4>1. TokenLife \in Nat
        BY SessionAssumption
      <4>2. ~excused => RefreshInTime(r) /\ token.gen = generation
        BY DEF SessionInv, UntilExcused
      <4>3. QED
        BY <1>1, <2>2, <4>1, <4>2 DEF RefreshInTime, Accepts, Expiry
    <3>4. QED
      BY <1>1, <2>2, <3>1, <3>2, <3>3
  <2>3. CASE mishaps' = mishaps + 1
    <3> DEFINE reply == [kind |-> "failed"]
    <3>1. reply \in Reply /\ reply.kind = "failed"
      BY DEF Reply
    <3>2. refreshes' = {[r EXCEPT !.reply = reply]} /\ excused' = TRUE
      BY <1>1, <2>3 DEF RefreshServed
    <3>3. QED
      BY <1>1, <2>3, <3>1, <3>2
  <2>4. QED
    BY <2>1, <2>2, <2>3 DEF RefreshServed
<1> DEFINE s == [r EXCEPT !.reply = reply]
<1>3. s \in Refresh /\ s.token = token /\ s.since = r.since /\ s.reply = reply
  BY <1>1, <1>2 DEF Refresh
<1>4. UNCHANGED <<time, generation, token, ended, caller, newest>>
  BY DEF RefreshServed
<1>5. SessionTypeOK' /\ RefreshHolds' /\ NewestHolds'
  BY <1>1, <1>2, <1>3, <1>4 DEF SessionInv, SessionTypeOK, RefreshHolds, NewestHolds, HoldsTheNewest
<1>6. ~excused' => RefreshInTime(s)'
  <2>1. ~excused => RefreshInTime(r)
    BY DEF SessionInv, UntilExcused
  <2>2. QED
    BY <1>1, <1>2, <1>3, <1>4, <2>1 DEF RefreshInTime, Expiry
<1>7. UntilExcused'
  BY <1>2, <1>4, <1>6 DEF SessionInv, UntilExcused
<1>8. QED
  BY <1>5, <1>7 DEF SessionInv

LEMMA RefreshEndsKeeps ==
  ASSUME SessionInv, NEW r \in refreshes, RefreshEnds(r)
  PROVE  SessionInv'
<1>1. /\ time \in Nat /\ generation \in Nat /\ mishaps \in Nat /\ excused \in BOOLEAN
      /\ ended \in BOOLEAN /\ newest \in Nat
      /\ token \in TokenRecord /\ token.issued \in Nat /\ r \in Refresh
      /\ r.token = token /\ r.since \in Nat /\ r.reply \in Reply
      /\ Delay \in Nat /\ RefreshAfter \in Nat /\ TokenLife \in Nat /\ SendRetries \in Nat
      /\ Delay < RefreshAfter
      /\ refreshes = {r} /\ newest <= time /\ token.issued = newest
      /\ caller \in [Callers -> CallerRecord]
  BY SessionAssumption DEF SessionInv, SessionTypeOK, RefreshHolds, Refresh, TokenRecord,
     NewestHolds, HoldsTheNewest
<1>2. /\ UNCHANGED <<time, generation, excused, mishaps>> /\ refreshes' = {}
      /\ r.reply # NoReply
      /\ token' = IF r.reply.kind = "token" THEN r.reply.token ELSE token
      /\ newest' = IF token'.issued > newest THEN token'.issued ELSE newest
      /\ ended' = (ended \/ r.reply.kind = "refused")
      /\ caller' = [c \in Callers |-> AfterRefresh(caller[c], r.reply.kind, token')]
  BY <1>1 DEF RefreshEnds
<1>3. /\ r.reply.kind = "token" => r.reply.token \in TokenRecord
      /\ r.reply.kind = "token" =>
           token.issued <= r.reply.token.issued /\ r.reply.token.issued <= time
      /\ r.reply.kind # "none"
  <2>1. r.reply.kind = "none" => r.reply = NoReply
    BY <1>1 DEF Reply, NoReply
  <2>2. r.reply.kind = "token" => r.reply.token \in TokenRecord
    BY <1>1 DEF Reply, NoReply
  <2>3. QED
    BY <1>2, <2>1, <2>2 DEF SessionInv, RefreshHolds
<1>4. /\ token' \in TokenRecord /\ token'.issued \in Nat /\ token'.issued = newest'
      /\ newest' <= time /\ newest' \in Nat /\ token.issued <= token'.issued
  BY <1>1, <1>2, <1>3 DEF TokenRecord
<1>5. ASSUME NEW c \in Callers
      PROVE  /\ caller'[c] \in CallerRecord
             /\ caller'[c] = AfterRefresh(caller[c], r.reply.kind, token')
  <2>1. caller[c] \in CallerRecord /\ IdleCaller \in CallerRecord
        /\ Sent(caller[c], token') \in CallerRecord
    BY <1>1, <1>4, SentCaller, IdleIsInTime
  <2>2. QED
    BY <1>2, <2>1 DEF AfterRefresh
<1>6. SessionTypeOK' /\ RefreshHolds' /\ NewestHolds'
  <2>1. caller' \in [Callers -> CallerRecord]
    BY <1>2, <1>5
  <2>2. QED
    BY <1>1, <1>2, <1>4, <2>1 DEF SessionTypeOK, RefreshHolds, NewestHolds, HoldsTheNewest
<1>7. ASSUME ~excused
      PROVE  /\ ~ended' /\ token'.gen = generation
             /\ \A c \in Callers : InTime(caller'[c], time, token', generation)
  <2>1. /\ ~ended /\ token.gen = generation /\ RefreshInTime(r)
        /\ \A c \in Callers : InTime(caller[c], time, token, generation)
    BY <1>7 DEF SessionInv, UntilExcused
  <2>2. /\ r.reply.kind = "token" /\ r.reply.token.gen = generation
        /\ time <= r.since + Delay /\ r.since <= r.reply.token.issued
    BY <1>3, <2>1 DEF RefreshInTime
  <2>3. token' = r.reply.token /\ time <= token'.issued + Delay
    BY <1>1, <1>2, <1>4, <2>2
  <2>4. ASSUME NEW c \in Callers PROVE InTime(caller'[c], time, token', generation)
    <3>1. caller[c] \in CallerRecord /\ InTime(caller[c], time, token, generation)
      BY <1>1, <2>1
    <3>2. CASE caller[c].at # "waiting"
      <4>1. caller'[c] = caller[c]
        BY <1>5, <3>2 DEF AfterRefresh
      <4>2. /\ caller[c].presents.issued \in Nat /\ caller[c].tries \in Nat
            /\ caller[c].since \in Nat
        BY <3>1 DEF CallerRecord, TokenRecord
      <4>3. /\ caller[c].tries * Delay \in Int
            /\ (caller[c].tries - 1) * Delay \in Int
        BY <1>1, <4>2
      <4>4. QED
        BY <1>1, <1>4, <3>1, <4>1, <4>2, <4>3 DEF InTime, PostDue
    <3>3. CASE caller[c].at = "waiting"
      <4> DEFINE s == Sent(caller[c], token')
      <4>1. caller'[c] = s
        BY <1>5, <2>2, <3>3 DEF AfterRefresh
      <4>2. /\ s.at = "sent" /\ s.kind # "download" /\ s.tries = 0 /\ s.presents = token'
            /\ s.since = time
        BY <1>1, <1>4, <3>1, <3>3, SentCaller DEF InTime
      <4>3. time + 2 * Delay <= Expiry(token') /\ time <= PostDue(token', 0)
        <5>1. RefreshAfter + 2 * Delay + Delay <= TokenLife
          BY <1>1, RetryTimes
        <5> DEFINE fresh == token'.issued
        <5>0. /\ time \in Nat /\ Delay \in Nat /\ RefreshAfter \in Nat /\ TokenLife \in Nat
              /\ Delay < RefreshAfter /\ fresh \in Nat /\ time <= fresh + Delay
          BY <1>1, <1>4, <2>3
        <5> HIDE DEF fresh
        <5>2. time + 2 * Delay <= fresh + TokenLife /\ time <= fresh + RefreshAfter + 2 * (0 * Delay)
          BY <5>0, <5>1
        <5>3. Expiry(token') = fresh + TokenLife /\ PostDue(token', 0) = fresh + RefreshAfter + 2 * (0 * Delay)
          BY DEF Expiry, PostDue, fresh
        <5>4. QED
          BY <5>2, <5>3
      <4>4. QED
        BY <1>1, <1>4, <2>2, <2>3, <4>1, <4>2, <4>3 DEF InTime, Expiry
    <3>4. QED
      BY <3>2, <3>3
  <2>5. QED
    BY <1>2, <2>1, <2>2, <2>3, <2>4
<1>8. UntilExcused'
  BY <1>2, <1>7 DEF UntilExcused
<1>9. QED
  BY <1>6, <1>8 DEF SessionInv

\* A step of one caller's request, a mishap or none, keeps the invariant where
\* what the caller becomes is in time.
LEMMA RequestStepKeeps ==
  ASSUME SessionInv,
         UNCHANGED <<time, generation, token, ended, refreshes, newest, excused>>, mishaps' \in Nat,
         NEW c \in Callers, NEW k \in CallerRecord, caller' = [caller EXCEPT ![c] = k],
         ~excused => InTime(k, time, token, generation)
  PROVE  SessionInv'
<1>1. /\ caller' \in [Callers -> CallerRecord]
      /\ ~excused => \A d \in Callers : InTime(caller'[d], time', token', generation')
  BY OneCallerChanges
<1>2. SessionTypeOK' /\ RefreshHolds' /\ NewestHolds'
  BY <1>1 DEF SessionInv, SessionTypeOK, RefreshHolds, NewestHolds, HoldsTheNewest
<1>3. UntilExcused'
  BY <1>1 DEF SessionInv, UntilExcused, RefreshInTime, Expiry
<1>4. QED
  BY <1>2, <1>3 DEF SessionInv

\* What the lemmas of a caller's step start from.
LEMMA CallerFacts ==
  ASSUME SessionInv, NEW c \in Callers
  PROVE  /\ caller[c] \in CallerRecord /\ caller \in [Callers -> CallerRecord]
         /\ caller[c].since \in Nat /\ caller[c].tries \in Nat
         /\ caller[c].presents \in TokenRecord /\ caller[c].presents.issued \in Nat
         /\ caller[c].kind \in {"post", "stream", "download"}
         /\ time \in Nat /\ token \in TokenRecord /\ token.issued \in Nat /\ mishaps \in Nat
         /\ token.gen \in Nat /\ generation \in Nat
         /\ Delay \in Nat /\ RefreshAfter \in Nat /\ TokenLife \in Nat /\ SendRetries \in Nat
         /\ ExpiryLead \in Nat /\ 2 * Delay <= ExpiryLead
         /\ caller[c].tries * Delay \in Nat /\ SendRetries * Delay \in Nat
         /\ ~excused => /\ InTime(caller[c], time, token, generation)
                        /\ token.gen = generation
<1>1. /\ caller[c] \in CallerRecord /\ caller \in [Callers -> CallerRecord]
      /\ time \in Nat /\ token \in TokenRecord /\ mishaps \in Nat /\ generation \in Nat
  BY DEF SessionInv, SessionTypeOK
<1>2. /\ caller[c].since \in Nat /\ caller[c].tries \in Nat
      /\ caller[c].presents \in TokenRecord /\ caller[c].kind \in {"post", "stream", "download"}
  BY <1>1 DEF CallerRecord
<1>3. caller[c].presents.issued \in Nat /\ token.issued \in Nat /\ token.gen \in Nat
  BY <1>1, <1>2 DEF TokenRecord
<1>4. caller[c].tries * Delay \in Nat /\ SendRetries * Delay \in Nat
  BY <1>2, RetryTimes, SessionAssumption
<1>5. QED
  BY <1>1, <1>2, <1>3, <1>4, SessionAssumption DEF SessionInv, UntilExcused

\* The last time a post goes out by, with n retries, leaves it time.
LEMMA PostInTime ==
  ASSUME NEW t \in TokenRecord, NEW n \in Nat, n <= SendRetries,
         NEW now \in Nat, now <= PostDue(t, n)
  PROVE  now + Delay <= Expiry(t)
<1>1. n * Delay \in Nat /\ n * Delay <= SendRetries * Delay /\ SendRetries * Delay \in Nat
      /\ RefreshAfter + 2 * (SendRetries * Delay) + Delay <= TokenLife
      /\ t.issued \in Nat /\ SendRetries \in Nat
      /\ RefreshAfter \in Nat /\ Delay \in Nat /\ TokenLife \in Nat
  BY RetryTimes, SessionAssumption DEF TokenRecord
<1> DEFINE nd == n * Delay
           all == SendRetries * Delay
<1>2. nd \in Nat /\ nd <= all /\ all \in Nat /\ RefreshAfter + 2 * all + Delay <= TokenLife
      /\ now <= t.issued + RefreshAfter + 2 * nd
  BY <1>1 DEF PostDue
<1> HIDE DEF nd, all
<1>3. QED
  BY <1>1, <1>2 DEF Expiry

LEMMA PostAgainKeeps ==
  ASSUME SessionInv, NEW c \in Callers, PostAgain(c)
  PROVE  SessionInv'
<1> DEFINE k == caller[c]
           s == Sent(k, token)
<1>1. /\ k \in CallerRecord /\ k.since \in Nat /\ k.tries \in Nat /\ k.at = "resting"
      /\ time \in Nat /\ token \in TokenRecord /\ token.issued \in Nat /\ mishaps \in Nat
      /\ Delay \in Nat /\ RefreshAfter \in Nat
      /\ ~excused => InTime(k, time, token, generation) /\ token.gen = generation
  BY CallerFacts DEF PostAgain
<1>2. /\ s \in CallerRecord /\ s.at = "sent" /\ s.since = time /\ s.presents = token
      /\ s.kind = k.kind /\ s.tries = k.tries
  BY <1>1, SentCaller
<1>3. ASSUME ~excused PROVE InTime(s, time, token, generation)
  <2>1. k.tries > 0 /\ k.kind = "post" /\ k.tries <= SendRetries
        /\ time <= k.since + Delay /\ k.since <= PostDue(token, k.tries - 1) + Delay
    BY <1>1, <1>3 DEF InTime
  <2>2. k.tries - 1 \in Nat /\ k.tries = (k.tries - 1) + 1
    BY <1>1, <2>1
  <2>3. (k.tries - 1) * Delay \in Nat /\ k.tries * Delay = (k.tries - 1) * Delay + Delay
    BY <2>2, RetryTimes
  <2>4. time <= PostDue(token, k.tries)
    <3> DEFINE nd == (k.tries - 1) * Delay
               due == k.tries * Delay
    <3>1. nd \in Nat /\ due = nd + Delay
          /\ k.since <= token.issued + RefreshAfter + 2 * nd + Delay
      BY <2>1, <2>3 DEF PostDue
    <3> HIDE DEF nd, due
    <3>2. time <= token.issued + RefreshAfter + 2 * due
      BY <1>1, <2>1, <3>1
    <3>3. QED
      BY <3>2 DEF PostDue, due
  <2>5. time + Delay <= Expiry(token)
    BY <1>1, <2>1, <2>4, PostInTime
  <2>6. QED
    BY <1>1, <1>2, <1>3, <2>1, <2>4, <2>5 DEF InTime
<1>4. QED
  BY <1>1, <1>2, <1>3, RequestStepKeeps DEF PostAgain

LEMMA BeginDownloadKeeps ==
  ASSUME SessionInv, NEW c \in Callers, BeginDownload(c)
  PROVE  SessionInv'
<1> DEFINE s == [IdleCaller EXCEPT !.kind = "download", !.at = "sent", !.since = time,
                                   !.presents = token]
<1>1. PICK o \in Callers : caller[o].at = "open"
  BY DEF BeginDownload
<1>2. /\ time \in Nat /\ token \in TokenRecord /\ token.issued \in Nat /\ mishaps \in Nat
      /\ caller[o].presents.issued \in Nat
      /\ Delay \in Nat /\ SendRetries \in Nat /\ TokenLife \in Nat
      /\ ~excused => InTime(caller[o], time, token, generation) /\ token.gen = generation
  BY CallerFacts
<1>3. /\ s \in CallerRecord /\ s.at = "sent" /\ s.since = time /\ s.presents = token
      /\ s.kind = "download" /\ s.tries = 0
  BY <1>2 DEF CallerRecord, IdleCaller
<1>4. ASSUME ~excused PROVE InTime(s, time, token, generation)
  <2>1. time + Delay <= Expiry(caller[o].presents) /\ caller[o].presents.issued <= token.issued
    BY <1>1, <1>2, <1>4 DEF InTime
  <2>2. time + Delay <= Expiry(token)
    BY <1>2, <2>1 DEF Expiry
  <2>3. QED
    BY <1>2, <1>3, <1>4, <2>2 DEF InTime
<1>5. QED
  BY <1>2, <1>3, <1>4, RequestStepKeeps DEF BeginDownload

LEMMA RequestServedKeeps ==
  ASSUME SessionInv, NEW c \in Callers, RequestServed(c)
  PROVE  SessionInv'
<1> DEFINE k == caller[c]
<1>1. /\ k \in CallerRecord /\ k.since \in Nat /\ k.tries \in Nat /\ k.at = "sent"
      /\ k.presents \in TokenRecord /\ k.presents.issued \in Nat
      /\ time \in Nat /\ token \in TokenRecord /\ token.issued \in Nat /\ mishaps \in Nat
      /\ Delay \in Nat /\ TokenLife \in Nat
      /\ ~excused => InTime(k, time, token, generation)
  BY CallerFacts DEF RequestServed
<1>2. NoToken \in TokenRecord /\ NoToken.issued = 0
  BY DEF NoToken, TokenRecord
<1>3. CASE ~Accepts(k.presents)
  <2> DEFINE n == [k EXCEPT !.at = "refused", !.presents = NoToken]
  <2>1. n \in CallerRecord
    BY <1>1, <1>2 DEF CallerRecord
  <2>2. excused
    BY <1>1, <1>3 DEF InTime, Accepts, Expiry
  <2>3. caller' = [caller EXCEPT ![c] = n]
    BY <1>3 DEF RequestServed
  <2>4. QED
    BY <1>1, <2>1, <2>2, <2>3, RequestStepKeeps DEF RequestServed
<1>4. CASE Accepts(k.presents) /\ k.kind = "stream"
  <2> DEFINE n == [k EXCEPT !.at = "taken", !.presents.gen = 0]
  <2>1. /\ n \in CallerRecord /\ n.at = "taken" /\ n.presents.issued = k.presents.issued
        /\ n.since = k.since /\ n.tries = k.tries /\ n.kind = k.kind
    BY <1>1 DEF CallerRecord, TokenRecord
  <2>2. ~excused => InTime(n, time, token, generation)
    BY <1>1, <1>4, <2>1 DEF InTime, Expiry
  <2>3. caller' = [caller EXCEPT ![c] = n]
    BY <1>4 DEF RequestServed
  <2>4. QED
    BY <1>1, <2>1, <2>2, <2>3, RequestStepKeeps DEF RequestServed
<1>5. CASE Accepts(k.presents) /\ k.kind # "stream"
  <2> DEFINE n == [k EXCEPT !.at = "taken", !.presents = NoToken]
  <2>1. /\ n \in CallerRecord /\ n.at = "taken" /\ n.presents.issued = 0
        /\ n.since = k.since /\ n.tries = k.tries /\ n.kind = k.kind
    BY <1>1, <1>2 DEF CallerRecord
  <2>2. ~excused => InTime(n, time, token, generation)
    BY <1>1, <1>5, <2>1 DEF InTime
  <2>3. caller' = [caller EXCEPT ![c] = n]
    BY <1>5 DEF RequestServed
  <2>4. QED
    BY <1>1, <2>1, <2>2, <2>3, RequestStepKeeps DEF RequestServed
<1>6. QED
  BY <1>3, <1>4, <1>5

LEMMA RequestAnsweredKeeps ==
  ASSUME SessionInv, NEW c \in Callers, RequestAnswered(c)
  PROVE  SessionInv'
<1> DEFINE k == caller[c]
<1>1. /\ k \in CallerRecord /\ k.since \in Nat /\ k.at = "taken"
      /\ k.presents \in TokenRecord /\ k.presents.issued \in Nat
      /\ time \in Nat /\ token \in TokenRecord /\ mishaps \in Nat
      /\ Delay \in Nat /\ TokenLife \in Nat
      /\ ~excused => InTime(k, time, token, generation)
  BY CallerFacts DEF RequestAnswered
<1>2. CASE k.kind = "stream"
  <2> DEFINE n == [k EXCEPT !.at = "open", !.since = 0]
  <2>1. /\ n \in CallerRecord /\ n.at = "open" /\ n.presents = k.presents /\ n.tries = k.tries
        /\ n.kind = k.kind
    BY <1>1 DEF CallerRecord
  <2>2. ~excused => InTime(n, time, token, generation)
    BY <1>1, <1>2, <2>1 DEF InTime, Expiry
  <2>3. caller' = [caller EXCEPT ![c] = n]
    BY <1>2 DEF RequestAnswered
  <2>4. QED
    BY <1>1, <2>1, <2>2, <2>3, RequestStepKeeps DEF RequestAnswered
<1>3. CASE k.kind # "stream"
  <2>1. caller' = [caller EXCEPT ![c] = IdleCaller]
    BY <1>3 DEF RequestAnswered
  <2>2. QED
    BY <1>1, <2>1, IdleIsInTime, RequestStepKeeps DEF RequestAnswered
<1>4. QED
  BY <1>2, <1>3

LEMMA RefusedKeeps ==
  ASSUME SessionInv, NEW c \in Callers, Refused(c)
  PROVE  SessionInv'
<1>1. excused
  BY DEF Refused, SessionInv, UntilExcused, InTime
<1>2. caller' \in [Callers -> CallerRecord]
  BY IdleIsInTime DEF Refused, SessionInv, SessionTypeOK
<1>3. QED
  BY <1>1, <1>2 DEF Refused, SessionInv, SessionTypeOK, RefreshHolds, NewestHolds, HoldsTheNewest,
     UntilExcused

LEMMA RequestLostKeeps ==
  ASSUME SessionInv, NEW c \in Callers, RequestLost(c)
  PROVE  SessionInv'
<1> DEFINE k == caller[c]
<1>1. /\ k \in CallerRecord /\ k.since \in Nat /\ k.tries \in Nat
      /\ k.at \in {"sent", "taken", "refused"}
      /\ time \in Nat /\ token \in TokenRecord /\ token.issued \in Nat
      /\ mishaps' \in Nat
      /\ UNCHANGED <<time, generation, token, ended, refreshes, newest, excused>>
      /\ Delay \in Nat /\ RefreshAfter \in Nat /\ SendRetries \in Nat
      /\ ~excused => InTime(k, time, token, generation)
  BY CallerFacts DEF RequestLost
<1>2. CASE k.kind = "post" /\ k.tries < SendRetries
  <2> DEFINE n == [k EXCEPT !.at = "resting", !.since = time, !.tries = k.tries + 1,
                            !.presents = NoToken]
  <2>1. /\ n \in CallerRecord /\ n.at = "resting" /\ n.since = time /\ n.tries = k.tries + 1
        /\ n.presents.issued = 0 /\ n.kind = "post"
    <3>1. ASSUME NEW again \in Nat
          PROVE  LET l == [k EXCEPT !.at = "resting", !.since = time, !.tries = again,
                                    !.presents = NoToken]
                 IN  /\ l \in CallerRecord /\ l.at = "resting" /\ l.since = time
                     /\ l.tries = again /\ l.presents.issued = 0 /\ l.kind = k.kind
      BY <1>1 DEF CallerRecord, NoToken, TokenRecord
    <3>2. k.tries + 1 \in Nat
      BY <1>1
    <3>3. QED
      BY <1>2, <3>1, <3>2
  <2>2. ASSUME ~excused PROVE InTime(n, time, token, generation)
    <3>1. /\ time <= k.since + Delay /\ k.since <= PostDue(token, k.tries)
      BY <1>1, <1>2, <2>2 DEF InTime
    <3>2. n.tries - 1 = k.tries
      BY <1>1, <2>1
    <3>3. PostDue(token, k.tries) \in Nat
      <4>1. k.tries * Delay \in Nat
        BY <1>1, RetryTimes
      <4>2. QED
        BY <1>1, <4>1 DEF PostDue
    <3>4. time <= PostDue(token, n.tries - 1) + Delay
      BY <1>1, <3>1, <3>2, <3>3
    <3>5. QED
      BY <1>1, <1>2, <2>1, <3>4 DEF InTime
  <2>3. caller' = [caller EXCEPT ![c] = n]
    BY <1>2 DEF RequestLost
  <2>4. QED
    BY <1>1, <2>1, <2>2, <2>3, RequestStepKeeps
<1>3. CASE ~(k.kind = "post" /\ k.tries < SendRetries)
  <2>1. caller' = [caller EXCEPT ![c] = IdleCaller]
    BY <1>3 DEF RequestLost
  <2>2. QED
    BY <1>1, <2>1, IdleIsInTime, RequestStepKeeps
<1>4. QED
  BY <1>2, <1>3

LEMMA StreamEndsKeeps ==
  ASSUME SessionInv, NEW c \in Callers, StreamEnds(c)
  PROVE  SessionInv'
<1>1. time \in Nat /\ token \in TokenRecord /\ mishaps \in Nat
  BY CallerFacts
<1>2. QED
  BY <1>1, IdleIsInTime, RequestStepKeeps DEF StreamEnds

LEMMA AccountRevokesKeeps ==
  ASSUME SessionInv, AccountRevokes
  PROVE  SessionInv'
BY DEF AccountRevokes, SessionInv, SessionTypeOK, RefreshHolds, NewestHolds, HoldsTheNewest,
   UntilExcused

LEMMA TimeGoesOnKeeps ==
  ASSUME SessionInv, TimeGoesOn
  PROVE  SessionInv'
<1> USE DEF TimeGoesOn
<1>1. /\ time \in Nat /\ time' = time + 1 /\ newest \in Nat /\ token \in TokenRecord
      /\ token.issued \in Nat
      /\ Delay \in Nat /\ TokenLife \in Nat /\ ExpiryLead \in Nat /\ 2 * Delay <= ExpiryLead
      /\ UNCHANGED <<generation, token, ended, refreshes, caller, newest, excused, mishaps>>
  BY SessionAssumption DEF SessionInv, SessionTypeOK, TokenRecord
<1>2. SessionTypeOK' /\ NewestHolds'
  BY <1>1 DEF SessionInv, SessionTypeOK, NewestHolds, HoldsTheNewest
<1>3. \A r \in refreshes : r.since \in Nat /\ (r.reply.kind = "token" => r.reply.token.issued \in Nat)
  <2> TAKE r \in refreshes
  <2>1. r \in Refresh
    BY DEF SessionInv, SessionTypeOK
  <2>2. r.reply \in Reply /\ r.since \in Nat
    BY <2>1 DEF Refresh
  <2>3. QED
    BY <2>2 DEF Reply, NoReply, TokenRecord
<1>4. RefreshHolds'
  BY <1>1, <1>3 DEF SessionInv, RefreshHolds
<1>5. ASSUME ~excused, NEW r \in refreshes PROVE RefreshInTime(r)'
  <2>1. RefreshInTime(r) /\ time < r.since + Delay
    BY <1>5 DEF SessionInv, UntilExcused
  <2>2. QED
    BY <1>1, <1>3, <2>1 DEF RefreshInTime, Expiry
<1>6. ASSUME ~excused, NEW c \in Callers PROVE InTime(caller[c], time + 1, token, generation)
  <2>1. /\ caller[c].since \in Nat /\ caller[c].presents.issued \in Nat
        /\ InTime(caller[c], time, token, generation)
    BY <1>6, CallerFacts
  <2>2. CASE caller[c].at = "open"
    <3>1. time < Expiry(caller[c].presents) - ExpiryLead + Delay
      BY <2>2
    <3>2. time + 1 + Delay <= Expiry(caller[c].presents)
      BY <1>1, <2>1, <3>1 DEF Expiry
    <3>3. QED
      BY <2>1, <2>2, <3>2 DEF InTime
  <2>3. CASE caller[c].at # "open"
    <3>1. caller[c].at \in {"resting", "sent", "taken"} => time < caller[c].since + Delay
      OBVIOUS
    <3>2. QED
      BY <1>1, <2>1, <2>3, <3>1 DEF InTime
  <2>4. QED
    BY <2>2, <2>3
<1>7. UntilExcused'
  BY <1>1, <1>5, <1>6 DEF SessionInv, UntilExcused
<1>8. QED
  BY <1>2, <1>4, <1>7 DEF SessionInv

-----------------------------------------------------------------------------
(* The theorems.                                                           *)

\* Every step of the callers, of the refresh they share and of the database
\* keeps the invariant, a lost request and a revoked account included.
THEOREM SessionInvariance == SessionSpec => []SessionInv
<1>1. SessionInv /\ [SessionNext]_sessionVars => SessionInv'
  <2> SUFFICES ASSUME SessionInv, [SessionNext]_sessionVars PROVE SessionInv'
    OBVIOUS
  <2>1. CASE UNCHANGED sessionVars
    BY <2>1 DEF sessionVars, SessionInv, SessionTypeOK, RefreshHolds, NewestHolds, HoldsTheNewest,
       UntilExcused, RefreshInTime, Expiry
  <2>2. ASSUME NEW c \in Callers,
               \/ \E kind \in {"post", "stream"} : CallBegins(c, kind)
               \/ PostAgain(c) \/ BeginDownload(c) \/ RequestServed(c)
               \/ RequestAnswered(c) \/ Refused(c) \/ RequestLost(c) \/ StreamEnds(c)
        PROVE  SessionInv'
    BY <2>2, CallBeginsKeeps, PostAgainKeeps, BeginDownloadKeeps, RequestServedKeeps,
       RequestAnsweredKeeps, RefusedKeeps, RequestLostKeeps, StreamEndsKeeps
  <2>3. ASSUME NEW r \in refreshes, RefreshServed(r) \/ RefreshEnds(r)
        PROVE  SessionInv'
    BY <2>3, RefreshServedKeeps, RefreshEndsKeeps
  <2>4. QED
    BY <2>1, <2>2, <2>3, AppRefreshesKeeps, AccountRevokesKeeps, TimeGoesOnKeeps DEF SessionNext
<1>2. QED
  BY <1>1, SessionInitHolds, PTL DEF SessionSpec

\* No call that shares the session ends it in vain, and the session's token is
\* always the newest it has had.  (http.ts: refresh, #fresh, #reissue, refusal)
THEOREM SessionAlwaysHolds == SessionSpec => []SessionHolds
<1>1. SessionInv => SessionHolds
  BY DEF SessionInv, UntilExcused, NewestHolds, SessionHolds, NeverEndedInVain
<1>2. QED
  BY <1>1, SessionInvariance, PTL
=============================================================================
