----------------------------- MODULE KeysProofs -----------------------------
(***************************************************************************)
(* Theorems about Keys, for any ids, times and lengths of which a rotation *)
(* is no longer than the grace or a token's life.                          *)
(*                                                                         *)
(* A sweep names a key only when the grace and a lifetime have passed      *)
(* since it stopped signing by one account.  NoTokenIsSwept shows that no  *)
(* account is wrong by more than the grace; the rest of the invariant      *)
(* keeps that true until the sweep is carried out, a commit and a resumed  *)
(* mint later, or never.                                                   *)
(***************************************************************************)
EXTENDS Keys, TLAPS

KeysTypeOK ==
  /\ clock \in KeyTimes /\ high \in KeyTimes /\ start \in KeyTimes
  /\ drawn \subseteq Kids /\ running \in BOOLEAN
  /\ tokenKeys \subseteq TokenKey /\ keyring \subseteq TokenKey /\ past \subseteq keyring
  /\ signing \in TokenKey \cup {NoKey}
  /\ minting \in KeyRequest \cup {NoMint}
  /\ queued \subseteq KeyRequest
  /\ issued \subseteq Token

\* The requests whose sweep is still to be carried out somewhere.
Pending == queued \cup ({minting} \ {NoMint})

\* A key that has not signed since a lifetime and the grace before the latest
\* time shown, so that no step of the clock makes it sign again.
Spent(k) == k.minted + Lifetime + Grace < high

\* The clock keeps to the grace, and no token was signed later than the latest
\* time shown, or a rotation past its key's minting.
TimesHold ==
  /\ clock <= high /\ high <= clock + Grace
  /\ \A t \in issued :
       /\ t.signed <= high /\ clock <= t.signed + Lifetime
       /\ t.signed < t.key.minted + Rotation

\* A past key's tokens were signed no more than the grace after the start.
PastHolds ==
  /\ running => \A t \in issued : t.key \in past => t.signed <= start + Grace
  /\ ~running => keyring = {} /\ signing = NoKey /\ minting = NoMint /\ queued = {}

\* Every key stored, swept or named by a token has an id drawn before.
DrawnHolds ==
  /\ \A k \in tokenKeys \cup keyring : k.kid \in drawn
  /\ \A q \in Pending : q.key.kid \in drawn /\ \A k \in q.sweep : k.kid \in drawn
  /\ \A t \in issued : t.key.kid \in drawn

\* The key a mint waits for is neither in the keyring nor swept, and is in the
\* table once its commit is through.
MintHolds ==
  minting # NoMint =>
    /\ minting.key \notin keyring
    /\ \A q \in Pending : minting.key \notin q.sweep
    /\ minting \in queued \/ minting.key \in tokenKeys

\* The key a mint waits for was minted no later than the latest time shown.
MintTime == minting # NoMint => minting.key.minted <= high

\* The signing key is one of this process's own.  Where a sweep names it, or
\* did, it signs no more.
SigningHolds ==
  signing # NoKey =>
    /\ signing \in keyring \ past
    /\ signing \in tokenKeys \/ Spent(signing)
    /\ \A q \in Pending : signing \in q.sweep => Spent(signing)

\* No sweep on its way names the key of a token.
SweepsHold == \A q \in Pending : \A t \in issued : t.key \notin q.sweep

KeysInv ==
  /\ KeysTypeOK /\ TimesHold /\ PastHolds /\ DrawnHolds
  /\ MintTime /\ MintHolds /\ SigningHolds /\ SweepsHold /\ LiveTokensVerify

\* The longest a mint's clock can mislead it: a key a sweep names has no token
\* that has not expired.
LEMMA NoTokenIsSwept ==
  ASSUME KeysInv, running, NEW t \in issued
  PROVE  t.key \notin Swept(clock, clock)
<1> SUFFICES ASSUME t.key \in Swept(clock, clock) PROVE FALSE
  OBVIOUS
<1>1. PICK end \in Ends(t.key, clock) : end + Lifetime + Grace < clock
  BY DEF Swept
<1>2. /\ t.signed \in Int /\ t.key.minted \in Int /\ clock \in Int /\ start \in Int
      /\ keyring \subseteq TokenKey
      /\ clock <= t.signed + Lifetime /\ t.signed < t.key.minted + Rotation
      /\ Rotation \in Nat /\ Grace \in Nat /\ Lifetime \in Nat /\ Rotation <= Grace
  BY KeysAssumption DEF KeysInv, KeysTypeOK, TimesHold, Token, TokenKey
<1>3. CASE end = clock
  BY <1>1, <1>2, <1>3
<1>4. CASE t.key \in past /\ end = start
  <2>1. t.signed <= start + Grace
    BY <1>4 DEF KeysInv, PastHolds
  <2>2. QED
    BY <1>1, <1>2, <1>4, <2>1
<1>5. CASE \E n \in keyring : Older(t.key, n) /\ end = n.minted
  <2>1. PICK n \in keyring : Older(t.key, n) /\ end = n.minted
    BY <1>5
  <2>2. n.minted \in Int /\ t.key.minted <= n.minted
    BY <1>2, <2>1, KeysAssumption DEF Older, TokenKey
  <2>3. QED
    BY <1>1, <1>2, <2>1, <2>2
<1>6. QED
  BY <1>1, <1>3, <1>4, <1>5 DEF Ends

\* A sweep names the signing key only once it is spent.
LEMMA SweptIsSpent ==
  ASSUME KeysInv, NEW k \in Swept(clock, clock), k \notin past
  PROVE  Spent(k)
<1>1. PICK end \in Ends(k, clock) : end + Lifetime + Grace < clock
  BY DEF Swept
<1>2. k \in keyring
  BY DEF Swept
<1>3. /\ k.minted \in Int /\ clock \in Int /\ high \in Int /\ clock <= high
      /\ keyring \subseteq TokenKey /\ Grace \in Nat /\ Lifetime \in Nat
  BY <1>2, KeysAssumption DEF KeysInv, KeysTypeOK, TimesHold, TokenKey
<1>4. CASE end = clock
  BY <1>1, <1>3, <1>4
<1>5. CASE \E n \in keyring : Older(k, n) /\ end = n.minted
  <2>1. PICK n \in keyring : Older(k, n) /\ end = n.minted
    BY <1>5
  <2>2. n.minted \in Int /\ k.minted <= n.minted
    BY <1>3, <2>1, KeysAssumption DEF Older, TokenKey
  <2>3. QED
    BY <1>1, <1>3, <2>1, <2>2 DEF Spent
<1>6. QED
  BY <1>1, <1>4, <1>5 DEF Ends

\* A key that signs now is not spent, however the clock was stepped.
LEMMA SigningIsNotSpent ==
  ASSUME KeysInv, SignsNow
  PROVE  ~Spent(signing)
<1>1. /\ signing.minted \in Int /\ clock \in Int /\ high \in Int /\ high <= clock + Grace
      /\ clock - signing.minted < Rotation
      /\ Rotation \in Nat /\ Lifetime \in Nat /\ Grace \in Nat /\ Rotation <= Lifetime
  BY KeysAssumption DEF KeysInv, KeysTypeOK, TimesHold, TokenKey, SignsNow
<1>2. QED
  BY <1>1 DEF Spent

LEMMA KeysInitHolds == KeysInit => KeysInv
<1> SUFFICES ASSUME KeysInit PROVE KeysInv
  OBVIOUS
<1>1. KeysTypeOK
  BY DEF KeysInit, KeysTypeOK
<1>2. Pending = {}
  BY DEF KeysInit, Pending
<1>3. TimesHold
  BY KeysAssumption DEF KeysInit, TimesHold
<1>4. PastHolds /\ DrawnHolds /\ MintTime /\ MintHolds
      /\ SigningHolds /\ SweepsHold /\ LiveTokensVerify
  BY <1>2 DEF KeysInit, PastHolds, DrawnHolds, MintTime, MintHolds, SigningHolds, SweepsHold, LiveTokensVerify
<1>5. QED
  BY <1>1, <1>3, <1>4 DEF KeysInv

(***************************************************************************)
(* One lemma per action that disturbs more than its own conjunct.          *)
(***************************************************************************)
LEMMA OpenKeysKeeps ==
  ASSUME KeysInv, OpenKeys
  PROVE  KeysInv'
<1> USE DEF OpenKeys
<1>1. KeysTypeOK'
  BY DEF KeysInv, KeysTypeOK
<1>2. Pending' = {} /\ minting' = NoMint /\ signing' = NoKey /\ issued' = issued
  BY DEF KeysInv, PastHolds, Pending
<1>3. TimesHold'
  BY DEF KeysInv, TimesHold
<1>4. PastHolds'
  <2>1. ASSUME NEW t \in issued
        PROVE  t.signed <= clock + Grace
    <3>1. t.signed \in Int /\ clock \in Int /\ high \in Int /\ Grace \in Nat
      BY KeysAssumption DEF KeysInv, KeysTypeOK, Token
    <3>2. t.signed <= high /\ high <= clock + Grace
      BY DEF KeysInv, TimesHold
    <3>3. QED
      BY <3>1, <3>2
  <2>2. QED
    BY <2>1 DEF PastHolds
<1>5. DrawnHolds'
  BY <1>2 DEF KeysInv, DrawnHolds
<1>6. MintTime' /\ MintHolds' /\ SigningHolds' /\ SweepsHold'
  BY <1>2 DEF MintTime, MintHolds, SigningHolds, SweepsHold
<1>7. LiveTokensVerify'
  BY DEF KeysInv, LiveTokensVerify
<1>8. QED
  BY <1>1, <1>3, <1>4, <1>5, <1>6, <1>7 DEF KeysInv

LEMMA CloseKeysKeeps ==
  ASSUME KeysInv, CloseKeys
  PROVE  KeysInv'
<1> USE DEF CloseKeys
<1>1. KeysTypeOK'
  BY DEF KeysInv, KeysTypeOK
<1>2. Pending' = {}
  BY DEF Pending
<1>3. TimesHold'
  BY DEF KeysInv, TimesHold
<1>4. PastHolds' /\ DrawnHolds' /\ LiveTokensVerify'
  BY <1>2 DEF KeysInv, PastHolds, DrawnHolds, LiveTokensVerify
<1>5. MintTime' /\ MintHolds' /\ SigningHolds' /\ SweepsHold'
  BY <1>2 DEF MintTime, MintHolds, SigningHolds, SweepsHold
<1>6. QED
  BY <1>1, <1>3, <1>4, <1>5 DEF KeysInv

LEMMA SignTokenKeeps ==
  ASSUME KeysInv, SignToken
  PROVE  KeysInv'
<1> DEFINE token == [key |-> signing, signed |-> clock]
<1>1. signing \in TokenKey /\ signing \in keyring \ past /\ signing \in tokenKeys
  BY SigningIsNotSpent DEF KeysInv, KeysTypeOK, SigningHolds, SignToken, SignsNow
<1>2. token \in Token /\ issued' = issued \cup {token} /\ Pending' = Pending
  BY <1>1 DEF KeysInv, KeysTypeOK, Token, SignToken, Pending
<1>3. KeysTypeOK'
  BY <1>2 DEF KeysInv, KeysTypeOK, SignToken
<1>4. TimesHold'
  <2>1. /\ clock \in Int /\ high \in Int /\ signing.minted \in Int /\ Lifetime \in Nat
        /\ Rotation \in Nat /\ clock <= high /\ clock - signing.minted < Rotation
    BY <1>1, KeysAssumption DEF KeysInv, KeysTypeOK, TimesHold, TokenKey, SignToken, SignsNow
  <2>2. clock <= high /\ clock <= clock + Lifetime /\ clock < signing.minted + Rotation
    BY <2>1
  <2>3. QED
    BY <1>2, <2>2 DEF KeysInv, TimesHold, SignToken
<1>5. PastHolds'
  BY <1>1, <1>2 DEF KeysInv, PastHolds, SignToken
<1>6. DrawnHolds'
  BY <1>1, <1>2 DEF KeysInv, DrawnHolds, SignToken
<1>7. MintTime' /\ MintHolds' /\ SigningHolds'
  BY <1>2 DEF KeysInv, MintTime, MintHolds, SigningHolds, Spent, SignToken
<1>8. SweepsHold'
  <2>1. \A q \in Pending : signing \notin q.sweep
    BY SigningIsNotSpent DEF KeysInv, SigningHolds, SignToken, SignsNow
  <2>2. QED
    BY <1>2, <2>1 DEF KeysInv, SweepsHold
<1>9. LiveTokensVerify'
  BY <1>1, <1>2 DEF KeysInv, LiveTokensVerify, SignToken
<1>10. QED
  BY <1>3, <1>4, <1>5, <1>6, <1>7, <1>8, <1>9 DEF KeysInv

LEMMA BeginMintKeeps ==
  ASSUME KeysInv, BeginMint
  PROVE  KeysInv'
<1>1. PICK kid \in Kids \ drawn :
        LET request == [key |-> [kid |-> kid, minted |-> clock], sweep |-> Swept(clock, clock)]
        IN  /\ drawn' = drawn \cup {kid}
            /\ minting' = request
            /\ queued' = queued \cup {request}
  BY DEF BeginMint
<1> DEFINE key == [kid |-> kid, minted |-> clock]
           request == [key |-> key, sweep |-> Swept(clock, clock)]
<1>2. Swept(clock, clock) \subseteq keyring
  BY DEF Swept
<1>3. key \in TokenKey /\ request \in KeyRequest /\ key.kid \notin drawn
  BY <1>2 DEF KeysInv, KeysTypeOK, TokenKey, KeyRequest
<1>4. /\ minting = NoMint /\ running
      /\ minting' = request /\ queued' = queued \cup {request} /\ Pending' = Pending \cup {request}
  BY <1>1, <1>3, NoMintAssumption DEF BeginMint, Pending
<1>5. KeysTypeOK'
  BY <1>1, <1>3, <1>4 DEF KeysInv, KeysTypeOK, BeginMint
<1>6. TimesHold' /\ PastHolds' /\ LiveTokensVerify'
  BY DEF KeysInv, TimesHold, PastHolds, LiveTokensVerify, BeginMint
<1>7. DrawnHolds'
  <2>1. request.key.kid \in drawn' /\ \A k \in request.sweep : k.kid \in drawn'
    BY <1>1, <1>2 DEF KeysInv, DrawnHolds
  <2>2. QED
    BY <1>1, <1>4, <2>1 DEF KeysInv, DrawnHolds, BeginMint
<1>8. MintTime' /\ MintHolds'
  <2>1. key \notin keyring /\ key \notin request.sweep /\ \A q \in Pending : key \notin q.sweep
    BY <1>2, <1>3 DEF KeysInv, DrawnHolds
  <2>2. QED
    BY <1>4, <2>1 DEF KeysInv, TimesHold, MintTime, MintHolds, BeginMint
<1>9. SigningHolds'
  <2>1. signing # NoKey /\ signing \in request.sweep => Spent(signing)
    BY SweptIsSpent DEF KeysInv, SigningHolds
  <2>2. QED
    BY <1>4, <2>1 DEF KeysInv, SigningHolds, Spent, BeginMint
<1>10. SweepsHold'
  <2>1. \A t \in issued : t.key \notin request.sweep
    BY <1>4, NoTokenIsSwept
  <2>2. QED
    BY <1>4, <2>1 DEF KeysInv, SweepsHold, BeginMint
<1>11. QED
  BY <1>5, <1>6, <1>7, <1>8, <1>9, <1>10 DEF KeysInv

LEMMA CommitKeyKeeps ==
  ASSUME KeysInv, NEW q \in queued, CommitKey(q)
  PROVE  KeysInv'
<1> USE DEF CommitKey
<1>1. q \in KeyRequest /\ q \in Pending /\ Pending' \subseteq Pending /\ q # NoMint
  BY NoMintAssumption DEF KeysInv, KeysTypeOK, Pending
<1>2. KeysTypeOK'
  BY <1>1 DEF KeysInv, KeysTypeOK, KeyRequest
<1>3. TimesHold'
  BY DEF KeysInv, TimesHold
<1>4. PastHolds'
  BY DEF KeysInv, PastHolds
<1>5. DrawnHolds'
  BY <1>1 DEF KeysInv, DrawnHolds
<1>6. MintTime' /\ MintHolds'
  BY <1>1 DEF KeysInv, MintTime, MintHolds
<1>7. SigningHolds'
  BY <1>1 DEF KeysInv, SigningHolds, Spent
<1>8. SweepsHold'
  BY <1>1 DEF KeysInv, SweepsHold
<1>9. LiveTokensVerify'
  BY <1>1 DEF KeysInv, SweepsHold, LiveTokensVerify
<1>10. QED
  BY <1>2, <1>3, <1>4, <1>5, <1>6, <1>7, <1>8, <1>9 DEF KeysInv

LEMMA EndMintKeeps ==
  ASSUME KeysInv, EndMint
  PROVE  KeysInv'
<1> DEFINE key == minting.key
           token == [key |-> key, signed |-> key.minted]
<1>1. /\ minting \in KeyRequest /\ minting \in Pending /\ running
      /\ key \in TokenKey /\ key \notin keyring /\ key \in tokenKeys
      /\ \A q \in Pending : key \notin q.sweep
  BY DEF KeysInv, KeysTypeOK, KeyRequest, MintHolds, PastHolds, Pending, EndMint
<1>2. token \in Token /\ key \notin past /\ key # NoKey
  BY <1>1, NoKeyAssumption DEF KeysInv, KeysTypeOK, Token, TokenKey
<1>3. /\ Pending' = queued /\ queued' = queued /\ queued \subseteq Pending
      /\ minting' = NoMint /\ signing' = key
      /\ keyring' = (keyring \cup {key}) \ minting.sweep
      /\ past' = past \ minting.sweep /\ past' \subseteq past
      /\ tokenKeys' = tokenKeys /\ drawn' = drawn /\ running' = running /\ start' = start
      /\ clock' = clock /\ high' = high
  BY DEF EndMint, Pending
<1>4. issued' \subseteq issued \cup {token} /\ \A t \in issued' : clock <= t.signed + Lifetime
  <2>1. \A t \in issued \cup {token} : t.signed \in Int
    BY <1>2, KeysAssumption DEF KeysInv, KeysTypeOK, Token
  <2>2. issued' = {t \in issued \cup {token} : t.signed + Lifetime >= clock}
    BY DEF EndMint, Unexpired
  <2>3. QED
    BY <2>1, <2>2, KeysAssumption DEF KeysInv, KeysTypeOK
<1>5. KeysTypeOK'
  BY <1>1, <1>2, <1>3, <1>4 DEF KeysInv, KeysTypeOK
<1>6. TimesHold'
  <2>1. token.signed <= high
    BY <1>1 DEF KeysInv, MintTime, EndMint
  <2>2. token.signed < token.key.minted + Rotation
    <3>1. key.minted \in Int /\ Rotation \in Nat \ {0}
      BY <1>1, KeysAssumption DEF TokenKey
    <3>2. QED
      BY <3>1
  <2>3. QED
    BY <1>3, <1>4, <2>1, <2>2 DEF KeysInv, TimesHold
<1>7. PastHolds'
  BY <1>1, <1>2, <1>3, <1>4 DEF KeysInv, PastHolds
<1>8. DrawnHolds'
  BY <1>1, <1>3, <1>4 DEF KeysInv, DrawnHolds
<1>9. MintTime' /\ MintHolds'
  BY <1>3 DEF MintTime, MintHolds
<1>10. SigningHolds'
  BY <1>1, <1>2, <1>3 DEF SigningHolds
<1>11. SweepsHold'
  BY <1>1, <1>3, <1>4 DEF KeysInv, SweepsHold
<1>12. LiveTokensVerify'
  <2>1. \A t \in issued : t.key \notin minting.sweep
    BY <1>1 DEF KeysInv, SweepsHold
  <2>2. QED
    BY <1>1, <1>3, <1>4, <2>1 DEF KeysInv, LiveTokensVerify
<1>13. QED
  BY <1>5, <1>6, <1>7, <1>8, <1>9, <1>10, <1>11, <1>12 DEF KeysInv

LEMMA AbandonMintKeeps ==
  ASSUME KeysInv, AbandonMint
  PROVE  KeysInv'
<1> USE DEF AbandonMint
<1>1. Pending' \subseteq Pending
  BY DEF Pending
<1>2. KeysTypeOK' /\ TimesHold' /\ PastHolds' /\ LiveTokensVerify'
  BY DEF KeysInv, KeysTypeOK, TimesHold, PastHolds, LiveTokensVerify
<1>3. DrawnHolds' /\ MintTime' /\ MintHolds' /\ SweepsHold'
  BY <1>1 DEF KeysInv, DrawnHolds, MintTime, MintHolds, SweepsHold
<1>4. SigningHolds'
  BY <1>1 DEF KeysInv, SigningHolds, Spent
<1>5. QED
  BY <1>2, <1>3, <1>4 DEF KeysInv

LEMMA ClockStepsKeeps ==
  ASSUME KeysInv, ClockSteps
  PROVE  KeysInv'
<1>1. PICK now \in KeyTimes :
        /\ now >= high - Grace
        /\ clock' = now
        /\ high' = IF now > high THEN now ELSE high
        /\ issued' = Unexpired(issued, now)
        /\ UNCHANGED <<drawn, tokenKeys, running, start, keyring, past, signing, minting, queued>>
  BY DEF ClockSteps
<1>2. now \in Int /\ high \in Int /\ Grace \in Nat /\ Lifetime \in Nat /\ high' \in KeyTimes /\ high' \in Int
  BY <1>1, KeysAssumption DEF KeysInv, KeysTypeOK
<1>3. issued' = {t \in issued : t.signed + Lifetime >= now}
  BY <1>1 DEF Unexpired
<1>4. high <= high' /\ now <= high' /\ high' <= now + Grace /\ Pending' = Pending
  BY <1>1, <1>2 DEF Pending
<1>5. KeysTypeOK'
  BY <1>1, <1>2, <1>3 DEF KeysInv, KeysTypeOK
<1>6. TimesHold'
  <2>1. ASSUME NEW t \in issued'
        PROVE  /\ t.signed <= high' /\ now <= t.signed + Lifetime
               /\ t.signed < t.key.minted + Rotation
    <3>1. t \in issued /\ t.signed \in Int /\ t.signed <= high
      BY <1>3, KeysAssumption DEF KeysInv, KeysTypeOK, TimesHold, Token
    <3>2. t.signed + Lifetime >= now /\ t.signed < t.key.minted + Rotation
      BY <1>3, <3>1 DEF KeysInv, TimesHold
    <3>3. QED
      BY <1>2, <1>4, <3>1, <3>2
  <2>2. QED
    BY <1>1, <1>4, <2>1 DEF TimesHold
<1>7. MintTime'
  <2>1. minting # NoMint => minting.key.minted \in Int
    BY KeysAssumption DEF KeysInv, KeysTypeOK, KeyRequest, TokenKey
  <2>2. minting # NoMint => minting.key.minted <= high
    BY DEF KeysInv, MintTime
  <2>3. QED
    BY <1>1, <1>2, <1>4, <2>1, <2>2 DEF MintTime
<1>8. PastHolds' /\ DrawnHolds' /\ SweepsHold' /\ LiveTokensVerify'
  BY <1>1, <1>3, <1>4 DEF KeysInv, PastHolds, DrawnHolds, SweepsHold, LiveTokensVerify
<1>9. MintHolds'
  BY <1>1, <1>4 DEF KeysInv, MintHolds
<1>10. SigningHolds'
  <2>1. signing # NoKey => (Spent(signing) => Spent(signing)')
    <3>1. signing # NoKey => signing.minted \in Int
      BY KeysAssumption DEF KeysInv, KeysTypeOK, TokenKey
    <3>2. QED
      BY <1>1, <1>2, <1>4, <3>1 DEF Spent
  <2>2. QED
    BY <1>1, <1>4, <2>1 DEF KeysInv, SigningHolds
<1>11. QED
  BY <1>5, <1>6, <1>7, <1>8, <1>9, <1>10 DEF KeysInv

-----------------------------------------------------------------------------
(* The theorems.                                                           *)

\* The keyring, the table, the requests on their way and the tokens keep the
\* invariant through every step, a crash and a stepped clock included.
THEOREM KeysInvariance == KeysSpec => []KeysInv
<1>1. KeysInv /\ [KeysNext]_keysVars => KeysInv'
  <2> SUFFICES ASSUME KeysInv, [KeysNext]_keysVars PROVE KeysInv'
    OBVIOUS
  <2>1. CASE UNCHANGED keysVars
    BY <2>1 DEF keysVars, KeysInv, KeysTypeOK, TimesHold, PastHolds, DrawnHolds, MintTime,
         MintHolds, SigningHolds, SweepsHold, LiveTokensVerify, Pending, Spent
  <2>2. ASSUME NEW q \in queued, CommitKey(q) PROVE KeysInv'
    BY <2>2, CommitKeyKeeps
  <2>3. QED
    BY <2>1, <2>2, OpenKeysKeeps, CloseKeysKeeps, SignTokenKeeps, BeginMintKeeps,
       EndMintKeeps, AbandonMintKeeps, ClockStepsKeeps DEF KeysNext
<1>2. QED
  BY <1>1, KeysInitHolds, PTL DEF KeysSpec

\* No token that has not expired is stranded by a sweep.  (keys.rs: swept, add)
THEOREM LiveTokensAlwaysVerify == KeysSpec => []LiveTokensVerify
<1>1. KeysInv => LiveTokensVerify
  BY DEF KeysInv
<1>2. QED
  BY <1>1, KeysInvariance, PTL
=============================================================================
