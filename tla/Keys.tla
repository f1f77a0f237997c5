-------------------------------- MODULE Keys --------------------------------
(***************************************************************************)
(* The server's token keys (db/src/keys.rs) and the tokens mint signs with *)
(* them (db/src/auth.rs).                                                  *)
(*                                                                         *)
(* A private key lives in the process that minted it.  Its public half is  *)
(* committed to the token key table by the writer before it signs, and the *)
(* same commit deletes the keys the mint swept, those whose every token    *)
(* has expired.  A mint holds the signing lock throughout; its client may  *)
(* leave meanwhile, which drops it where it waits for the commit, and the  *)
(* process may end at any step.                                            *)
(*                                                                         *)
(* Every time is counted in one unit; that a token's expiry is cut to a    *)
(* whole second is left out.  A key is known by its id, which is drawn at  *)
(* random and never drawn twice.                                           *)
(***************************************************************************)
EXTENDS Integers

CONSTANTS
  Kids,      \* key ids, in their order
  KeyTimes,     \* times the clock may show
  Rotation,  \* KEY_ROTATION_MS: for how long a key signs
  Grace,     \* KEY_GRACE_MS
  Lifetime,  \* TOKEN_LIFETIME_MS
  NoKey, NoMint

\* A day, a day and thirty in the code.
ASSUME KeysAssumption ==
  /\ Kids \subseteq Int /\ KeyTimes \subseteq Int
  /\ Rotation \in Nat \ {0} /\ Grace \in Nat /\ Lifetime \in Nat
  /\ Rotation <= Grace /\ Rotation <= Lifetime

TokenKey == [kid : Kids, minted : KeyTimes]

ASSUME NoKeyAssumption == NoKey \notin TokenKey

\* A request to the writer: a key to store, and the keys it sweeps.
KeyRequest == [key : TokenKey, sweep : SUBSET TokenKey]

ASSUME NoMintAssumption == NoMint \notin KeyRequest

Token == [key : TokenKey, signed : KeyTimes]

VARIABLES
  clock,      \* the wall clock
  high,       \* history: the latest time it has shown
  drawn,      \* history: the ids drawn
  tokenKeys,  \* the token key table
  running,    \* whether a server runs
  start,      \* when it started
  keyring,    \* the stored keys, as it holds them
  past,       \* the keys of it that were minted before it started
  signing,    \* the key it signs with
  minting,    \* the request of the mint that holds the lock and waits for its commit
  queued,     \* requests the writer has not committed
  issued      \* history: tokens handed out that have not expired since

keysVars == <<clock, high, drawn, tokenKeys, running, start, keyring, past,
              signing, minting, queued, issued>>

\* verify takes a token until its expiry has passed.
Unexpired(tokens, now) == {t \in tokens : t.signed + Lifetime >= now}

\* The keyring's order.
Older(k, n) == k.minted < n.minted \/ (k.minted = n.minted /\ k.kid < n.kid)

\* When k stopped signing, by each account of it, the earliest of which counts:
\* its successor's minting, the new key's if it has none, and the start of this
\* process if it is a past one's.
Ends(k, minted) ==
  LET after == {n \in keyring : Older(k, n)}
  IN  (IF after = {} THEN {minted} ELSE {n.minted : n \in after})
        \cup (IF k \in past THEN {start} ELSE {})

\* Mutant of Swept: the grace is forgotten.
MutSwept(minted, now) ==
  {k \in keyring : \E end \in Ends(k, minted) : end + Lifetime < now}

\* The keys whose every token has expired by now.
Swept(minted, now) ==
  {k \in keyring : \E end \in Ends(k, minted) : end + Lifetime + Grace < now}

KeysInit ==
  /\ clock \in KeyTimes /\ high = clock /\ drawn = {} /\ tokenKeys = {}
  /\ running = FALSE /\ start = clock /\ keyring = {} /\ past = {}
  /\ signing = NoKey /\ minting = NoMint /\ queued = {} /\ issued = {}

\* The server opens its keyring over the table.
OpenKeys ==
  /\ ~running
  /\ running' = TRUE
  /\ start' = clock
  /\ keyring' = tokenKeys
  /\ past' = tokenKeys
  /\ UNCHANGED <<clock, high, drawn, tokenKeys, signing, minting, queued, issued>>

\* The process ends, with every request the writer had not committed.
CloseKeys ==
  /\ running
  /\ running' = FALSE
  /\ keyring' = {} /\ past' = {} /\ signing' = NoKey
  /\ minting' = NoMint /\ queued' = {}
  /\ UNCHANGED <<clock, high, drawn, tokenKeys, start, issued>>

\* The process has a key that has not signed for a day.
SignsNow == signing # NoKey /\ clock - signing.minted < Rotation

\* mint with a key at hand.
SignToken ==
  /\ running /\ minting = NoMint
  /\ SignsNow
  /\ issued' = issued \cup {[key |-> signing, signed |-> clock]}
  /\ UNCHANGED <<clock, high, drawn, tokenKeys, running, start, keyring, past,
                 signing, minting, queued>>

\* mint without one: a fresh key, its sweep, and the request to commit both.
BeginMint ==
  /\ running /\ minting = NoMint
  /\ ~SignsNow
  /\ \E kid \in Kids \ drawn :
       LET request == [key |-> [kid |-> kid, minted |-> clock], sweep |-> Swept(clock, clock)]
       IN  /\ drawn' = drawn \cup {kid}
           /\ minting' = request
           /\ queued' = queued \cup {request}
  /\ UNCHANGED <<clock, high, tokenKeys, running, start, keyring, past, signing, issued>>

\* The writer commits a request.
CommitKey(q) ==
  /\ q \in queued
  /\ tokenKeys' = (tokenKeys \cup {q.key}) \ q.sweep
  /\ queued' = queued \ {q}
  /\ UNCHANGED <<clock, high, drawn, running, start, keyring, past, signing, minting, issued>>

\* The mint resumes: the keyring takes the key and drops the swept, and the key
\* signs at the time the mint began.
EndMint ==
  /\ minting # NoMint
  /\ minting \notin queued
  /\ keyring' = (keyring \cup {minting.key}) \ minting.sweep
  /\ past' = past \ minting.sweep
  /\ signing' = minting.key
  /\ issued' = Unexpired(issued \cup {[key |-> minting.key, signed |-> minting.key.minted]}, clock)
  /\ minting' = NoMint
  /\ UNCHANGED <<clock, high, drawn, tokenKeys, running, start, queued>>

\* The mint's client leaves, or the server closes: the request stays queued.
AbandonMint ==
  /\ minting # NoMint
  /\ minting' = NoMint
  /\ UNCHANGED <<clock, high, drawn, tokenKeys, running, start, keyring, past,
                 signing, queued, issued>>

\* The clock goes on or is stepped, back by no more than the grace.
ClockSteps ==
  \E now \in KeyTimes :
    /\ now >= high - Grace
    /\ clock' = now
    /\ high' = IF now > high THEN now ELSE high
    /\ issued' = Unexpired(issued, now)
    /\ UNCHANGED <<drawn, tokenKeys, running, start, keyring, past, signing, minting, queued>>

KeysNext ==
  \/ OpenKeys \/ CloseKeys \/ SignToken \/ BeginMint \/ EndMint \/ AbandonMint \/ ClockSteps
  \/ \E q \in queued : CommitKey(q)

KeysSpec == KeysInit /\ [][KeysNext]_keysVars

-----------------------------------------------------------------------------
\* No sweep strands a token: the key of every token that was handed out and has
\* not expired since is in the table, and in the keyring that a server verifies
\* with, across rotations, restarts, mints whose client left and a clock stepped
\* back.  (keys.rs: swept, add; auth.rs: mint, verify)
LiveTokensVerify ==
  \A t \in issued : t.key \in tokenKeys /\ (running => t.key \in keyring)
=============================================================================
