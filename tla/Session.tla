------------------------------- MODULE Session -------------------------------
(***************************************************************************)
(* One session over HTTP (client/ts/src/http.ts) and the database's answer *)
(* to the tokens it presents (db/src/auth.rs): posts, streams and the      *)
(* downloads that ride on a stream share the session, one refresh in       *)
(* flight, and its end.                                                    *)
(*                                                                         *)
(* Requests take time, but no more than Delay, and a stream's end reaches  *)
(* the client within it: a fetch that hangs for longer fails.              *)
(***************************************************************************)
EXTENDS Integers, FiniteSets

CONSTANTS
  Callers,          \* calls at one time
  TokenLife,        \* TOKEN_LIFETIME_MS
  RefreshAfter,     \* the age at which a token is refreshed
  ExpiryLead,       \* EXPIRY_LEAD_MS: how long before its token expires a stream ends
  Delay,            \* the longest a request, and a rest before a retry, takes
  SendRetries,
  MaxMishaps,       \* requests lost, and changes of the account's generation
  SessionTimes      \* times of the model

ASSUME SessionAssumption ==
  /\ TokenLife \in Nat /\ RefreshAfter \in Nat /\ ExpiryLead \in Nat /\ Delay \in Nat
  /\ SendRetries \in Nat \ {0} /\ MaxMishaps \in Nat
  /\ Delay < RefreshAfter
  /\ RefreshAfter + (2 * SendRetries + 1) * Delay <= TokenLife
  /\ 2 * Delay <= ExpiryLead /\ ExpiryLead <= TokenLife

VARIABLES
  time,
  generation,  \* the account's
  token,       \* the session's token: when it was issued, at which generation
  ended,       \* the session has ended
  refreshes,   \* refreshes in flight: the token presented, since when, and the reply
  caller,      \* each call in progress
  newest,      \* history: when the newest token the session has had was issued
  mishaps,     \* so far
  excused      \* history: a refresh failed, the account revoked its tokens or the
               \* app let one lapse

sessionVars == <<time, generation, token, ended, refreshes, caller, newest, excused, mishaps>>

NoReply == [kind |-> "none"]
NoToken == [issued |-> 0, gen |-> 0]
IdleCaller == [at |-> "idle", kind |-> "post", since |-> 0, tries |-> 0, late |-> FALSE,
               presents |-> NoToken]

Expiry(t) == t.issued + TokenLife

\* verify and principal_of; and the refresh's own look at the account.
Accepts(t) == Expiry(t) >= time /\ t.gen = generation

\* A session restored when its token has just come due.
SessionInit ==
  /\ time = RefreshAfter /\ generation = 0 /\ ended = FALSE /\ refreshes = {}
  /\ token = [issued |-> 0, gen |-> 0] /\ newest = 0 /\ excused = FALSE /\ mishaps = 0
  /\ caller = [c \in Callers |-> IdleCaller]

IsDue(t) == time >= t.issued + RefreshAfter

\* Mutant of StartsRefresh: a caller starts one of its own.
MutStartsRefresh ==
  /\ refreshes' = refreshes \cup {[token |-> token, since |-> time, reply |-> NoReply]}
  /\ excused' = IF Expiry(token) < time + Delay THEN TRUE ELSE excused

\* refresh: the one in flight is shared.
StartsRefresh ==
  IF refreshes # {} THEN UNCHANGED <<refreshes, excused>>
  ELSE /\ refreshes' = {[token |-> token, since |-> time, reply |-> NoReply]}
       /\ excused' = IF Expiry(token) < time + Delay THEN TRUE ELSE excused

\* Callers are places of calls alike, and a call takes the first that is free.
IsFree(c) == caller[c].at = "idle" /\ \A k \in Callers : k < c => caller[k].at # "idle"

\* A request goes out with a token.
Sent(k, t) == [k EXCEPT !.at = "sent", !.since = time, !.late = FALSE, !.presents = t]

\* A post, or a connection's stream, readies the session and goes out once it is.
CallBegins(c, kind) ==
  /\ IsFree(c) /\ ~ended
  /\ LET k == [IdleCaller EXCEPT !.kind = kind]
     IN  caller' = [caller EXCEPT ![c] =
           IF IsDue(token)
           THEN [k EXCEPT !.at = "waiting", !.late = time >= Expiry(token)]
           ELSE Sent(k, token)]
  /\ IF IsDue(token) THEN StartsRefresh ELSE UNCHANGED <<refreshes, excused>>
  /\ UNCHANGED <<time, generation, token, ended, newest, mishaps>>

\* The app refreshes the session itself.
AppRefreshes ==
  /\ ~ended
  /\ StartsRefresh
  /\ UNCHANGED <<time, generation, token, ended, caller, newest, mishaps>>

\* The database answers a refresh, or the request or its answer is lost.
RefreshServed(r) ==
  /\ r.reply = NoReply
  /\ \/ /\ refreshes' = (refreshes \ {r}) \cup {[r EXCEPT !.reply =
             IF Accepts(r.token)
             THEN [kind |-> "token", token |-> [issued |-> time, gen |-> generation]]
             ELSE [kind |-> "refused"]]}
        /\ UNCHANGED <<excused, mishaps>>
     \/ /\ mishaps < MaxMishaps /\ mishaps' = mishaps + 1
        /\ refreshes' = (refreshes \ {r}) \cup {[r EXCEPT !.reply = [kind |-> "failed"]]}
        /\ excused' = TRUE
  /\ UNCHANGED <<time, generation, token, ended, caller, newest>>

\* What a caller that waited for a refresh does: a failed one leaves it the old
\* token t, where that had not expired when it began.
AfterRefresh(k, kind, t) ==
  IF k.at # "waiting" THEN k
  ELSE IF kind = "refused" \/ (kind = "failed" /\ k.late) THEN IdleCaller
  ELSE Sent(k, t)

\* The refresh ends for everyone who waits for it.
RefreshEnds(r) ==
  /\ r.reply # NoReply
  /\ token' = IF r.reply.kind = "token" THEN r.reply.token ELSE token
  /\ newest' = IF token'.issued > newest THEN token'.issued ELSE newest
  /\ ended' = (ended \/ r.reply.kind = "refused")
  /\ caller' = [c \in Callers |-> AfterRefresh(caller[c], r.reply.kind, token')]
  /\ refreshes' = refreshes \ {r}
  /\ UNCHANGED <<time, generation, excused, mishaps>>

\* A post that failed tries again with the token the session has then, also one of
\* a session that ended meanwhile.
PostAgain(c) ==
  /\ caller[c].at = "resting"
  /\ caller' = [caller EXCEPT ![c] = Sent(@, token)]
  /\ UNCHANGED <<time, generation, token, ended, refreshes, newest, excused, mishaps>>

\* A download on another's stream presents the session as it is.
BeginDownload(c) ==
  /\ IsFree(c)
  /\ \E s \in Callers : caller[s].at = "open"
  /\ caller' = [caller EXCEPT ![c] = [IdleCaller EXCEPT
       !.kind = "download", !.at = "sent", !.since = time, !.presents = token]]
  /\ UNCHANGED <<time, generation, token, ended, refreshes, newest, excused, mishaps>>

\* The database takes or refuses the token.
RequestServed(c) ==
  /\ caller[c].at = "sent"
  /\ LET k == caller[c]
     IN  caller' = [caller EXCEPT ![c] =
           IF ~Accepts(k.presents) THEN [k EXCEPT !.at = "refused", !.presents = NoToken]
           ELSE IF k.kind = "stream" THEN [k EXCEPT !.at = "taken", !.presents.gen = 0]
           ELSE [k EXCEPT !.at = "taken", !.presents = NoToken]]
  /\ UNCHANGED <<time, generation, token, ended, refreshes, newest, excused, mishaps>>

RequestAnswered(c) ==
  /\ caller[c].at = "taken"
  /\ caller' = [caller EXCEPT ![c] =
       IF @.kind = "stream" THEN [@ EXCEPT !.at = "open", !.since = 0] ELSE IdleCaller]
  /\ UNCHANGED <<time, generation, token, ended, refreshes, newest, excused, mishaps>>

\* A refusal ends the session for good, and with a download its connection.
Refused(c) ==
  /\ caller[c].at = "refused"
  /\ ended' = TRUE
  /\ caller' = [k \in Callers |->
       IF k = c \/ (caller[c].kind = "download" /\ caller[k].at = "open") THEN IdleCaller
       ELSE caller[k]]
  /\ UNCHANGED <<time, generation, token, refreshes, newest, excused, mishaps>>

\* The request or its answer is lost; a post tries again, as the session is then.
RequestLost(c) ==
  /\ caller[c].at \in {"sent", "taken", "refused"}
  /\ mishaps < MaxMishaps /\ mishaps' = mishaps + 1
  /\ LET k == caller[c]
     IN  caller' = [caller EXCEPT ![c] =
           IF k.kind = "post" /\ k.tries < SendRetries
           THEN [k EXCEPT !.at = "resting", !.since = time, !.tries = k.tries + 1,
                          !.presents = NoToken]
           ELSE IdleCaller]
  /\ UNCHANGED <<time, generation, token, ended, refreshes, newest, excused>>

StreamEnds(c) ==
  /\ caller[c].at = "open"
  /\ caller' = [caller EXCEPT ![c] = IdleCaller]
  /\ UNCHANGED <<time, generation, token, ended, refreshes, newest, excused, mishaps>>

\* The account's generation changes, which revokes every token of the last.
AccountRevokes ==
  /\ mishaps < MaxMishaps /\ mishaps' = mishaps + 1
  /\ generation' = generation + 1
  /\ excused' = TRUE
  /\ UNCHANGED <<time, token, ended, refreshes, caller, newest>>

\* Time goes on, but past no request's delay, and past no stream's end.
TimeGoesOn ==
  /\ time + 1 \in SessionTimes
  /\ \A r \in refreshes : time < r.since + Delay
  /\ \A c \in Callers :
       LET k == caller[c]
       IN  /\ k.at \in {"resting", "sent", "taken", "refused"} => time < k.since + Delay
           /\ k.at = "open" => time < Expiry(k.presents) - ExpiryLead + Delay
  /\ time' = time + 1
  /\ UNCHANGED <<generation, token, ended, refreshes, caller, newest, excused, mishaps>>

SessionNext ==
  \/ \E c \in Callers : \/ \E kind \in {"post", "stream"} : CallBegins(c, kind)
                        \/ PostAgain(c) \/ BeginDownload(c) \/ RequestServed(c)
                        \/ RequestAnswered(c) \/ Refused(c) \/ RequestLost(c) \/ StreamEnds(c)
  \/ \E r \in refreshes : RefreshServed(r) \/ RefreshEnds(r)
  \/ AppRefreshes \/ AccountRevokes \/ TimeGoesOn

SessionSpec == SessionInit /\ [][SessionNext]_sessionVars

-----------------------------------------------------------------------------
\* A refused token ends the session only where the account revoked it, a refresh
\* failed, or the app came back too late for one: no call that shares the session
\* with a refresh, a retry or a stream ends it in vain.  (refresh, #fresh, refusal)
NeverEndedInVain == ended => excused

\* The session's token is the newest it has had: refreshes never cross.  (refresh,
\* #reissue)
HoldsTheNewest == token.issued = newest

SessionHolds == NeverEndedInVain /\ HoldsTheNewest
=============================================================================
