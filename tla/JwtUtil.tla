------------------------------- MODULE JwtUtil -------------------------------
(***************************************************************************)
(* JwtUtil: signed tokens that expire, a blacklist of revoked ones with a   *)
(* size limit, a callback that persists revocations, and a start time that  *)
(* expels the sessions of earlier runs.  verify() looks at the clock first  *)
(* and takes the blacklist's mutex later.  A token stands for a string with *)
(* a valid signature; the process may restart and lose its memory.          *)
(***************************************************************************)
EXTENDS Naturals, FiniteSets

CONSTANTS
  Tokens,      \* the strings sign() returns
  Lifetimes,   \* the arguments expireSeconds of sign()
  EntryLimits, \* the arguments of setMaxEntries; 0 is no limit
  MaxTime,     \* bound: the last second of the clock
  MaxRestarts  \* bound: restarts of the process

ASSUME JwtConstants ==
  /\ Lifetimes \subseteq Nat \ {0} /\ EntryLimits \subseteq Nat
  /\ MaxTime \in Nat /\ MaxRestarts \in Nat

VARIABLES
  clock,       \* nowSeconds()
  issued,      \* each signed token's iat, exp and the run that signed it
  run,         \* how often the process was restarted
  blacklist,   \* s_blacklist
  maxEntries,  \* s_maxEntries
  persist,     \* s_persistCallback is set
  startTime,   \* s_startTimeSeconds
  stored,      \* external: the revocations the callback wrote
  verifying,   \* the verify() in progress, or how the last one ended
  standing,    \* history: the revocations nothing excuses to ignore
  recorded     \* history: the tokens revoked while there was a callback

revocations == <<standing, recorded>>
jwtVars == <<clock, issued, run, blacklist, maxEntries, persist, startTime, stored, verifying, revocations>>

None == [at |-> "none"]
Signed == {t \in Tokens : issued[t].exp > 0}
Exp(t) == issued[t].exp
Iat(t) == issued[t].iat

JwtInit ==
  /\ clock = 1 /\ run = 0
  /\ issued = [t \in Tokens |-> [iat |-> 0, exp |-> 0, run |-> 0]]
  /\ blacklist = {} /\ maxEntries \in EntryLimits /\ persist = FALSE /\ startTime = 0
  /\ stored = {} /\ verifying = None /\ standing = {} /\ recorded = {}

Sign(t, lifetime) ==
  /\ t \notin Signed
  /\ issued' = [issued EXCEPT ![t] = [iat |-> clock, exp |-> clock + lifetime, run |-> run]]
  /\ UNCHANGED <<clock, run, blacklist, maxEntries, persist, startTime, stored, verifying, revocations>>

-----------------------------------------------------------------------------
(* verify() *)

IsRevoked(t) == t \in blacklist
Expired(t) == clock >= Exp(t)
\* Mutant: the boundary is a second too low.
TooOldByOne(t) == startTime > 0 /\ Iat(t) + 1 < startTime
TooOld(t) == startTime > 0 /\ Iat(t) < startTime

\* The signature, the expiry and the start time, which is kept for the
\* properties.
VerifyBegin(t) ==
  /\ verifying.at # "checked" /\ t \in Signed
  /\ verifying' = IF Expired(t) \/ TooOld(t) THEN None
                  ELSE [at |-> "checked", token |-> t, start |-> startTime]
  /\ UNCHANGED <<clock, issued, run, blacklist, maxEntries, persist, startTime, stored, revocations>>

\* isRevoked, under the mutex.
VerifyEnd ==
  /\ verifying.at = "checked"
  /\ verifying' = [at |-> IF IsRevoked(verifying.token) THEN "refused" ELSE "accepted"]
  /\ UNCHANGED <<clock, issued, run, blacklist, maxEntries, persist, startTime, stored, revocations>>

-----------------------------------------------------------------------------
(* The blacklist; every operation runs under its mutex. *)

\* Mutant: an entry is dropped in the last second in which its token is valid.
PurgedEarly(entries) == {t \in entries : Exp(t) > clock + 1}
Purged(entries) == {t \in entries : Exp(t) > clock}

\* Room for one more: the entries that expire first go.
Evictions(entries) ==
  IF maxEntries = 0 \/ Cardinality(entries) < maxEntries THEN {{}}
  ELSE {out \in SUBSET entries :
          /\ Cardinality(entries \ out) = maxEntries - 1
          /\ \A o \in out, k \in entries \ out : Exp(o) <= Exp(k)}

\* What the limit may cost: of the live entries those for which there are not
\* enough others that expire earlier and go in their place.
Endangered ==
  LET live == {t \in blacklist : ~Expired(t)}
  IN {t \in live : /\ maxEntries > 0
                   /\ Cardinality({o \in live : Exp(o) < Exp(t)}) + maxEntries <= Cardinality(live)}

\* An entry that is there already makes room as well.
Revoke(t) ==
  /\ t \in Signed
  /\ \E out \in Evictions(Purged(blacklist)) : blacklist' = (Purged(blacklist) \ out) \cup {t}
  /\ stored' = IF persist THEN stored \cup {t} ELSE stored
  /\ standing' = (standing \ Endangered) \cup {t}
  /\ recorded' = IF persist THEN recorded \cup {t} ELSE recorded
  /\ UNCHANGED <<clock, issued, run, maxEntries, persist, startTime, verifying>>

Cleanup ==
  /\ blacklist' = Purged(blacklist)
  /\ UNCHANGED <<clock, issued, run, maxEntries, persist, startTime, stored, verifying, revocations>>

SetMaxEntries(n) ==
  /\ maxEntries' = n
  /\ UNCHANGED <<clock, issued, run, blacklist, persist, startTime, stored, verifying, revocations>>

SetPersistCallback ==
  /\ persist' = TRUE
  /\ UNCHANGED <<clock, issued, run, blacklist, maxEntries, startTime, stored, verifying, revocations>>

\* loadEntries looks neither at the limit nor at the clock.
LoadEntries ==
  /\ blacklist' = blacklist \cup stored
  /\ standing' = standing \cup recorded
  /\ UNCHANGED <<clock, issued, run, maxEntries, persist, startTime, stored, verifying, recorded>>

SetStartTimeSeconds ==
  /\ startTime' = clock
  /\ UNCHANGED <<clock, issued, run, blacklist, maxEntries, persist, stored, verifying, revocations>>

-----------------------------------------------------------------------------
(* The environment *)

Tick ==
  /\ clock < MaxTime /\ clock' = clock + 1
  /\ UNCHANGED <<issued, run, blacklist, maxEntries, persist, startTime, stored, verifying, revocations>>

\* The statics are initialised anew; what was written survives.
Restart ==
  /\ run < MaxRestarts /\ run' = run + 1
  /\ standing' = {}
  /\ blacklist' = {} /\ maxEntries' \in EntryLimits /\ persist' = FALSE /\ startTime' = 0
  /\ verifying' = None
  /\ UNCHANGED <<clock, issued, stored, recorded>>

JwtNext ==
  \/ \E t \in Tokens : (\E n \in Lifetimes : Sign(t, n)) \/ VerifyBegin(t) \/ Revoke(t)
  \/ VerifyEnd \/ Cleanup \/ (\E n \in EntryLimits : SetMaxEntries(n))
  \/ SetPersistCallback \/ LoadEntries \/ SetStartTimeSeconds
  \/ Tick \/ Restart

JwtSpec == JwtInit /\ [][JwtNext]_jwtVars

-----------------------------------------------------------------------------
(* Properties *)

Accepts == verifying.at = "checked" /\ verifying'.at = "accepted"

\* A token for which revoke() has returned is not accepted, also when verify()
\* had begun before.  There are three excuses: a later revoke() found the list
\* full and the token among the entries that expire first; the process was
\* restarted, and the revocation was made without a persist callback or
\* loadEntries was not called yet; the token expired while verify() ran.
RevokedStaysOut ==
  [][Accepts => verifying.token \notin standing \/ Expired(verifying.token)]_jwtVars

\* Once setStartTimeSeconds was called after a restart, a session of an earlier
\* run is expelled, unless its token was signed in the second of the start.
OldSessionsExpelled ==
  [][Accepts /\ verifying.start > 0 /\ issued[verifying.token].run < run =>
       Iat(verifying.token) = verifying.start]_jwtVars
=============================================================================
