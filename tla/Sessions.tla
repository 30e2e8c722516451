------------------------------ MODULE Sessions ------------------------------
(***************************************************************************)
(* Who is logged in (backend/internal/handlers/auth.go, auth/jwt.go,       *)
(* middleware/auth.go): one admin row with a password and a token version, *)
(* signed cookies that carry the version they were issued at, and handlers *)
(* that read the row, compare passwords with bcrypt, which takes long, and *)
(* only then act on what they read.                                        *)
(*                                                                         *)
(* The row of the admin is its password and version; a user name that does *)
(* not exist is a password that matches none.  A cookie is presented by    *)
(* anyone who holds it, so cookies is the set of those ever signed that    *)
(* have not expired.                                                       *)
(***************************************************************************)
EXTENDS Throttle, Sequences

CONSTANTS Req,       \* goroutines serving requests
          Password, NoPassword, NoKey,
          Overlap,   \* may two password changes be under way at once?
          MaxVersion, \* bound: token versions
          MaxTime    \* bound: the clock

ASSUME SessionsAssumption ==
  /\ NoPassword \notin Password /\ Overlap \in BOOLEAN
  /\ MaxVersion \in Nat \ {0} /\ MaxTime \in Nat

VARIABLES
  password, version, \* the admin row
  cookies,   \* signed session cookies: their version and, as a history, the password
             \* they were issued under
  entries, lastGC, \* Throttle.entries and Throttle.lastGC
  now,       \* the clock
  pc,        \* per goroutine: where its request is
  req,       \* per goroutine: its key, the password it gave, the new one, the row it read
  fails      \* history: when the last MaxFailures failures of a key were recorded

row      == <<password, version, cookies>>
throttle == <<entries, lastGC, fails>>
vars     == <<password, version, cookies, entries, lastGC, now, pc, req, fails>>

Cookie  == [ver : 1..MaxVersion, pw : Password]
Request == [key : Key \cup {NoKey}, given : Password \cup {NoPassword},
            new : Password \cup {NoPassword}, pw : Password \cup {NoPassword}, ver : 0..MaxVersion]
NoRequest == [key |-> NoKey, given |-> NoPassword, new |-> NoPassword, pw |-> NoPassword, ver |-> 0]

\* SessionValid
Valid(c) == c.ver = version

Init ==
  /\ password \in Password /\ version = 1 /\ cookies = {}
  /\ entries = [k \in Key |-> NoEntry] /\ lastGC = -GcPeriod /\ now = 0
  /\ pc = [r \in Req |-> "idle"] /\ req = [r \in Req |-> NoRequest]
  /\ fails = [k \in Key |-> <<>>]

Finish(r) == pc' = [pc EXCEPT ![r] = "idle"] /\ req' = [req EXCEPT ![r] = NoRequest]

-----------------------------------------------------------------------------
(* Login: ask the throttle, read the row, compare, then record a failure   *)
(* or sign a cookie.                                                       *)

Gc == lastGC' = IF GcDue(now, lastGC) THEN now ELSE lastGC

LoginAllow(r) == \E k \in Key, given \in Password \cup {NoPassword} :
  /\ pc[r] = "idle" /\ Gc /\ entries' = Collect(entries, now, lastGC)
  /\ IF Refused(entries', k, now)
     THEN UNCHANGED <<pc, req>>
     ELSE /\ pc' = [pc EXCEPT ![r] = "login"]
          /\ req' = [req EXCEPT ![r].key = k, ![r].given = given]
  /\ UNCHANGED <<row, now, fails>>

\* The row a handler works with from here on.
Read(r, from, to) ==
  /\ pc[r] = from /\ pc' = [pc EXCEPT ![r] = to]
  /\ req' = [req EXCEPT ![r].pw = password, ![r].ver = version]
  /\ UNCHANGED <<row, throttle, now>>

LoginRead(r) == Read(r, "login", "compare")

\* The history of a key with one more failure.
Logged(log, t) ==
  IF Len(log) < MaxFailures THEN Append(log, t) ELSE Append(Tail(log), t)

LoginFail(r) ==
  /\ pc[r] = "compare" /\ req[r].given # req[r].pw /\ Finish(r) /\ Gc
  /\ LET k == req[r].key
         es == Collect(entries, now, lastGC)
     IN IF Recorded(es, k)
        THEN /\ entries' = [es EXCEPT ![k] = Fail(es[k], now)]
             /\ fails' = [fails EXCEPT ![k] = Logged(@, now)]
        ELSE entries' = es /\ UNCHANGED fails
  /\ UNCHANGED <<row, now>>

LoginOk(r) ==
  /\ pc[r] = "compare" /\ req[r].given = req[r].pw /\ Finish(r)
  /\ cookies' = cookies \cup {[ver |-> req[r].ver, pw |-> req[r].pw]}
  /\ entries' = [entries EXCEPT ![req[r].key] = NoEntry]
  /\ fails' = [fails EXCEPT ![req[r].key] = <<>>]
  /\ UNCHANGED <<password, version, lastGC, now>>

-----------------------------------------------------------------------------
(* ChangePassword, behind RequireAuth: a valid cookie, the row, the old    *)
(* password compared, then the new password and the next version written.  *)

Changing == {r \in Req : pc[r] \in {"change", "write"}}

ChangeBegin(r) == \E c \in cookies, given, new \in Password :
  /\ pc[r] = "idle" /\ Valid(c) /\ given # new
  /\ Overlap \/ Changing = {}
  /\ pc' = [pc EXCEPT ![r] = "change"]
  /\ req' = [req EXCEPT ![r].given = given, ![r].new = new]
  /\ UNCHANGED <<row, throttle, now>>

ChangeRead(r) == version < MaxVersion /\ Read(r, "change", "write")

\* A wrong old password, a failed update, or the bound on versions.
ChangeRefused(r) ==
  /\ r \in Changing /\ Finish(r)
  /\ UNCHANGED <<row, throttle, now>>

FaultyChangeWrite(r) == \* the version is not bumped
  /\ pc[r] = "write" /\ req[r].given = req[r].pw /\ Finish(r)
  /\ password' = req[r].new
  /\ cookies' = cookies \cup {[ver |-> req[r].ver, pw |-> req[r].new]}
  /\ UNCHANGED <<version, throttle, now>>

ChangeWrite(r) ==
  /\ pc[r] = "write" /\ req[r].given = req[r].pw /\ Finish(r)
  /\ password' = req[r].new /\ version' = req[r].ver + 1
  /\ cookies' = cookies \cup {[ver |-> version', pw |-> req[r].new]}
  /\ UNCHANGED <<throttle, now>>

-----------------------------------------------------------------------------
\* A cookie's seven days are over.
Expire(c) ==
  /\ c \in cookies /\ cookies' = cookies \ {c}
  /\ UNCHANGED <<password, version, throttle, now, pc, req>>

Tick ==
  /\ now < MaxTime /\ now' = now + 1
  /\ UNCHANGED <<row, throttle, pc, req>>

FaultyPanelRestart == \* the admin row is seeded again
  /\ cookies' \in {cookies, {}} /\ password' \in Password /\ version' = 1
  /\ entries' = [k \in Key |-> NoEntry] /\ lastGC' = -GcPeriod
  /\ fails' = [k \in Key |-> <<>>]
  /\ pc' = [r \in Req |-> "idle"] /\ req' = [r \in Req |-> NoRequest]
  /\ UNCHANGED now

\* The throttle is forgotten; the cookies are too when the secret that signed
\* them was neither configured nor persisted.
PanelRestart ==
  /\ cookies' \in {cookies, {}}
  /\ entries' = [k \in Key |-> NoEntry] /\ lastGC' = -GcPeriod
  /\ fails' = [k \in Key |-> <<>>]
  /\ pc' = [r \in Req |-> "idle"] /\ req' = [r \in Req |-> NoRequest]
  /\ UNCHANGED <<password, version, now>>

Next ==
  \/ \E r \in Req :
       \/ LoginAllow(r) \/ LoginRead(r) \/ LoginFail(r) \/ LoginOk(r)
       \/ ChangeBegin(r) \/ ChangeRead(r) \/ ChangeWrite(r) \/ ChangeRefused(r)
  \/ \E c \in cookies : Expire(c)
  \/ Tick \/ PanelRestart

Spec == Init /\ [][Next]_vars

-----------------------------------------------------------------------------
(* The state is well formed, and the throttle's map stays within maxKeys.  *)
TypeOK ==
  /\ password \in Password /\ version \in 1..MaxVersion /\ cookies \subseteq Cookie
  /\ entries \in [Key -> Entry \cup {NoEntry}] /\ lastGC \in -GcPeriod..MaxTime
  /\ now \in 0..MaxTime
  /\ pc \in [Req -> {"idle", "login", "compare", "change", "write"}]
  /\ req \in [Req -> Request]
  /\ fails \in [Key -> Seq(Nat)] /\ \A k \in Key : Len(fails[k]) <= MaxFailures
  /\ Cardinality(Tracked(entries)) <= MaxKeys

(* Changing the password revokes the sessions issued under the old one: a  *)
(* session that is accepted was issued under the password now in force,    *)
(* also when its login read the row before the change and ended after it.  *)
SessionsCurrent == \A c \in cookies : Valid(c) => c.pw = password

(* A session that was revoked is never accepted again.                     *)
RevokedForGood == [][\A c \in cookies : ~Valid(c) => c.ver # version']_vars

InARow(s) == Len(s) = MaxFailures /\ \A i \in 1..(Len(s) - 1) : s[i + 1] - s[i] <= Window

(* MaxFailures recorded failures, none more than Window after the one      *)
(* before, lock their key out for at least Block from the first, however   *)
(* late failures of slow comparisons and the collection of entries fall    *)
(* between.                                                                *)
LockoutHolds ==
  \A k \in Key : InARow(fails[k]) /\ now < fails[k][1] + Block => Refused(entries, k, now)

(* Nobody is locked out for less: not by stale failures, nor by another    *)
(* key's, nor by those before a success.                                   *)
LockoutJustified == \A k \in Key : Refused(entries, k, now) => InARow(fails[k])
=============================================================================
